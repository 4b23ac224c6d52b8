----------------------------- MODULE Candidates -----------------------------
(***************************************************************************)
(* The codes of the classifier that are offered for a cadastral wording:   *)
(* recall, ranking by a score, ranking by a model and the fixed rules      *)
(* (pipeline_modules/business/rerank_layer.py).                            *)
(*                                                                         *)
(* A wording is known by what the rules read in it.  Its words, the        *)
(* patterns that look for them and the numbers behind a ranking are left   *)
(* out: near is the order recall and score give the codes in.              *)
(***************************************************************************)
EXTENDS Integers, SequencesExt

CONSTANTS TopN,      \* NOT_ALLOWED_CANDIDATES_TOP_N
          RecallN,   \* NOT_ALLOWED_LLM_RERANK_RECALL_TOP_N
          Generic    \* RESIDENTIAL_GENERIC_VRI_CODE

ASSUME TopN \in Nat \ {0} /\ RecallN \in Nat /\ RecallN >= TopN

NoMatch == 0

(* canon: the canonical form, "" when nothing is left of the text; lower:  *)
(* the text in lower case; explicit: a code of the classifier written out; *)
(* strong, shortlist, banned: what the marker rules say; manual: no single *)
(* code can be chosen; residential: a dwelling of an unspecified type;     *)
(* sure: the ranking by score leaves no doubt.                             *)
Wording(Canons, Lowers, Codes) ==
    [canon : Canons, lower : Lowers, explicit : Codes \cup {NoMatch},
     strong : Codes \cup {NoMatch}, shortlist : Codes \cup {NoMatch},
     banned : SUBSET Codes, manual : BOOLEAN, residential : BOOLEAN,
     sure : BOOLEAN, near : Seq(Codes)]

FirstOf(codes, n) == SubSeq(codes, 1, IF n < Len(codes) THEN n ELSE Len(codes))

Without(codes, dropped) == SelectSeq(codes, LAMBDA c : c \notin dropped)

Unique(codes) ==
    FoldLeft(LAMBDA kept, c : IF Contains(kept, c) THEN kept ELSE Append(kept, c), <<>>, codes)

ToTop(code, codes) == <<code>> \o Without(codes, {code})

(* build_not_allowed_same_zone_candidates, fast_rerank_not_allowed_candidates *)
Recall(w) == IF w.explicit # NoMatch THEN <<w.explicit>>
             ELSE IF w.canon = "" THEN <<>> ELSE w.near

(* should_run_not_allowed_llm_rerank *)
NeedsModel(w, codes, llm) == llm /\ codes # <<>> /\ ~w.sure

(* The shortlist rule puts its code behind the first of the list it is     *)
(* removed from.                                                           *)
Shortlisted(code, codes) ==
    LET rest == Without(codes, {code})
    IN  IF code = NoMatch THEN codes
        ELSE IF rest = <<>> THEN <<code>> ELSE InsertAt(rest, 2, code)

(* enforce_classifier_candidate_policies *)
Policies(w, codes) ==
    LET kept == Without(Unique(codes), w.banned)
    IN  IF w.explicit # NoMatch /\ Contains(codes, w.explicit) THEN Unique(codes)
        ELSE IF w.manual THEN <<>>
        ELSE IF w.canon = "" THEN Unique(codes)
        ELSE Shortlisted(w.shortlist, IF w.strong = NoMatch THEN kept ELSE ToTop(w.strong, kept))

(* promote_generic_residential_first *)
Promoted(w, codes) == IF w.residential THEN ToTop(Generic, codes) ELSE codes

(* The replies a model may give to a ranking: codes, too few of them, or   *)
(* none.                                                                   *)
NoReply == <<>>

(* One attempt of run_not_allowed_rerank_with_llm that got TopN codes: the *)
(* known ones first, then the rest of the list that was shown.             *)
Ranked(shown, reply) ==
    FirstOf(Unique(SelectSeq(reply, LAMBDA c : Contains(shown, c)) \o shown), TopN)

(* Its attempts: the first is shown RecallN codes, the retries TopN.  What *)
(* fails for good leaves the list as it was.                               *)
ModelRanking(codes, attempt, reply) ==
    IF Len(reply) # TopN THEN FirstOf(codes, TopN)
    ELSE Ranked(FirstOf(codes, IF attempt = 1 THEN RecallN ELSE TopN), reply)

(* The candidates of a wording that is refused (_rerank_one and the loop    *)
(* that writes its results), for what a model replies at which attempt.     *)
OfRefused(w, llm, attempt, reply) ==
    LET fast   == FirstOf(Policies(w, Recall(w)), RecallN)
        ranked == IF NeedsModel(w, fast, llm) THEN ModelRanking(fast, attempt, reply)
                  ELSE FirstOf(fast, TopN)
        found  == FirstOf(Policies(w, ranked \o Policies(w, Recall(w))), TopN)
    IN  IF w.canon = "" THEN <<>>
        ELSE FirstOf(Policies(w, Promoted(w, found)), TopN)

(* The candidates of the classification without zones (_process_row): the   *)
(* ranking by a model, or by score, with the rules on top.                  *)
OfClassified(w, ranking) ==
    LET fast == Policies(w, Recall(w))
    IN  FirstOf(Policies(w, (IF w.residential THEN FirstOf(Promoted(w, fast), TopN)
                             ELSE ranking) \o fast), TopN)
=============================================================================
