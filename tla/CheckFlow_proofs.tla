-------------------------- MODULE CheckFlow_proofs --------------------------
(***************************************************************************)
(* Theorems about the checks, whatever is uploaded, whatever the settings,  *)
(* the zones and the norms are and whatever a model says, for any number of *)
(* requests, workers and callers.  In this order:                           *)
(*   - the check of parcels: what a decided question owes its row to;       *)
(*   - requests for a scenario and the rows they share;                     *)
(*   - direct checks, their caches and their locks;                         *)
(*   - the check of parcels as a request runs it;                           *)
(*   - what is shown of a scenario with a cadastre;                         *)
(*   - accepted requests and the runners they reach;                        *)
(*   - placements;                                                          *)
(*   - what is shown of a result: its report, its overlaps, its links.      *)
(***************************************************************************)
EXTENDS CheckFlow, WellFoundedInduction, FiniteSetTheorems, TLAPS
-----------------------------------------------------------------------------
(* Numbers.                                                                *)

Below == {pair \in Nat \X Nat : pair[1] < pair[2]}

LEMMA BelowIsWellFounded == IsWellFoundedOn(Below, Nat)
<1>1. OpToRel(<, Nat) = Below
  BY Zenon DEF OpToRel, Below
<1> QED
  BY <1>1, NatLessThanWellFounded, Zenon

(* Numbers have a least one; what holds of 0 and is passed on holds of all. *)
LEMMA LeastNumber ==
  ASSUME NEW S, S \subseteq Nat, S # {}
  PROVE  \E least \in S : \A other \in S : least <= other
<1>1. \E least \in S : \A other \in S : <<other, least>> \notin Below
  BY BelowIsWellFounded, WFMin, Zenon
<1>2. \A x, y \in S : <<y, x>> \notin Below => x <= y
  BY DEF Below
<1> QED
  BY <1>1, <1>2

LEMMA Induction ==
  ASSUME NEW S, 0 \in S, \A n \in Nat : n \in S => n + 1 \in S
  PROVE  Nat \subseteq S
<1> SUFFICES ASSUME Nat \ S # {} PROVE FALSE
  OBVIOUS
<1>1. PICK n \in Nat \ S : \A other \in Nat \ S : n <= other
  BY LeastNumber
<1>2. n - 1 \in Nat
  BY <1>1
<1>3. n - 1 \in S
  BY <1>1, <1>2
<1>4. (n - 1) + 1 \in S
  BY <1>2, <1>3
<1> QED
  BY <1>1, <1>4

LEMMA MinIsLeast ==
  ASSUME NEW S, S \subseteq Nat, S # {}
  PROVE  Min(S) \in S /\ \A other \in S : Min(S) <= other
BY LeastNumber, Zenon DEF Min
-----------------------------------------------------------------------------
(* The rules.                                                              *)

(* Nothing but the settings and the templates of the run decides.           *)
LEMMA RulesOfInput ==
  ASSUME input' = input
  PROVE  /\ \A z : Reference(z)' = Reference(z)
         /\ \A w, z : ByRules(w, z)' = ByRules(w, z)
<1>1. \A z : WithCode(z)' = WithCode(z) /\ WithBase(z)' = WithBase(z)
  BY DEF WithCode, WithBase
<1>2. \A z : Reference(z)' = Reference(z)
  BY <1>1 DEF Reference
<1>3. \A z : Items(z)' = Items(z)
  BY <1>1 DEF Items
<1>4. \A w, z : Matches(w, z)' = Matches(w, z)
  BY <1>3 DEF Matches
<1>5. \A w, z : ByRules(w, z)' = ByRules(w, z)
  BY <1>2, <1>3, <1>4 DEF ByRules
<1> QED
  BY <1>2, <1>5

(* The rules read a text by what zones are compared with.                   *)
LEMMA RulesReadFields ==
  ASSUME NEW w, NEW v, NEW z, \A f \in ZoneFields : w[f] = v[f]
  PROVE  ByRules(w, z) = ByRules(v, z)
<1>1. /\ w.canon = v.canon /\ w.residential = v.residential /\ w.named = v.named
      /\ w.covered = v.covered /\ w.close = v.close /\ w.embed = v.embed /\ w.kin = v.kin
      /\ w.near = v.near
  BY DEF ZoneFields
<1>2. \A items : Nearest(items, w) = Nearest(items, v)
  BY <1>1 DEF Nearest
<1>3. Matches(w, z) = Matches(v, z)
  BY <1>1, <1>2 DEF Matches
<1> QED
  BY <1>1, <1>3 DEF ByRules

(* What items of a zone allow is one of the three permissions.              *)
LEMMA StrongestAllows ==
  ASSUME NEW z, NEW items, items \subseteq Items(z), items # {}
  PROVE  Strongest(items) \in {"allowed_main", "allowed_conditional", "allowed_auxiliary"}
<1> DEFINE held == {k \in DOMAIN Sections : \E item \in items : item[1] = Sections[k]}
<1>1. DOMAIN Sections = 1..3 /\ Range(Sections) = {"main", "conditional", "auxiliary"}
  BY DEF Sections, Range
<1>2. \A item \in items : item[1] \in Range(Sections)
  BY DEF Items
<1>3. held # {}
  BY <1>2 DEF Range
<1>4. held \subseteq Nat
  BY <1>1
<1>5. Min(held) \in held
  BY <1>3, <1>4, MinIsLeast
<1>6. Sections[Min(held)] \in {"main", "conditional", "auxiliary"}
  BY <1>1, <1>5 DEF Range
<1>7. AllowedIn(Sections[Min(held)])
         \in {"allowed_main", "allowed_conditional", "allowed_auxiliary"}
  BY <1>6 DEF AllowedIn
<1> QED
  BY <1>7 DEF Strongest

LEMMA FirstMatchFits ==
  ASSUME NEW matches, FirstMatch(matches) # 0
  PROVE  FirstMatch(matches) \in 1..Len(matches) /\ matches[FirstMatch(matches)] # {}
<1> DEFINE places == {i \in 1..Len(matches) : matches[i] # {}}
<1>1. FirstMatch(matches) = IF places # {} THEN Min(places) ELSE 0
  BY Zenon DEF FirstMatch, SelectInSeq
<1>2. places \subseteq Nat /\ places # {}
  BY <1>1
<1>3. Min(places) \in places
  BY <1>2, MinIsLeast
<1> QED
  BY <1>1, <1>2, <1>3

(* The rules never refuse.                                                  *)
LEMMA RulesNeverRefuse ==
  ASSUME NEW w, NEW z
  PROVE  /\ ByRules(w, z) # "not_allowed"
         /\ z = NoCode \/ Reference(z) = 0 => ByRules(w, z) # "ask"
<1>1. \A items : Coded(Items(z), items) \subseteq Items(z)
  BY DEF Coded
<1>2. \A items : items \subseteq Items(z) /\ items # {} => Strongest(items) # "not_allowed"
  BY StrongestAllows
<1>3. CASE w.canon = ""
  <2>1. Matches(w, z) = <<>>
    BY <1>3 DEF Matches
  <2>2. FirstMatch(Matches(w, z)) = 0
    BY <2>1, FirstMatchFits
  <2> QED
    BY <1>1, <1>2, <2>2 DEF ByRules
<1>4. CASE w.canon # ""
  <2> DEFINE k == FirstMatch(Matches(w, z))
  <2>1. \A codes : OnlyOne(Coded(Items(z), codes)) \subseteq Items(z)
    BY <1>1 DEF OnlyOne
  <2>2. Nearest(Items(z), w) \subseteq Items(z)
    BY <1>1 DEF Nearest
  <2>3. \E a, b, c, d, e \in SUBSET Items(z) : Matches(w, z) = <<a, b, c, d, e>>
    BY <1>1, <1>4, <2>1, <2>2, Zenon DEF Matches
  <2>4. k # 0 => Matches(w, z)[k] \subseteq Items(z) /\ Matches(w, z)[k] # {}
    BY <2>3, FirstMatchFits
  <2> QED
    BY <1>1, <1>2, <2>4 DEF ByRules
<1> QED
  BY <1>3, <1>4
-----------------------------------------------------------------------------
(* The rows.                                                               *)

(* The parcels of a run are a list of texts the rules read.                 *)
InputFits ==
    /\ input.parcels \in Seq(Range(input.parcels))
    /\ \A i \in DOMAIN input.parcels : input.parcels[i].text \in DOMAIN Words

Ranks(word) == ~word.residential /\ NeedsModel(word, FirstOf(Fast(word), RecallN), input.llm)

(* What a row of parcel i owes to the rules, to the answers and rankings     *)
(* that are shared and to the settings; or it is an error.                   *)
CheckedFits(i, r, asked) ==
    LET ruled == ByRules(Wrd(i), Zone(i))
    IN  /\ r.top = <<>>
        /\ IF ruled # "ask" THEN r.verdict = ruled
           ELSE IF input.llm THEN AskKey(i) \in DOMAIN asked /\ r.verdict = asked[AskKey(i)]
           ELSE r.verdict = WithoutModel

RankedFits(i, r, ranked) ==
    /\ r.verdict = Unchecked(Wrd(i))
    /\ IF Ranks(Wrd(i))
       THEN Wrd(i).lower \in DOMAIN ranked /\ r.top = OfClassified(Wrd(i), ranked[Wrd(i).lower])
       ELSE r.top = OfClassified(Wrd(i), FirstOf(Fast(Wrd(i)), TopN))

ParcelFits(i, r, asked, ranked) ==
    \/ r.method = "error" /\ r.verdict = "unclear"
    \/ IF input.check THEN CheckedFits(i, r, asked) ELSE RankedFits(i, r, ranked)

RowsFit ==
    \A i \in DOMAIN rows : i \in DOMAIN input.parcels /\ ParcelFits(i, rows[i], answers, ranks)

(* A refusal that is shared was heard, and nothing is shared but what a model*)
(* was asked.                                                                *)
AnswersFit ==
    /\ DOMAIN answers # {} => input.llm
    /\ \A key \in DOMAIN answers : answers[key] = "not_allowed" => <<key, "not_allowed">> \in heard

(* What a worker is at.                                                      *)
JobFits(job) ==
    \/ job = Idle
    \/ \E i \in DOMAIN input.parcels :
          \/ job = <<"decide", i>>
          \/ /\ job = <<"ask", i>> /\ input.check /\ input.llm
             /\ ByRules(Wrd(i), Zone(i)) = "ask"
          \/ job = <<"rank", i>> /\ ~input.check /\ Ranks(Wrd(i))

JobsFit == DOMAIN busy = Workers /\ \A w \in Workers : JobFits(busy[w])

(* Every question waits, is in somebody's hands or is decided.               *)
Asked(i) == i \in queue \/ i \in DOMAIN rows \/ \E w \in Workers : busy[w] # Idle /\ busy[w][2] = i

QuestionsFit ==
    /\ sites = Joined /\ queue \subseteq Questions(Joined)
    /\ \A i \in Questions(Joined) : Asked(i)

AllIdle == queue = {} /\ \A w \in Workers : busy[w] = Idle

NotBegun ==
    /\ AllIdle /\ DOMAIN busy = Workers /\ rows = <<>> /\ answers = <<>> /\ features = <<>>

CheckInv ==
    /\ stage \in {"none", "waiting", "classify", "rerank", "written", "failed"}
    /\ stage \in {"none", "waiting"} => NotBegun
    /\ stage # "none" => InputFits
    /\ stage \in {"classify", "rerank"} => QuestionsFit
    /\ stage = "rerank" => AllIdle
    /\ JobsFit /\ AnswersFit /\ RowsFit /\ RefusalMatchesReference
-----------------------------------------------------------------------------
(* What the rows promise.                                                  *)

LEMMA SameQuestions == InputFits /\ RowsFit => SameQuestionSameAnswer
<1> SUFFICES ASSUME InputFits, RowsFit,
                    NEW i \in DOMAIN rows, NEW j \in DOMAIN rows,
                    rows[i].method # "error", rows[j].method # "error",
                    IF input.check THEN AskKey(i) = AskKey(j) ELSE Wrd(i).lower = Wrd(j).lower
             PROVE  rows[i].verdict = rows[j].verdict /\ rows[i].top = rows[j].top
  BY DEF SameQuestionSameAnswer
<1>1. /\ i \in DOMAIN input.parcels /\ ParcelFits(i, rows[i], answers, ranks)
      /\ j \in DOMAIN input.parcels /\ ParcelFits(j, rows[j], answers, ranks)
  BY DEF RowsFit
<1>2. input.parcels[i].text \in DOMAIN Words /\ input.parcels[j].text \in DOMAIN Words
  BY <1>1 DEF InputFits
<1>3. CASE input.check
  <2>1. Wrd(i).canon = Wrd(j).canon /\ Zone(i) = Zone(j)
    BY <1>3 DEF AskKey
  <2>2. \A f \in ZoneFields : Wrd(i)[f] = Wrd(j)[f]
    BY <1>2, <2>1, WordsAssumption DEF Wrd
  <2>3. ByRules(Wrd(i), Zone(i)) = ByRules(Wrd(j), Zone(j))
    BY <2>1, <2>2, RulesReadFields
  <2>4. CheckedFits(i, rows[i], answers) /\ CheckedFits(j, rows[j], answers)
    BY <1>1, <1>3 DEF ParcelFits
  <2> QED
    BY <1>3, <2>3, <2>4 DEF CheckedFits
<1>4. CASE ~input.check
  <2>1. Wrd(i) = Wrd(j)
    BY <1>2, <1>4, WordsAssumption DEF Wrd
  <2>2. RankedFits(i, rows[i], ranks) /\ RankedFits(j, rows[j], ranks)
    BY <1>1, <1>4 DEF ParcelFits
  <2> QED
    BY <2>1, <2>2 DEF RankedFits
<1> QED
  BY <1>3, <1>4

LEMMA RefusedRows ==
  ASSUME RowsFit, NEW i \in DOMAIN rows, rows[i].verdict = "not_allowed"
  PROVE  /\ input.check /\ CheckedFits(i, rows[i], answers)
         /\ ByRules(Wrd(i), Zone(i)) = "ask"
         /\ Zone(i) # NoCode /\ Reference(Zone(i)) # 0
<1>1. ParcelFits(i, rows[i], answers, ranks)
  BY DEF RowsFit
<1>2. ~RankedFits(i, rows[i], ranks)
  BY DEF RankedFits, Unchecked
<1>3. input.check /\ CheckedFits(i, rows[i], answers)
  BY <1>1, <1>2 DEF ParcelFits
<1>4. ByRules(Wrd(i), Zone(i)) = "ask"
  BY <1>3, RulesNeverRefuse DEF CheckedFits
<1> QED
  BY <1>3, <1>4, RulesNeverRefuse

LEMMA RefusedHaveEvidence == RowsFit /\ AnswersFit => RefusedOnEvidence
<1> SUFFICES ASSUME RowsFit, AnswersFit, NEW i \in Refused
             PROVE  IF input.llm THEN <<AskKey(i), "not_allowed">> \in heard ELSE input.embeds
  BY DEF RefusedOnEvidence
<1>1. CheckedFits(i, rows[i], answers) /\ ByRules(Wrd(i), Zone(i)) = "ask"
      /\ rows[i].verdict = "not_allowed"
  BY RefusedRows DEF Refused
<1> QED
  BY <1>1 DEF CheckedFits, AnswersFit, WithoutModel

(* The template a zone is checked against is the one its codes are permitted *)
(* by, whenever it has a code of its own.                                    *)
LEMMA BehindReference ==
  ASSUME NEW z, z # NoCode, Reference(z) # 0, input.templates[Reference(z)].code # NoCode
  PROVE  z \in DOMAIN ZoneAllowed /\ ZoneAllowed[z] = Written(Reference(z))
<1> DEFINE T == input.templates
<1>1. CASE WithCode(z) # {}
  <2>1. PICK i \in DOMAIN T : T[i].code = z
    BY <1>1 DEF WithCode
  <2>2. i \in DOMAIN T \ WithCode(NoCode)
    BY <2>1 DEF WithCode
  <2>3. z \in DOMAIN ZoneAllowed
    BY <2>1, <2>2 DEF ZoneAllowed
  <2>4. BehindKey(z) = Reference(z)
    BY <1>1 DEF BehindKey, Reference
  <2> QED
    BY <2>3, <2>4 DEF ZoneAllowed
<1>2. CASE WithCode(z) = {}
  <2> DEFINE i == Reference(z)
  <2>1. WithBase(z) = {i}
    BY <1>2 DEF Reference
  <2>2. i \in DOMAIN T /\ T[i].base = z /\ i \notin WithCode(NoCode)
    BY <2>1 DEF WithBase, WithCode
  <2>3. z \in DOMAIN ZoneAllowed
    BY <2>2 DEF ZoneAllowed
  <2>4. WithBase(z) \ WithCode(NoCode) = {i}
    BY <2>1, <2>2
  <2>5. Min({i}) = i
    BY DEF Min
  <2>6. BehindKey(z) = i
    BY <1>2, <2>4, <2>5 DEF BehindKey
  <2> QED
    BY <2>3, <2>6 DEF ZoneAllowed
<1> QED
  BY <1>1, <1>2

LEMMA NoneAllowed ==
  ASSUME NEW z, NEW codes, z # NoCode, z \in DOMAIN ZoneAllowed, AllowedCandidates(z, codes) = {}
  PROVE  Range(codes) \cap ZoneAllowed[z] = {}
<1>1. ZoneAllowed[z] # {} => Range(codes) \cap ZoneAllowed[z] = {}
  BY Zenon DEF AllowedCandidates
<1> QED
  BY <1>1
-----------------------------------------------------------------------------
(* Steps.                                                                  *)

Extends(longer, table) == \A k \in DOMAIN table : k \in DOMAIN longer /\ longer[k] = table[k]

LEMMA ExtendedFits ==
  ASSUME NEW table, NEW key, NEW entry
  PROVE  /\ DOMAIN Extended(table, key, entry) = DOMAIN table \cup {key}
         /\ Extends(Extended(table, key, entry), table)
         /\ key \notin DOMAIN table => Extended(table, key, entry)[key] = entry
BY DEF Extended, Extends

LEMMA SameParcels ==
  ASSUME input' = input, sites' = sites
  PROVE  /\ \A i : AskKey(i)' = AskKey(i)
         /\ \A i, r, a, k : ParcelFits(i, r, a, k)' = ParcelFits(i, r, a, k)
         /\ \A job : JobFits(job)' = JobFits(job)
<1>1. \A i : Wrd(i)' = Wrd(i) /\ Zone(i)' = Zone(i)
  BY DEF Wrd, Zone
<1>2. \A i : AskKey(i)' = AskKey(i)
  BY <1>1 DEF AskKey
<1>3. \A i : ByRules(Wrd(i), Zone(i))' = ByRules(Wrd(i), Zone(i))
  BY <1>1, RulesOfInput
<1>4. WithoutModel' = WithoutModel
  BY DEF WithoutModel
<1>5. \A word : Ranks(word)' = Ranks(word)
  BY DEF Ranks
<1>6. \A i, r, a : CheckedFits(i, r, a)' = CheckedFits(i, r, a)
  BY <1>2, <1>3, <1>4 DEF CheckedFits
<1>7. \A i, r, k : RankedFits(i, r, k)' = RankedFits(i, r, k)
  BY <1>1, <1>5 DEF RankedFits
<1>8. \A i, r, a, k : ParcelFits(i, r, a, k)' = ParcelFits(i, r, a, k)
  BY <1>6, <1>7 DEF ParcelFits
<1>9. \A job : JobFits(job)' = JobFits(job)
  BY <1>1, <1>3, <1>5 DEF JobFits
<1> QED
  BY <1>2, <1>8, <1>9

LEMMA SameQuestionsAsked == input' = input => Questions(Joined)' = Questions(Joined)
<1> SUFFICES ASSUME input' = input PROVE Questions(Joined)' = Questions(Joined)
  OBVIOUS
<1>1. Joined' = Joined
  BY DEF Joined
<1>2. \A i, site : KeyAt(i, site)' = KeyAt(i, site)
  BY DEF KeyAt, Wrd
<1> QED
  BY <1>1, <1>2 DEF Questions

LEMMA SameRefusals ==
  ASSUME input' = input, features' = features, RefusalMatchesReference
  PROVE  RefusalMatchesReference'
<1>1. \A i : Written(i)' = Written(i)
  BY DEF Written
<1> QED
  BY <1>1, RulesOfInput DEF RefusalMatchesReference

LEMMA MoreKnown ==
  ASSUME NEW i, NEW r, NEW a, NEW a2, NEW k, NEW k2,
         ParcelFits(i, r, a, k), Extends(a2, a), Extends(k2, k)
  PROVE  ParcelFits(i, r, a2, k2)
<1>1. CheckedFits(i, r, a) => CheckedFits(i, r, a2)
  BY DEF CheckedFits, Extends
<1>2. RankedFits(i, r, k) => RankedFits(i, r, k2)
  BY DEF RankedFits, Extends
<1> QED
  BY <1>1, <1>2 DEF ParcelFits

(* A worker decides its question.                                           *)
LEMMA DecidedKeeps ==
  ASSUME CheckInv, stage = "classify",
         UNCHANGED <<input, stage, sites, queue, features>>,
         NEW w \in Workers, NEW i \in DOMAIN input.parcels, busy[w] # Idle, busy[w][2] = i,
         NEW r, Decide(w, r), Extends(answers', answers), Extends(ranks', ranks), AnswersFit',
         ParcelFits(i, r, answers', ranks')
  PROVE  CheckInv'
<1>1. DOMAIN rows' = DOMAIN rows \cup {i} /\ Extends(rows', rows)
      /\ (i \notin DOMAIN rows => rows'[i] = r)
  BY ExtendedFits DEF Decide
<1>2. RowsFit'
  <2> SUFFICES ASSUME NEW j \in DOMAIN rows'
               PROVE  j \in DOMAIN input.parcels /\ ParcelFits(j, rows'[j], answers', ranks')
    BY SameParcels DEF RowsFit
  <2>1. CASE j \in DOMAIN rows
    <3>1. rows'[j] = rows[j] /\ j \in DOMAIN input.parcels
          /\ ParcelFits(j, rows[j], answers, ranks)
      BY <1>1, <2>1 DEF Extends, CheckInv, RowsFit
    <3> QED
      BY <3>1, MoreKnown
  <2>2. CASE j \notin DOMAIN rows
    BY <1>1, <2>2
  <2> QED
    BY <2>1, <2>2
<1>3. JobsFit'
  <2>1. DOMAIN busy' = Workers /\ busy'[w] = Idle
        /\ \A v \in Workers \ {w} : busy'[v] = busy[v]
    BY DEF Decide, CheckInv, JobsFit
  <2>2. \A v \in Workers : JobFits(busy'[v])
    BY <2>1 DEF JobFits, CheckInv, JobsFit
  <2> QED
    BY <2>1, <2>2, SameParcels DEF JobsFit
<1>4. QuestionsFit'
  <2>1. /\ sites = Joined /\ queue \subseteq Questions(Joined)
        /\ \A j \in Questions(Joined) : Asked(j)
    BY DEF CheckInv, QuestionsFit
  <2>2. Joined' = Joined
    BY DEF Joined
  <2>3. \A v \in Workers \ {w} : busy'[v] = busy[v]
    BY DEF Decide, CheckInv, JobsFit
  <2>4. \A j : Asked(j) => Asked(j)'
    BY <1>1, <2>3 DEF Asked, Extends
  <2> QED
    BY <2>1, <2>2, <2>4, SameQuestionsAsked DEF QuestionsFit
<1>5. RefusalMatchesReference'
  BY SameRefusals DEF CheckInv
<1>6. InputFits'
  BY DEF CheckInv, InputFits
<1> QED
  BY <1>2, <1>3, <1>4, <1>5, <1>6 DEF CheckInv

(* A worker goes on with its question.                                       *)
LEMMA GoesOnKeeps ==
  ASSUME CheckInv, stage = "classify",
         UNCHANGED <<input, stage, sites, queue, features, rows, answers, ranks, heard>>,
         NEW w \in Workers, NEW i \in DOMAIN input.parcels, busy[w] # Idle, busy[w][2] = i,
         NEW job, job # Idle, job[2] = i, JobFits(job), busy' = [busy EXCEPT ![w] = job]
  PROVE  CheckInv'
<1>1. DOMAIN busy' = Workers /\ busy'[w] = job
      /\ \A v \in Workers \ {w} : busy'[v] = busy[v]
  BY DEF CheckInv, JobsFit
<1>2. JobsFit'
  <2>1. \A v \in Workers : JobFits(busy'[v])
    BY <1>1 DEF CheckInv, JobsFit
  <2> QED
    BY <1>1, <2>1, SameParcels DEF JobsFit
<1>3. RowsFit'
  BY SameParcels DEF CheckInv, RowsFit
<1>4. QuestionsFit'
  <2>1. Joined' = Joined
    BY DEF Joined
  <2>2. \A j : Asked(j) => Asked(j)'
    BY <1>1 DEF Asked
  <2> QED
    BY <2>1, <2>2, SameQuestionsAsked DEF CheckInv, QuestionsFit
<1>5. RefusalMatchesReference' /\ AnswersFit' /\ InputFits'
  BY SameRefusals DEF CheckInv, AnswersFit, InputFits
<1> QED
  BY <1>2, <1>3, <1>4, <1>5 DEF CheckInv

(* The question of a worker that has one.                                    *)
LEMMA JobOf ==
  ASSUME CheckInv, NEW w \in Workers, busy[w][1] \in {"decide", "ask", "rank"}
  PROVE  LET i == busy[w][2] IN
         /\ busy[w] # Idle /\ i \in DOMAIN input.parcels
         /\ busy[w][1] = "ask" => input.check /\ input.llm /\ ByRules(Wrd(i), Zone(i)) = "ask"
         /\ busy[w][1] = "rank" => ~input.check /\ Ranks(Wrd(i))
<1>1. busy[w] # Idle
  BY DEF Idle
<1>2. JobFits(busy[w])
  BY DEF CheckInv, JobsFit
<1> QED
  BY <1>1, <1>2 DEF JobFits

LEMMA LookKeepsRows ==
  ASSUME CheckInv, input' = input, NEW w \in Workers, Look(w)
  PROVE  CheckInv'
<1> DEFINE i == busy[w][2]
           ruled == ByRules(Wrd(i), Zone(i))
<1>1. /\ stage = "classify" /\ busy[w][1] = "decide" /\ input.check
      /\ UNCHANGED <<stage, sites, queue, features, answers, ranks, heard>>
  BY DEF Look, Decides
<1>2. busy[w] # Idle /\ i \in DOMAIN input.parcels
  BY <1>1, JobOf
<1>3. Extends(answers', answers) /\ Extends(ranks', ranks) /\ AnswersFit'
  BY <1>1 DEF Extends, CheckInv, AnswersFit
<1>4. ASSUME NEW r, Decide(w, r), ParcelFits(i, r, answers, ranks)
      PROVE  CheckInv'
  BY <1>1, <1>2, <1>3, <1>4, DecidedKeeps
<1>5. CASE ruled # "ask" /\ Decide(w, Row(ruled, "rule", <<>>))
  BY <1>1, <1>4, <1>5 DEF ParcelFits, CheckedFits, Row
<1>6. CASE ruled = "ask" /\ AskKey(i) \in DOMAIN answers /\ Decide(w, Row(answers[AskKey(i)], "llm", <<>>))
  <2>1. input.llm
    BY <1>6 DEF CheckInv, AnswersFit
  <2> QED
    BY <1>1, <1>4, <1>6, <2>1 DEF ParcelFits, CheckedFits, Row
<1>7. CASE ruled = "ask" /\ ~input.llm /\ Decide(w, Row(WithoutModel, "rule", <<>>))
  BY <1>1, <1>4, <1>7 DEF ParcelFits, CheckedFits, Row
<1>8. CASE Decide(w, Row("unclear", "error", <<>>))
  BY <1>4, <1>8 DEF ParcelFits, Row
<1>9. CASE ruled = "ask" /\ input.llm /\ busy' = [busy EXCEPT ![w] = <<"ask", i>>] /\ rows' = rows
  <2>1. JobFits(<<"ask", i>>)
    BY <1>1, <1>2, <1>9 DEF JobFits
  <2>2. <<"ask", i>> # Idle /\ <<"ask", i>>[2] = i
    BY DEF Idle
  <2> QED
    BY <1>1, <1>2, <1>9, <2>1, <2>2, GoesOnKeeps
<1> QED
  BY <1>5, <1>6, <1>7, <1>8, <1>9 DEF Look

(* Whatever a worker hears, and so if it hears nothing, the first answer to   *)
(* its question is what it decides by.                                        *)
LEMMA AnsweredKeeps ==
  ASSUME CheckInv, UNCHANGED <<input, stage, sites, queue, features, ranks>>,
         stage = "classify", NEW w \in Workers, busy[w][1] = "ask", NEW verdict,
         Answered(w, verdict), heard \subseteq heard',
         verdict = "not_allowed" => <<AskKey(busy[w][2]), verdict>> \in heard'
  PROVE  CheckInv'
<1> DEFINE i == busy[w][2]
           key == AskKey(i)
<1>1. /\ busy[w] # Idle /\ i \in DOMAIN input.parcels /\ input.check /\ input.llm
      /\ ByRules(Wrd(i), Zone(i)) = "ask"
  BY JobOf
<1>2. answers' = Extended(answers, key, verdict) /\ Decide(w, Row(answers'[key], "llm", <<>>))
  BY DEF Answered, SetDefault
<1>3. Extends(answers', answers) /\ Extends(ranks', ranks)
      /\ DOMAIN answers' = DOMAIN answers \cup {key}
      /\ (key \notin DOMAIN answers => answers'[key] = verdict)
  <2>1. Extends(ranks', ranks)
    BY DEF Extends
  <2>2. /\ DOMAIN Extended(answers, key, verdict) = DOMAIN answers \cup {key}
        /\ Extends(Extended(answers, key, verdict), answers)
        /\ key \notin DOMAIN answers => Extended(answers, key, verdict)[key] = verdict
    BY ExtendedFits, Zenon
  <2> QED
    BY <1>2, <2>1, <2>2
<1>4. AnswersFit'
  <2> SUFFICES ASSUME NEW k \in DOMAIN answers', answers'[k] = "not_allowed"
               PROVE  <<k, "not_allowed">> \in heard'
    BY <1>1 DEF AnswersFit
  <2>1. CASE k \in DOMAIN answers
    BY <1>3, <2>1 DEF Extends, CheckInv, AnswersFit
  <2>2. CASE k \notin DOMAIN answers
    BY <1>3, <2>2
  <2> QED
    BY <2>1, <2>2
<1>5. ParcelFits(i, Row(answers'[key], "llm", <<>>), answers', ranks')
  BY <1>1, <1>3 DEF ParcelFits, CheckedFits, Row
<1> QED
  BY <1>1, <1>2, <1>3, <1>4, <1>5, DecidedKeeps

LEMMA RankedKeeps ==
  ASSUME CheckInv, UNCHANGED <<input, stage, sites, queue, features, answers, heard>>,
         stage = "classify", NEW w \in Workers, NEW i \in DOMAIN input.parcels,
         busy[w] # Idle, busy[w][2] = i, ~input.check, Extends(ranks', ranks), NEW ranking,
         Classified(w, ranking),
         IF Ranks(Wrd(i)) THEN Wrd(i).lower \in DOMAIN ranks' /\ ranking = ranks'[Wrd(i).lower]
         ELSE ranking = FirstOf(Fast(Wrd(i)), TopN)
  PROVE  CheckInv'
<1> DEFINE r == Row(Unchecked(Wrd(i)), "ranked", OfClassified(Wrd(i), ranking))
<1>1. Decide(w, r)
  BY DEF Classified
<1>2. ParcelFits(i, r, answers', ranks')
  BY DEF ParcelFits, RankedFits, Row
<1>3. Extends(answers', answers) /\ AnswersFit'
  BY DEF Extends, CheckInv, AnswersFit
<1> QED
  BY <1>1, <1>2, <1>3, DecidedKeeps

LEMMA LookUpKeepsRows ==
  ASSUME CheckInv, input' = input, NEW w \in Workers, LookUp(w)
  PROVE  CheckInv'
<1> DEFINE i == busy[w][2]
           word == Wrd(i)
<1>1. /\ stage = "classify" /\ busy[w][1] = "decide" /\ ~input.check
      /\ UNCHANGED <<stage, sites, queue, features, answers, ranks, heard>>
  BY DEF LookUp, Decides
<1>2. busy[w] # Idle /\ i \in DOMAIN input.parcels
  BY <1>1, JobOf
<1>3. Extends(ranks', ranks)
  BY <1>1 DEF Extends
<1>4. CASE ~Ranks(word) /\ Classified(w, FirstOf(Fast(word), TopN))
  BY <1>1, <1>2, <1>3, <1>4, RankedKeeps
<1>5. CASE Ranks(word) /\ word.lower \in DOMAIN ranks /\ Classified(w, ranks[word.lower])
  BY <1>1, <1>2, <1>3, <1>5, RankedKeeps
<1>6. CASE Ranks(word) /\ busy' = [busy EXCEPT ![w] = <<"rank", i>>] /\ rows' = rows
  <2>1. JobFits(<<"rank", i>>)
    BY <1>1, <1>2, <1>6 DEF JobFits
  <2>2. <<"rank", i>> # Idle /\ <<"rank", i>>[2] = i
    BY DEF Idle
  <2> QED
    BY <1>1, <1>2, <1>6, <2>1, <2>2, GoesOnKeeps
<1> QED
  BY <1>4, <1>5, <1>6 DEF LookUp, Ranks

LEMMA RankedByKeeps ==
  ASSUME CheckInv, input' = input, NEW w \in Workers, NEW attempt, NEW reply,
         RankedBy(w, attempt, reply)
  PROVE  CheckInv'
<1> DEFINE i == busy[w][2]
           word == Wrd(i)
           ranking == ModelRanking(FirstOf(Fast(word), RecallN), attempt, reply)
<1>1. /\ stage = "classify" /\ busy[w][1] = "rank"
      /\ UNCHANGED <<stage, sites, queue, features, answers, heard>>
      /\ ranks' = Extended(ranks, word.lower, ranking) /\ Classified(w, ranks'[word.lower])
  BY DEF RankedBy, SetDefault
<1>2. busy[w] # Idle /\ i \in DOMAIN input.parcels /\ ~input.check /\ Ranks(word)
  BY <1>1, JobOf
<1>3. Extends(ranks', ranks) /\ word.lower \in DOMAIN ranks'
  <2>1. /\ DOMAIN Extended(ranks, word.lower, ranking) = DOMAIN ranks \cup {word.lower}
        /\ Extends(Extended(ranks, word.lower, ranking), ranks)
    BY ExtendedFits, Zenon
  <2> QED
    BY <1>1, <2>1
<1> HIDE DEF ranking
<1> QED
  BY <1>1, <1>2, <1>3, RankedKeeps

LEMMA CrashKeeps ==
  ASSUME CheckInv, input' = input, NEW w \in Workers, Crash(w)
  PROVE  CheckInv'
<1> DEFINE r == Row("unclear", "error", <<>>)
<1>1. /\ stage = "classify" /\ busy[w][1] = "decide" /\ Decide(w, r)
      /\ UNCHANGED <<stage, sites, queue, features, answers, ranks, heard>>
  BY DEF Crash, Decides
<1>2. busy[w] # Idle /\ busy[w][2] \in DOMAIN input.parcels
  BY <1>1, JobOf
<1>3. Extends(answers', answers) /\ Extends(ranks', ranks) /\ AnswersFit'
  BY <1>1 DEF Extends, CheckInv, AnswersFit
<1>4. ParcelFits(busy[w][2], r, answers', ranks')
  BY DEF ParcelFits, Row
<1> QED
  BY <1>1, <1>2, <1>3, <1>4, DecidedKeeps

LEMMA QuestionsAreParcels == Questions(Joined) \subseteq DOMAIN input.parcels
BY DEF Questions, Joined

LEMMA TakeKeeps ==
  ASSUME CheckInv, input' = input, NEW w \in Workers, Take(w)
  PROVE  CheckInv'
<1> DEFINE i == Min(queue)
           job == <<"decide", i>>
<1>1. /\ stage = "classify" /\ busy[w] = Idle /\ queue # {}
      /\ busy' = [busy EXCEPT ![w] = job] /\ queue' = queue \ {i}
      /\ UNCHANGED <<stage, sites, features, rows, answers, ranks, heard>>
  BY DEF Take
<1>2. QuestionsFit /\ InputFits
  BY <1>1 DEF CheckInv
<1>3. i \in queue /\ i \in DOMAIN input.parcels
  <2>1. DOMAIN input.parcels \subseteq Nat
    BY <1>2 DEF InputFits
  <2>2. queue \subseteq DOMAIN input.parcels
    BY <1>2, QuestionsAreParcels DEF QuestionsFit
  <2> QED
    BY <1>1, <2>1, <2>2, MinIsLeast
<1> HIDE DEF i
<1>4. JobFits(job) /\ job # Idle /\ job[2] = i
  BY <1>3 DEF JobFits, Idle
<1>5. DOMAIN busy' = Workers /\ busy'[w] = job
      /\ \A v \in Workers \ {w} : busy'[v] = busy[v]
  BY <1>1 DEF CheckInv, JobsFit
<1>6. JobsFit'
  <2>1. \A v \in Workers : JobFits(busy'[v])
    BY <1>4, <1>5 DEF CheckInv, JobsFit
  <2> QED
    BY <1>1, <1>5, <2>1, SameParcels DEF JobsFit
<1>7. RowsFit'
  BY <1>1, SameParcels DEF CheckInv, RowsFit
<1>8. QuestionsFit'
  <2>1. Joined' = Joined
    BY DEF Joined
  <2>2. \A j : Asked(j) => Asked(j)'
    BY <1>1, <1>4, <1>5 DEF Asked
  <2> QED
    BY <1>1, <1>2, <2>1, <2>2, SameQuestionsAsked DEF QuestionsFit
<1>9. RefusalMatchesReference' /\ AnswersFit' /\ InputFits'
  BY <1>1, SameRefusals DEF CheckInv, AnswersFit, InputFits
<1> QED
  BY <1>1, <1>6, <1>7, <1>8, <1>9 DEF CheckInv

LEMMA LoadKeeps ==
  ASSUME CheckInv, input' = input, Load
  PROVE  CheckInv'
<1>1. /\ stage = "waiting" /\ stage' = "classify" /\ sites' = Joined /\ queue' = Questions(Joined)
      /\ UNCHANGED <<busy, features, rows, answers, ranks, heard>>
  BY DEF Load
<1>2. NotBegun /\ InputFits
  BY <1>1 DEF CheckInv
<1>3. JobsFit' /\ RowsFit' /\ AnswersFit' /\ RefusalMatchesReference' /\ InputFits'
  <2>1. rows' = <<>> /\ answers' = <<>> /\ features' = <<>>
        /\ DOMAIN busy' = Workers /\ \A w \in Workers : busy'[w] = Idle
    BY <1>1, <1>2 DEF NotBegun, AllIdle
  <2> QED
    BY <1>2, <2>1 DEF JobsFit, JobFits, RowsFit, AnswersFit, RefusalMatchesReference, InputFits
<1>4. QuestionsFit'
  <2>1. Joined' = Joined
    BY DEF Joined
  <2> QED
    BY <1>1, <2>1, SameQuestionsAsked DEF QuestionsFit, Asked
<1> QED
  BY <1>1, <1>3, <1>4 DEF CheckInv

(* Steps that decide nothing and write no result.                            *)
LEMMA IdleStepKeeps ==
  ASSUME CheckInv, UNCHANGED <<input, sites, queue, busy, rows, answers, ranks, heard, features>>,
         \/ stage' = stage
         \/ stage # "none" /\ stage' = "failed"
         \/ stage = "classify" /\ stage' = "rerank" /\ AllIdle
  PROVE  CheckInv'
<1>1. Joined' = Joined
  BY DEF Joined
<1>2. JobsFit' /\ RowsFit'
  BY SameParcels DEF CheckInv, JobsFit, RowsFit
<1>3. RefusalMatchesReference' /\ AnswersFit' /\ InputFits' = InputFits
  BY SameRefusals DEF CheckInv, AnswersFit, InputFits
<1>4. QuestionsFit => QuestionsFit'
  BY <1>1, SameQuestionsAsked DEF QuestionsFit, Asked
<1>5. AllIdle' = AllIdle /\ NotBegun' = NotBegun
  BY DEF AllIdle, NotBegun
<1> QED
  BY <1>2, <1>3, <1>4, <1>5 DEF CheckInv

(* The row a parcel is shown is that of a question of its own.               *)
LEMMA ShownRow ==
  ASSUME InputFits, QuestionsFit, AllIdle, NEW i \in DOMAIN input.parcels
  PROVE  LET k == FirstWith(Key(i)) IN
         k \in DOMAIN rows /\ k \in DOMAIN input.parcels /\ Key(k) = Key(i)
<1> DEFINE same == {j \in DOMAIN input.parcels : Key(j) = Key(i)}
           k == FirstWith(Key(i))
<1>1. Len(input.parcels) \in Nat /\ DOMAIN input.parcels = 1..Len(input.parcels)
  BY DEF InputFits
<1>2. same \subseteq Nat /\ i \in same
  BY <1>1
<1>3. k \in same /\ \A j \in same : k <= j
  <2>1. Min(same) \in same /\ \A j \in same : Min(same) <= j
    BY <1>2, MinIsLeast
  <2> QED
    BY <2>1 DEF FirstWith
<1> HIDE DEF k
<1>4. sites = Joined /\ DOMAIN Joined = DOMAIN input.parcels
  BY DEF QuestionsFit, Joined
<1>5. k \in Questions(Joined)
  <2> SUFFICES ASSUME NEW j \in 1..(k - 1), KeyAt(j, sites[j]) = KeyAt(k, sites[k])
               PROVE  FALSE
    BY <1>3, <1>4 DEF Questions
  <2>1. j \in DOMAIN input.parcels
    BY <1>1, <1>3
  <2>2. Key(j) = Key(i)
    BY <1>3 DEF Key
  <2> QED
    BY <1>1, <1>3, <2>1, <2>2
<1>6. k \in DOMAIN rows
  BY <1>5 DEF QuestionsFit, Asked, AllIdle
<1> QED
  BY <1>3, <1>6 DEF k

LEMMA WriteKeeps ==
  ASSUME CheckInv, input' = input, NEW failed, WriteResult(failed)
  PROVE  CheckInv'
<1>1. /\ stage = "rerank" /\ stage' = "written"
      /\ features' = [i \in DOMAIN input.parcels |-> ResultRow(i)]
      /\ UNCHANGED <<sites, queue, busy, rows, answers, ranks, heard>>
  BY DEF WriteResult
<1>2. InputFits /\ QuestionsFit /\ AllIdle /\ RowsFit
  BY <1>1 DEF CheckInv
<1>3. JobsFit' /\ RowsFit'
  BY <1>1, SameParcels DEF CheckInv, JobsFit, RowsFit
<1>4. AnswersFit' /\ InputFits'
  BY <1>1 DEF CheckInv, AnswersFit, InputFits
<1>5. RefusalMatchesReference'
  <2>1. \A i : Written(i)' = Written(i)
    BY DEF Written
  <2> SUFFICES ASSUME NEW i \in DOMAIN input.parcels,
                      Label(i) = "not_allowed",
                      input.templates[Reference(Zone(i))].code # NoCode
               PROVE  Range(TopOf(i)) \cap Written(Reference(Zone(i))) = {}
    <3>1. \A i \in DOMAIN features' :
            /\ i \in DOMAIN input.parcels /\ features'[i].verdict = Label(i)
            /\ features'[i].zone = Zone(i) /\ features'[i].top = TopOf(i)
      BY <1>1 DEF ResultRow
    <3> QED
      BY <2>1, <3>1, RulesOfInput DEF RefusalMatchesReference
  <2> DEFINE k == FirstWith(Key(i))
             z == Zone(i)
  <2>2. k \in DOMAIN rows /\ Key(k) = Key(i)
    BY <1>2, ShownRow
  <2>3. rows[k].verdict = "not_allowed" /\ AllowedCandidates(z, TopOf(i)) = {}
    BY DEF Label
  <2>4. input.check /\ Zone(k) # NoCode /\ Reference(Zone(k)) # 0
    BY <1>2, <2>2, <2>3, RefusedRows
  <2>5. Zone(k) = z
    BY <2>2, <2>4 DEF Key, KeyAt, Zone
  <2>6. z \in DOMAIN ZoneAllowed /\ ZoneAllowed[z] = Written(Reference(z))
    BY <2>4, <2>5, BehindReference
  <2> QED
    BY <2>3, <2>4, <2>5, <2>6, NoneAllowed
<1> QED
  BY <1>1, <1>3, <1>4, <1>5 DEF CheckInv

(* Every step keeps the invariant.                                           *)
LEMMA CheckStepKeeps == CheckInv /\ CheckStep /\ input' = input => CheckInv'
<1> SUFFICES ASSUME CheckInv, CheckStep, input' = input PROVE CheckInv'
  OBVIOUS
<1>1. CASE Load
  BY <1>1, LoadKeeps
<1>2. CASE Break
  <2>1. /\ UNCHANGED <<sites, queue, busy, rows, answers, ranks, heard, features>>
        /\ stage # "none" /\ stage' = "failed"
    BY <1>2 DEF Break
  <2> QED
    BY <2>1, IdleStepKeeps
<1>3. CASE AllDecided
  BY <1>3, IdleStepKeeps DEF AllDecided, AllIdle
<1>4. ASSUME NEW w \in Workers, Take(w) \/ Look(w) \/ LookUp(w) \/ Crash(w)
      PROVE  CheckInv'
  BY <1>4, TakeKeeps, LookKeepsRows, LookUpKeepsRows, CrashKeeps
<1>5. ASSUME NEW w \in Workers, AskFails(w)
      PROVE  CheckInv'
  <2>1. /\ UNCHANGED <<stage, sites, queue, features, ranks, heard>>
        /\ stage = "classify" /\ busy[w][1] = "ask" /\ Answered(w, "unclear")
    BY <1>5 DEF AskFails, Unanswered
  <2> QED
    BY <2>1, AnsweredKeeps
<1>6. ASSUME NEW w \in Workers, NEW reply \in Replies, Answer(w, reply)
      PROVE  CheckInv'
  <2> DEFINE verdict == Normal(reply)
  <2>1. /\ UNCHANGED <<stage, sites, queue, features, ranks>>
        /\ stage = "classify" /\ busy[w][1] = "ask" /\ Answered(w, verdict)
        /\ heard' = heard \cup {<<AskKey(busy[w][2]), verdict>>}
    BY <1>6 DEF Answer
  <2> HIDE DEF verdict
  <2> QED
    BY <2>1, AnsweredKeeps
<1>7. ASSUME NEW w \in Workers, NEW attempt, NEW reply, RankedBy(w, attempt, reply)
      PROVE  CheckInv'
  BY <1>7, RankedByKeeps
<1>8. ASSUME NEW canon, NEW attempt, NEW reply, RerankFails(canon) \/ Rerank(canon, attempt, reply)
      PROVE  CheckInv'
  <2>1. UNCHANGED <<stage, sites, queue, busy, rows, answers, ranks, heard, features>>
    BY <1>8 DEF Rerank, RerankFails
  <2> QED
    BY <2>1, IdleStepKeeps
<1>9. ASSUME NEW failed, WriteResult(failed)
      PROVE  CheckInv'
  BY <1>9, WriteKeeps
<1> QED
  BY <1>1, <1>2, <1>3, <1>4, <1>5, <1>6, <1>7, <1>8, <1>9 DEF CheckStep
-----------------------------------------------------------------------------
(* Requests for a scenario.                                                *)

HasFields(r) ==
    DOMAIN r = {"at", "ask", "upd", "code", "zones", "objects", "others", "services", "answer"}

Kinds == {"classify", "place"}

HasZones == {"objects", "services", "fallback", "create", "insert"}

HasObjects == {"services", "fallback", "create", "insert"}

Begun == {"info", "sources", "resolve", "zones", "objects"}

HasCode == {"zones", "objects", "services", "fallback", "create", "insert"}

(* A request under version v, when there are rows under keys: what it has    *)
(* read is no older than the version it met, its zones are those of a content, *)
(* a placement has a code once it was resolved and nothing else has one, and   *)
(* a task it was served is under its key.                                    *)
ClientFits(r, v, keys) ==
    /\ HasFields(r)
    /\ r.ask.kind \in Kinds
    /\ r.upd \in Int /\ r.upd <= v
    /\ r.at \in HasZones => r.zones >= r.upd /\ r.zones \in DOMAIN Contents
    /\ r.at \in HasObjects => r.objects >= r.upd /\ r.objects \in DOMAIN Contents
    /\ r.at \in Begun => r.services = NotFetched
    /\ r.services # NotFetched => r.services >= r.upd /\ r.services \in DOMAIN Contents
    /\ r.at = "resolve" => r.ask.kind = "place"
    /\ r.ask.kind # "place" => r.code = NoCodeFound
    /\ r.ask.kind = "place" /\ r.at \in HasCode => r.code # NoCodeFound
    /\ r.at = "done" /\ r.answer[1] = "task" => r.answer[2] = KeyOf(r) /\ KeyOf(r) \in keys

UpdIn(key) == IF key[1] = "place" THEN key[5] ELSE key[4]

(* A row says itself what its key is made of. *)
RowFits(key, entry) ==
    /\ entry.ask.kind \in Kinds
    /\ entry.ask.kind # "place" <=> entry.code = NoCodeFound
    /\ entry.zones \in DOMAIN Contents /\ entry.objects \in DOMAIN Contents
    /\ key = KeyOf([ask |-> entry.ask, code |-> entry.code, upd |-> UpdIn(key)])
    /\ entry.zones >= UpdIn(key) /\ entry.objects >= UpdIn(key)
    /\ entry.services # NotFetched =>
          entry.services >= UpdIn(key) /\ entry.services \in DOMAIN Contents

ScenarioInv ==
    /\ version \in DOMAIN Contents /\ DOMAIN clients = Clients
    /\ IF branch = "scenario" THEN \A c \in Clients : ClientFits(clients[c], version, DOMAIN kept)
       ELSE \A c \in Clients : clients[c].at = "info"
    /\ \A key \in DOMAIN kept : RowFits(key, kept[key])

LEMMA KeyParts ==
  ASSUME NEW r
  PROVE  /\ r.ask.kind = "place" =>
               /\ KeyOf(r)[1] = "place" /\ KeyOf(r)[2] = r.ask.source
               /\ KeyOf(r)[3] = r.code /\ KeyOf(r)[4] = r.ask.query /\ KeyOf(r)[5] = r.upd
               /\ KeyOf(r)[6] = r.ask.files /\ KeyOf(r)[7] = r.ask.cadastre
         /\ r.ask.kind # "place" =>
               /\ KeyOf(r)[1] = "classify" /\ KeyOf(r)[2] = r.ask.source
               /\ KeyOf(r)[3] = r.ask.house /\ KeyOf(r)[4] = r.upd
               /\ KeyOf(r)[5] = r.ask.files /\ KeyOf(r)[6] = r.ask.cadastre
BY DEF KeyOf

LEMMA UpdInKey == ASSUME NEW r PROVE UpdIn(KeyOf(r)) = r.upd
<1>1. CASE r.ask.kind = "place"
  BY <1>1, KeyParts DEF UpdIn
<1>2. CASE r.ask.kind # "place"
  BY <1>2, KeyParts DEF UpdIn
<1> QED
  BY <1>1, <1>2

LEMMA KeySame ==
  ASSUME NEW r, NEW s, r.ask = s.ask, r.code = s.code, r.upd = s.upd
  PROVE  KeyOf(r) = KeyOf(s)
BY DEF KeyOf

(* A step that moves a request on, and one that ends it. *)
LEMMA MovedOn ==
  ASSUME NEW r, HasFields(r), NEW at, NEW n, n = [r EXCEPT !.at = at]
  PROVE  /\ HasFields(n) /\ n.at = at /\ n.ask = r.ask /\ n.upd = r.upd /\ n.code = r.code
         /\ n.zones = r.zones /\ n.objects = r.objects /\ n.services = r.services
         /\ KeyOf(n) = KeyOf(r)
<1>1. /\ HasFields(n) /\ n.at = at /\ n.ask = r.ask /\ n.upd = r.upd /\ n.code = r.code
      /\ n.zones = r.zones /\ n.objects = r.objects /\ n.services = r.services
  BY DEF HasFields
<1> QED
  BY <1>1, KeySame

LEMMA EndedWith ==
  ASSUME NEW c, NEW r, HasFields(r), NEW answer, Ends(c, r, answer)
  PROVE  \E n : /\ clients' = [clients EXCEPT ![c] = n]
                /\ HasFields(n) /\ n.at = "done" /\ n.ask = r.ask /\ n.upd = r.upd
                /\ n.code = r.code /\ n.services = r.services /\ n.answer = answer
                /\ KeyOf(n) = KeyOf(r)
<1>1. PICK n : n = [r EXCEPT !.at = "done", !.answer = answer]
  OBVIOUS
<1>2. clients' = [clients EXCEPT ![c] = n]
  BY <1>1 DEF Ends
<1>3. HasFields(n) /\ n.at = "done" /\ n.ask = r.ask /\ n.upd = r.upd /\ n.code = r.code
      /\ n.services = r.services /\ n.answer = answer
  BY <1>1 DEF HasFields
<1>4. KeyOf(n) = KeyOf(r)
  BY <1>3, KeySame
<1> QED
  BY <1>2, <1>3, <1>4

LEMMA FitsLonger ==
  ASSUME NEW r, NEW v \in Nat, NEW w \in Nat, v <= w, NEW keys, NEW more, keys \subseteq more,
         ClientFits(r, v, keys)
  PROVE  ClientFits(r, w, more)
BY DEF ClientFits

(* A request may move on to where what it has read allows, or end without a   *)
(* task or with the row of its key.                                           *)
Allows(r, at) ==
    /\ at # "done"
    /\ at \in HasZones => r.zones >= r.upd /\ r.zones \in DOMAIN Contents
    /\ r.ask.kind = "place" /\ at \in HasCode => r.code # NoCodeFound
    /\ at \in HasObjects => r.objects >= r.upd /\ r.objects \in DOMAIN Contents
    /\ at \in Begun => r.services = NotFetched
    /\ at = "resolve" => r.ask.kind = "place"

(* ClientFits without the place. *)
ReadFits(r, v) ==
    /\ HasFields(r)
    /\ r.ask.kind \in Kinds
    /\ r.upd \in Int /\ r.upd <= v
    /\ r.services # NotFetched => r.services >= r.upd /\ r.services \in DOMAIN Contents
    /\ r.ask.kind # "place" => r.code = NoCodeFound

LEMMA FitsRead == ASSUME NEW r, NEW v, NEW keys, ClientFits(r, v, keys) PROVE ReadFits(r, v)
BY DEF ClientFits, ReadFits

LEMMA OneClient ==
  ASSUME ScenarioInv, branch = "scenario", branch' = branch, version' = version, kept' = kept,
         NEW c \in Clients, NEW n, clients' = [clients EXCEPT ![c] = n],
         ClientFits(n, version, DOMAIN kept)
  PROVE  ScenarioInv'
<1>1. \A d \in Clients : ClientFits(clients'[d], version, DOMAIN kept)
  BY DEF ScenarioInv
<1> QED
  BY <1>1 DEF ScenarioInv

LEMMA ProceedKeeps ==
  ASSUME ScenarioInv, branch = "scenario", branch' = branch, version' = version, kept' = kept,
         NEW c \in Clients, NEW r, NEW at, ReadFits(r, version), Allows(r, at), Proceed(c, r, at)
  PROVE  ScenarioInv'
<1> DEFINE n == [r EXCEPT !.at = at]
<1>1. clients' = [clients EXCEPT ![c] = n]
  BY DEF Proceed
<1>2. HasFields(r)
  BY DEF ReadFits
<1>3. /\ HasFields(n) /\ n.at = at /\ n.ask = r.ask /\ n.upd = r.upd /\ n.code = r.code
      /\ n.zones = r.zones /\ n.objects = r.objects /\ n.services = r.services
  BY <1>2, MovedOn
<1> HIDE DEF n
<1>4. ClientFits(n, version, DOMAIN kept)
  BY <1>3 DEF ReadFits, Allows, ClientFits
<1> QED
  BY <1>1, <1>4, OneClient

LEMMA EndsKeeps ==
  ASSUME ScenarioInv, branch = "scenario", branch' = branch, version' = version, kept' = kept,
         NEW c \in Clients, NEW r, NEW answer, ReadFits(r, version), Ends(c, r, answer),
         \/ answer[1] # "task"
         \/ answer = <<"task", KeyOf(r)>> /\ KeyOf(r) \in DOMAIN kept
  PROVE  ScenarioInv'
<1>1. HasFields(r)
  BY DEF ReadFits
<1>3. PICK n : /\ clients' = [clients EXCEPT ![c] = n]
               /\ HasFields(n) /\ n.at = "done" /\ n.ask = r.ask /\ n.upd = r.upd
               /\ n.code = r.code /\ n.services = r.services /\ n.answer = answer
               /\ KeyOf(n) = KeyOf(r)
  BY <1>1, EndedWith
<1>4. ClientFits(n, version, DOMAIN kept)
  BY <1>3 DEF ReadFits, ClientFits, HasZones, HasObjects, Begun, HasCode
<1> QED
  BY <1>3, <1>4, OneClient

LEMMA LookUpKeeps ==
  ASSUME ScenarioInv, branch = "scenario", branch' = branch, version' = version, kept' = kept,
         NEW c \in Clients, NEW r, NEW next, ReadFits(r, version), Allows(r, next),
         LookUpKey(c, r, next)
  PROVE  ScenarioInv'
<1>1. CASE KeyOf(r) \in DOMAIN kept /\ ~r.ask.force
  <2>1. Ends(c, r, <<"task", KeyOf(r)>>)
    BY <1>1 DEF LookUpKey
  <2> QED
    BY <1>1, <2>1, EndsKeeps
<1>2. CASE ~(KeyOf(r) \in DOMAIN kept /\ ~r.ask.force)
  <2>1. Proceed(c, r, next)
    BY <1>2 DEF LookUpKey
  <2> QED
    BY <2>1, ProceedKeeps
<1> QED
  BY <1>1, <1>2

LEMMA CheckedKeeps ==
  ASSUME ScenarioInv, branch = "scenario", branch' = branch, version' = version, kept' = kept,
         NEW c \in Clients, NEW r, ReadFits(r, version), Allows(r, "create"), Checked(c, r)
  PROVE  ScenarioInv'
<1>1. CASE Ends(c, r, <<"422">>)
  BY <1>1, EndsKeeps
<1>2. CASE Proceed(c, r, "create")
  BY <1>2, ProceedKeeps
<1> QED
  BY <1>1, <1>2 DEF Checked

LEMMA AfterServicesKeeps ==
  ASSUME ScenarioInv, branch = "scenario", branch' = branch, version' = version, kept' = kept,
         NEW c \in Clients, NEW r, ReadFits(r, version), Allows(r, "create"), AfterServices(c, r)
  PROVE  ScenarioInv'
<1>1. CASE Proceed(c, r, "fallback")
  <2>1. Allows(r, "fallback")
    BY DEF Allows, HasZones, HasObjects, Begun, HasCode
  <2> QED
    BY <1>1, <2>1, ProceedKeeps
<1>2. CASE Checked(c, r)
  BY <1>2, CheckedKeeps
<1> QED
  BY <1>1, <1>2 DEF AfterServices

(* What a request has read so far, with one thing more. *)
LEMMA ReadMore ==
  ASSUME NEW r, NEW v, HasFields(r), r.ask.kind \in Kinds, v \in Nat, v \in DOMAIN Contents, NEW n,
         \/ n = [r EXCEPT !.upd = v] /\ r.services = NotFetched
         \/ n = [r EXCEPT !.zones = v] /\ r.upd \in Int /\ r.upd <= v
         \/ n = [r EXCEPT !.objects = v] /\ r.upd \in Int /\ r.upd <= v
         \/ n = [r EXCEPT !.objects = v, !.others = TRUE] /\ r.upd \in Int /\ r.upd <= v
         \/ n = [r EXCEPT !.services = v] /\ r.upd \in Int /\ r.upd <= v,
         r.services # NotFetched => r.services >= r.upd /\ r.services \in DOMAIN Contents,
         r.ask.kind # "place" => r.code = NoCodeFound
  PROVE  ReadFits(n, v) /\ n.ask = r.ask /\ n.code = r.code
<1> USE DEF HasFields, ReadFits
<1>1. CASE n = [r EXCEPT !.upd = v] /\ r.services = NotFetched
  BY <1>1
<1>2. CASE n = [r EXCEPT !.zones = v] /\ r.upd \in Int /\ r.upd <= v
  BY <1>2
<1>3. CASE n = [r EXCEPT !.objects = v] /\ r.upd \in Int /\ r.upd <= v
  BY <1>3
<1>4. CASE n = [r EXCEPT !.objects = v, !.others = TRUE] /\ r.upd \in Int /\ r.upd <= v
  BY <1>4
<1>5. CASE n = [r EXCEPT !.services = v] /\ r.upd \in Int /\ r.upd <= v
  BY <1>5
<1> QED
  BY <1>1, <1>2, <1>3, <1>4, <1>5

(* Rows that are bound under the key of their request. *)
LEMMA RowOfClient ==
  ASSUME NEW r, NEW v, ReadFits(r, v), r.zones >= r.upd, r.objects >= r.upd,
         r.zones \in DOMAIN Contents, r.objects \in DOMAIN Contents,
         r.ask.kind = "place" => r.code # NoCodeFound
  PROVE  RowFits(KeyOf(r), RowFor(r))
<1> DEFINE entry == RowFor(r)
<1>1. /\ entry.ask = r.ask /\ entry.code = r.code /\ entry.zones = r.zones
      /\ entry.objects = r.objects /\ entry.services = r.services
  BY DEF RowFor
<1>2. UpdIn(KeyOf(r)) = r.upd
  BY UpdInKey
<1> HIDE DEF entry
<1>3. KeyOf(r) = KeyOf([ask |-> entry.ask, code |-> entry.code, upd |-> UpdIn(KeyOf(r))])
  BY <1>1, <1>2, KeySame
<1>4. RowFits(KeyOf(r), entry)
  BY <1>1, <1>2, <1>3 DEF RowFits, ReadFits
<1> QED
  BY <1>4 DEF entry

LEMMA KeptRows ==
  ASSUME ScenarioInv, branch = "scenario", branch' = branch, version' = version,
         NEW c \in Clients, NEW r, ReadFits(r, version), r.zones >= r.upd, r.objects >= r.upd,
         r.zones \in DOMAIN Contents, r.objects \in DOMAIN Contents,
         r.ask.kind = "place" => r.code # NoCodeFound,
         Ends(c, r, <<"task", KeyOf(r)>>), kept' = With(KeyOf(r), RowFor(r))
  PROVE  ScenarioInv'
<1>1. /\ DOMAIN kept' = DOMAIN kept \cup {KeyOf(r)}
      /\ \A key \in DOMAIN kept' : kept'[key] = IF key = KeyOf(r) THEN RowFor(r) ELSE kept[key]
  BY DEF With
<1>2. \A key \in DOMAIN kept' : RowFits(key, kept'[key])
  BY <1>1, RowOfClient DEF ScenarioInv
<1>3. HasFields(r)
  BY DEF ReadFits
<1>5. PICK n : /\ clients' = [clients EXCEPT ![c] = n]
               /\ HasFields(n) /\ n.at = "done" /\ n.ask = r.ask /\ n.upd = r.upd
               /\ n.code = r.code /\ n.services = r.services
               /\ n.answer = <<"task", KeyOf(r)>> /\ KeyOf(n) = KeyOf(r)
  BY <1>3, EndedWith
<1>6. ClientFits(n, version, DOMAIN kept')
  BY <1>1, <1>5 DEF ReadFits, ClientFits, HasZones, HasObjects, Begun, HasCode
<1>7. \A d \in Clients : ClientFits(clients[d], version, DOMAIN kept')
  <2>1. version \in Nat
    BY ContentsAssumption DEF ScenarioInv
  <2> QED
    BY <1>1, <2>1, FitsLonger DEF ScenarioInv
<1> QED
  BY <1>2, <1>5, <1>6, <1>7 DEF ScenarioInv

LEMMA ScenarioStepKeeps ==
  ASSUME ScenarioInv, branch = "scenario", branch' = branch,
         NEW codes, ScenarioStep(codes)
  PROVE  ScenarioInv'
<1> USE DEF HasZones, HasObjects, Begun, HasCode, Allows
<1>0. version \in DOMAIN Contents /\ version \in Nat
  BY ContentsAssumption DEF ScenarioInv
<1>1. ASSUME NEW c \in Clients
      PROVE  /\ ClientFits(clients[c], version, DOMAIN kept)
             /\ ReadFits(clients[c], version)
             /\ HasFields(clients[c]) /\ clients[c].ask.kind \in Kinds /\ version \in Nat
             /\ version \in DOMAIN Contents
             /\ clients[c].upd \in Int /\ clients[c].upd <= version
  BY <1>0, FitsRead DEF ScenarioInv, ClientFits
<1>2. ASSUME NEW c \in Clients, ReadInfo(c) PROVE ScenarioInv'
  <2>1. PICK r : r = WithInfo(clients[c])
    OBVIOUS
  <2>2. clients[c].services = NotFetched
    BY <1>1, <1>2 DEF ReadInfo, ClientFits
  <2>3. ReadFits(r, version) /\ r.services = NotFetched
    <3>1. r = [clients[c] EXCEPT !.upd = version]
      BY <2>1 DEF WithInfo
    <3>2. ReadFits(r, version)
      BY <1>1, <2>2, <3>1, ReadMore DEF ClientFits
    <3> QED
      BY <1>1, <2>2, <3>1, <3>2 DEF HasFields
  <2>4. Allows(r, "sources")
    BY <2>3
  <2>5. Proceed(c, r, "sources") \/ LookUpKey(c, r, "sources")
    BY <1>2, <2>1 DEF ReadInfo
  <2>6. version' = version /\ kept' = kept
    BY <1>2 DEF ReadInfo
  <2> QED
    BY <2>3, <2>4, <2>5, <2>6, ProceedKeeps, LookUpKeeps
<1>3. ASSUME NEW c \in Clients, ReadSources(c) PROVE ScenarioInv'
  <2>1. clients[c].services = NotFetched
    BY <1>1, <1>3 DEF ReadSources, ClientFits
  <2>2. version' = version /\ kept' = kept
    BY <1>3 DEF ReadSources
  <2>3. CASE Ends(c, clients[c], <<"422">>)
    BY <1>1, <2>2, <2>3, EndsKeeps
  <2>4. CASE Proceed(c, clients[c], "resolve") /\ IsPlacing(c)
    <3>1. Allows(clients[c], "resolve")
      BY <2>1, <2>4 DEF IsPlacing, AskOf
    <3> QED
      BY <1>1, <2>2, <2>4, <3>1, ProceedKeeps
  <2>5. CASE Proceed(c, clients[c], "zones") /\ ~IsPlacing(c)
    <3>1. Allows(clients[c], "zones")
      BY <2>1, <2>5 DEF IsPlacing, AskOf
    <3> QED
      BY <1>1, <2>2, <2>5, <3>1, ProceedKeeps
  <2> QED
    BY <1>3, <2>3, <2>4, <2>5 DEF ReadSources
<1>4. ASSUME NEW c \in Clients, NEW code \in codes, Resolve(c, code) PROVE ScenarioInv'
  <2>1. clients[c].services = NotFetched /\ clients[c].ask.kind = "place"
    BY <1>1, <1>4 DEF Resolve, ClientFits
  <2>2. version' = version /\ kept' = kept
    BY <1>4 DEF Resolve
  <2>3. CASE Ends(c, clients[c], <<"422">>)
    BY <1>1, <2>2, <2>3, EndsKeeps
  <2>4. ASSUME code # NoCodeFound, LookUpKey(c, [clients[c] EXCEPT !.code = code], "zones")
        PROVE  ScenarioInv'
    <3>1. PICK r : r = [clients[c] EXCEPT !.code = code]
      OBVIOUS
    <3>2. ReadFits(r, version) /\ Allows(r, "zones")
      BY <1>1, <2>1, <2>4, <3>1 DEF ReadFits, HasFields
    <3> QED
      BY <2>2, <2>4, <3>1, <3>2, LookUpKeeps
  <2> QED
    BY <1>4, <2>3, <2>4 DEF Resolve
<1>5. ASSUME NEW c \in Clients, ReadZones(c) PROVE ScenarioInv'
  <2>1. PICK r : r = [clients[c] EXCEPT !.zones = version]
    OBVIOUS
  <2>2. /\ clients[c].services = NotFetched
        /\ clients[c].ask.kind = "place" => clients[c].code # NoCodeFound
    BY <1>1, <1>5 DEF ReadZones, ClientFits
  <2>3. ReadFits(r, version)
    BY <1>1, <2>1, ReadMore DEF ClientFits
  <2>4. Allows(r, "objects")
    BY <1>0, <1>1, <2>1, <2>2 DEF HasFields
  <2>5. Proceed(c, r, "objects") /\ version' = version /\ kept' = kept
    BY <1>5, <2>1 DEF ReadZones
  <2> QED
    BY <2>3, <2>4, <2>5, ProceedKeeps
<1>6. ASSUME NEW c \in Clients, ReadObjects(c) PROVE ScenarioInv'
  <2>1. PICK r : r = [clients[c] EXCEPT !.objects = version]
    OBVIOUS
  <2>2. /\ clients[c].zones >= clients[c].upd /\ clients[c].zones \in DOMAIN Contents
        /\ clients[c].ask.kind = "place" => clients[c].code # NoCodeFound
    BY <1>1, <1>6 DEF ReadObjects, ClientFits
  <2>3. ReadFits(r, version)
    BY <1>1, <2>1, ReadMore DEF ClientFits
  <2>4. Allows(r, "services")
    BY <1>1, <2>1, <2>2 DEF HasFields
  <2>5. Proceed(c, r, "services") /\ version' = version /\ kept' = kept
    BY <1>6, <2>1 DEF ReadObjects
  <2> QED
    BY <2>3, <2>4, <2>5, ProceedKeeps
<1>7. ASSUME NEW c \in Clients, ReadServices(c) PROVE ScenarioInv'
  <2>1. PICK r : r = [clients[c] EXCEPT !.services = version]
    OBVIOUS
  <2>2. /\ clients[c].zones >= clients[c].upd /\ clients[c].objects >= clients[c].upd
        /\ clients[c].zones \in DOMAIN Contents /\ clients[c].objects \in DOMAIN Contents
        /\ clients[c].ask.kind = "place" => clients[c].code # NoCodeFound
    BY <1>1, <1>7 DEF ReadServices, ClientFits
  <2>3. ReadFits(r, version)
    BY <1>1, <2>1, ReadMore DEF ClientFits
  <2>4. Allows(r, "create")
    BY <1>1, <2>1, <2>2 DEF HasFields
  <2>5. AfterServices(c, r) /\ version' = version /\ kept' = kept
    BY <1>7, <2>1 DEF ReadServices
  <2> QED
    BY <2>3, <2>4, <2>5, AfterServicesKeeps
<1>8. ASSUME NEW c \in Clients, ReadFallback(c) PROVE ScenarioInv'
  <2>1. PICK r : r = [clients[c] EXCEPT !.objects = version, !.others = TRUE]
    OBVIOUS
  <2>2. /\ clients[c].zones >= clients[c].upd /\ clients[c].zones \in DOMAIN Contents
        /\ clients[c].ask.kind = "place" => clients[c].code # NoCodeFound
    BY <1>1, <1>8 DEF ReadFallback, ClientFits
  <2>3. ReadFits(r, version)
    BY <1>1, <2>1, ReadMore DEF ClientFits
  <2>4. Allows(r, "create")
    BY <1>1, <2>1, <2>2 DEF HasFields
  <2>5. Checked(c, r) /\ version' = version /\ kept' = kept
    BY <1>8, <2>1 DEF ReadFallback
  <2> QED
    BY <2>3, <2>4, <2>5, CheckedKeeps
<1>9. ASSUME NEW c \in Clients, UrbanFails(c) PROVE ScenarioInv'
  <2>1. version' = version /\ kept' = kept
    BY <1>9 DEF UrbanFails
  <2>2. CASE Ends(c, clients[c], <<"502">>)
    BY <1>1, <2>1, <2>2, EndsKeeps
  <2>3. CASE clients[c].at = "services" /\ AfterServices(c, clients[c])
    <3>1. Allows(clients[c], "create")
      BY <1>1, <2>3 DEF ClientFits
    <3> QED
      BY <1>1, <2>1, <2>3, <3>1, AfterServicesKeeps
  <2> QED
    BY <1>9, <2>2, <2>3 DEF UrbanFails
<1>10. ASSUME NEW c \in Clients, clients[c].at \in {"create", "insert"}
       PROVE  /\ clients[c].zones >= clients[c].upd /\ clients[c].objects >= clients[c].upd
              /\ clients[c].zones \in DOMAIN Contents /\ clients[c].objects \in DOMAIN Contents
              /\ clients[c].ask.kind = "place" => clients[c].code # NoCodeFound
  BY <1>1, <1>10 DEF ClientFits
<1>11. ASSUME NEW c \in Clients, NEW running \in BOOLEAN, Create(c, running) PROVE ScenarioInv'
  <2> DEFINE key == KeyOf(clients[c])
  <2>1. version' = version /\ clients[c].at = "create"
    BY <1>11 DEF Create
  <2>2. CASE key \in DOMAIN kept /\ kept' = kept
    <3>1. Ends(c, clients[c], <<"task", key>>)
      BY <1>11, <2>2 DEF Create
    <3> QED
      BY <1>1, <2>1, <2>2, <3>1, EndsKeeps
  <2>3. CASE key \in DOMAIN kept /\ kept' = With(key, RowFor(clients[c]))
    <3>1. Ends(c, clients[c], <<"task", key>>)
      BY <1>11, <2>3 DEF Create
    <3> QED
      BY <1>1, <1>10, <2>1, <2>3, <3>1, KeptRows
  <2>4. CASE key \notin DOMAIN kept
    <3>1. Proceed(c, clients[c], "insert") /\ kept' = kept
      BY <1>11, <2>4 DEF Create
    <3>2. Allows(clients[c], "insert")
      BY <1>10, <2>1
    <3> QED
      BY <1>1, <2>1, <3>1, <3>2, ProceedKeeps
  <2> QED
    BY <1>11, <2>2, <2>3, <2>4 DEF Create
<1>12. ASSUME NEW c \in Clients, Insert(c) PROVE ScenarioInv'
  <2> DEFINE key == KeyOf(clients[c])
  <2>1. version' = version /\ clients[c].at = "insert" /\ Ends(c, clients[c], <<"task", key>>)
    BY <1>12 DEF Insert
  <2>2. CASE key \in DOMAIN kept
    <3>1. kept' = kept
      BY <1>12, <2>2 DEF Insert
    <3> QED
      BY <1>1, <2>1, <2>2, <3>1, EndsKeeps
  <2>3. CASE key \notin DOMAIN kept
    <3>1. kept' = With(key, RowFor(clients[c]))
      BY <1>12, <2>3 DEF Insert
    <3> QED
      BY <1>1, <1>10, <2>1, <3>1, KeptRows
  <2> QED
    BY <2>2, <2>3
<1>13. CASE EditScenario
  <2>1. version' = version + 1 /\ clients' = clients /\ kept' = kept
    BY <1>13 DEF EditScenario
  <2>2. version \in Nat /\ version' \in DOMAIN Contents /\ version' \in Nat
        /\ version <= version'
    BY <1>0, <1>13, <2>1, ContentsAssumption DEF EditScenario
  <2>3. \A c \in Clients : ClientFits(clients[c], version', DOMAIN kept)
    BY <1>1, <2>2, FitsLonger
  <2> QED
    BY <2>1, <2>2, <2>3 DEF ScenarioInv
<1> QED
  BY <1>2, <1>3, <1>4, <1>5, <1>6, <1>7, <1>8, <1>9, <1>11, <1>12, <1>13 DEF ScenarioStep

(* Whatever else happens leaves the scenario and its requests alone. *)
LEMMA FlowCases ==
  ASSUME [Next]_vars
  PROVE  /\ branch' = branch
         /\ \/ branch = "scenario" /\ ScenarioStep({ServiceCodeOf(query) : query \in Queries})
            \/ UNCHANGED scenarioVars
         /\ RegStep \/ UNCHANGED regVars
<1> USE DEF flowVars, Others
<1>1. CASE Submit
  BY <1>1 DEF Submit
<1>2. CASE StartPipeline
  BY <1>2 DEF StartPipeline
<1>3. CASE RunPipeline \/ EndPipeline
  BY <1>3 DEF RunPipeline, EndPipeline
<1>4. CASE RunBuildings \/ RunPlacement
  BY <1>4 DEF RunBuildings, RunPlacement
<1>5. CASE ScenarioMoves
  BY <1>5 DEF ScenarioMoves
<1>6. ASSUME NEW c \in Clients, RunScenario(c)
      PROVE  branch' = branch /\ UNCHANGED scenarioVars /\ UNCHANGED regVars
  BY <1>6 DEF RunScenario
<1>7. CASE RegulationMoves
  BY <1>7 DEF RegulationMoves
<1>8. CASE Done \/ UNCHANGED vars
  BY <1>8 DEF Done, vars
<1> QED
  BY <1>1, <1>2, <1>3, <1>4, <1>5, <1>6, <1>7, <1>8 DEF Next

LEMMA ScenarioInvInit == Init => ScenarioInv
<1> SUFFICES ASSUME Init PROVE ScenarioInv
  OBVIOUS
<1>1. version = 1 /\ version \in DOMAIN Contents /\ kept = <<>>
  BY ContentsAssumption DEF Init, ScenarioInit
<1>2. CASE branch = "scenario"
  <2>1. ScenarioInit(ScenarioAsks)
    BY <1>2 DEF Init
  <2>2. DOMAIN clients = Clients
    BY <2>1 DEF ScenarioInit
  <2>3. ASSUME NEW c \in Clients PROVE ClientFits(clients[c], version, DOMAIN kept)
    <3>1. PICK ask \in ScenarioAsks :
             clients[c] = [at |-> "info", ask |-> ask, upd |-> NotFetched, code |-> NoCodeFound,
                           zones |-> NotFetched, objects |-> NotFetched, others |-> FALSE,
                           services |-> NotFetched, answer |-> <<>>]
      BY <2>1 DEF ScenarioInit
    <3>2. HasFields(clients[c])
      BY <3>1 DEF HasFields
    <3>3. ask.kind \in Kinds
      BY AsksAssumption DEF Kinds
    <3> QED
      BY <1>1, <3>1, <3>2, <3>3
         DEF ClientFits, HasZones, HasObjects, Begun, HasCode, NotFetched, NoCodeFound
  <2> QED
    BY <1>1, <1>2, <2>2, <2>3 DEF ScenarioInv
<1>3. CASE branch # "scenario"
  <2>1. ScenarioInit({NoRow})
    BY <1>3 DEF Init
  <2>2. DOMAIN clients = Clients /\ \A c \in Clients : clients[c].at = "info"
    BY <2>1 DEF ScenarioInit
  <2> QED
    BY <1>1, <1>3, <2>2 DEF ScenarioInv
<1> QED
  BY <1>2, <1>3

LEMMA ScenarioInvStep == ScenarioInv /\ [Next]_vars => ScenarioInv'
<1> SUFFICES ASSUME ScenarioInv, [Next]_vars PROVE ScenarioInv'
  OBVIOUS
<1>1. CASE branch = "scenario" /\ ScenarioStep({ServiceCodeOf(query) : query \in Queries})
  BY <1>1, FlowCases, ScenarioStepKeeps
<1>2. CASE UNCHANGED scenarioVars
  <2>1. branch' = branch
    BY FlowCases
  <2> QED
    BY <1>2, <2>1 DEF scenarioVars, ScenarioInv
<1> QED
  BY <1>1, <1>2, FlowCases

LEMMA ScenarioInvServes == ScenarioInv => ServedFits
<1> SUFFICES ASSUME ScenarioInv, NEW c \in Clients, Served(c)
             PROVE  /\ \A f \in {"kind", "source", "files", "cadastre"} :
                          Answers(c).ask[f] = AskOf(c)[f]
                    /\ Answers(c).code = clients[c].code
                    /\ IF IsPlacing(c) THEN Answers(c).ask.query = AskOf(c).query
                       ELSE Answers(c).ask.house = AskOf(c).house
                    /\ Answers(c).zones >= clients[c].upd /\ Answers(c).objects >= clients[c].upd
                    /\ Answers(c).services # NotFetched => Answers(c).services >= clients[c].upd
  BY DEF ServedFits
<1>1. branch = "scenario" /\ ClientFits(clients[c], version, DOMAIN kept)
  BY DEF ScenarioInv, Served
<1>2. PICK r : r = clients[c]
  OBVIOUS
<1>3. PICK entry : entry = kept[KeyOf(r)]
  OBVIOUS
<1>4. KeyOf(r) \in DOMAIN kept /\ Answers(c) = entry /\ AskOf(c) = r.ask
  BY <1>1, <1>2, <1>3 DEF ClientFits, Served, Answers, AskOf
<1>5. RowFits(KeyOf(r), entry) /\ UpdIn(KeyOf(r)) = r.upd
  BY <1>3, <1>4, UpdInKey DEF ScenarioInv
<1>6. r.ask.kind \in Kinds /\ (r.ask.kind # "place" => r.code = NoCodeFound)
  BY <1>1, <1>2 DEF ClientFits
<1>7. PICK s : s = [ask |-> entry.ask, code |-> entry.code, upd |-> r.upd]
  OBVIOUS
<1>8. KeyOf(r) = KeyOf(s) /\ s.ask = entry.ask /\ s.code = entry.code /\ entry.ask.kind \in Kinds
      /\ (entry.ask.kind # "place" => entry.code = NoCodeFound)
  BY <1>5, <1>7 DEF RowFits
<1>9. CASE r.ask.kind = "place"
  <2>1. s.ask.kind = "place"
    <3>1. KeyOf(s)[1] = "place"
      BY <1>8, <1>9, KeyParts
    <3> QED
      BY <3>1, KeyParts
  <2>2. /\ s.ask.source = r.ask.source /\ s.code = r.code /\ s.ask.query = r.ask.query
        /\ s.ask.files = r.ask.files /\ s.ask.cadastre = r.ask.cadastre
    BY <1>8, <1>9, <2>1, KeyParts
  <2> QED
    BY <1>2, <1>4, <1>5, <1>8, <1>9, <2>1, <2>2 DEF RowFits, IsPlacing
<1>10. CASE r.ask.kind # "place"
  <2>1. s.ask.kind # "place"
    <3>1. KeyOf(s)[1] = "classify"
      BY <1>8, <1>10, KeyParts
    <3> QED
      BY <3>1, KeyParts
  <2>2. /\ s.ask.source = r.ask.source /\ s.ask.house = r.ask.house
        /\ s.ask.files = r.ask.files /\ s.ask.cadastre = r.ask.cadastre
    BY <1>8, <1>10, <2>1, KeyParts
  <2>3. s.ask.kind = r.ask.kind /\ s.code = r.code
    BY <1>6, <1>8, <1>10, <2>1 DEF Kinds
  <2> QED
    BY <1>2, <1>4, <1>5, <1>8, <1>10, <2>1, <2>2, <2>3 DEF RowFits, IsPlacing
<1> QED
  BY <1>9, <1>10

(* The task a request for a scenario is given answers what was asked, and     *)
(* holds a scenario no older than the one the request met, however many       *)
(* requests and edits there are and whoever made the row.                     *)
THEOREM RowsServedFit == Spec => []ServedFits
BY ScenarioInvInit, ScenarioInvStep, ScenarioInvServes, PTL DEF Spec
-----------------------------------------------------------------------------
(* Direct checks.                                                          *)

CallFields(call) == DOMAIN call = {"at", "edition", "lock", "mapping", "answer"}

(* A mapping names zones of the edition with key e only. *)
OfEdition(e, mapping) == \A t \in Types : mapping.zones[t] \subseteq CodesIn(e)

(* The key of an edition has the codes of its zones. *)
LEMMA KeyCodes ==
  ASSUME NEW e
  PROVE  CodesIn(EditionKey(e)) = CodesIn(Editions[e])
<1>1. /\ DOMAIN EditionKey(e) = DOMAIN Editions[e]
      /\ \A i \in DOMAIN Editions[e] : EditionKey(e)[i].code = Editions[e][i].code
  BY DEF EditionKey
<1> QED
  BY <1>1 DEF CodesIn

CallsShaped == DOMAIN calls = Callers /\ \A c \in Callers : CallFields(calls[c])

CachesFit ==
    /\ \A e \in DOMAIN mappings : OfEdition(e, mappings[e]) /\ mappings[e].by # "none"
    /\ \A e \in DOMAIN fallbacks : OfEdition(e, fallbacks[e]) /\ fallbacks[e].by # "none"

MappedFits == \A c \in Callers : calls[c].at = "mapped" =>
                 OfEdition(EditionKey(calls[c].edition), calls[c].mapping)

MappingInv == CallsShaped /\ CachesFit /\ MappedFits

LEMMA CachedFits ==
  ASSUME CachesFit, NEW e
  PROVE  OfEdition(e, Cached(e))
<1>1. OfEdition(e, NoMapping)
  BY DEF OfEdition, NoMapping
<1> QED
  BY <1>1 DEF Cached, CachesFit

(* A request that goes on, ends, or gets its mapping. *)
LEMMA CallMoves ==
  ASSUME CallsShaped, MappedFits, NEW c \in Callers, NEW at, at # "mapped", Go(c, at)
  PROVE  /\ CallsShaped' /\ MappedFits'
         /\ calls'[c].at = at /\ calls'[c].edition = calls[c].edition
         /\ calls'[c].lock = calls[c].lock
         /\ \A d \in Callers \ {c} : calls'[d] = calls[d]
<1>1. /\ DOMAIN calls' = Callers /\ \A d \in Callers \ {c} : calls'[d] = calls[d]
      /\ CallFields(calls'[c])
      /\ calls'[c].at = at /\ calls'[c].edition = calls[c].edition
      /\ calls'[c].lock = calls[c].lock
  BY DEF Go, CallsShaped, CallFields
<1> QED
  BY <1>1 DEF CallsShaped, MappedFits

LEMMA CallEnds ==
  ASSUME CallsShaped, MappedFits, NEW c \in Callers, NEW answer, End(c, answer)
  PROVE  /\ CallsShaped' /\ MappedFits'
         /\ calls'[c].at = "done"
         /\ \A d \in Callers \ {c} : calls'[d] = calls[d]
<1>1. /\ DOMAIN calls' = Callers /\ \A d \in Callers \ {c} : calls'[d] = calls[d]
      /\ CallFields(calls'[c]) /\ calls'[c].at = "done"
  BY DEF End, CallsShaped, CallFields
<1> QED
  BY <1>1 DEF CallsShaped, MappedFits

LEMMA CallMapped ==
  ASSUME CallsShaped, MappedFits, NEW c \in Callers, NEW mapping, WithMapping(c, mapping),
         OfEdition(EditionKey(calls[c].edition), mapping)
  PROVE  /\ CallsShaped' /\ MappedFits'
         /\ calls'[c].at = "mapped"
         /\ \A d \in Callers \ {c} : calls'[d] = calls[d]
<1>1. /\ DOMAIN calls' = Callers /\ \A d \in Callers \ {c} : calls'[d] = calls[d]
      /\ CallFields(calls'[c]) /\ calls'[c].at = "mapped"
      /\ calls'[c].edition = calls[c].edition /\ calls'[c].mapping = mapping
  BY DEF WithMapping, CallsShaped, CallFields
<1> QED
  BY <1>1 DEF CallsShaped, MappedFits

(* What the model tells, or the prefixes do, names zones of the edition. *)
ToldMapping(c, replies) ==
    LET voted == Voted(Usable(replies, ZonesOf(c)), ZonesOf(c)) IN
    IF \E t \in Types : voted[t] # {} THEN [by |-> "llm", zones |-> voted]
    ELSE [by |-> "prefix", zones |-> PrefixMapping(ZonesOf(c))]

LEMMA ToldFits ==
  ASSUME NEW c, NEW replies
  PROVE  /\ OfEdition(EditionKey(calls[c].edition), ToldMapping(c, replies))
         /\ ToldMapping(c, replies).by # "none"
<1> DEFINE voted == Voted(Usable(replies, ZonesOf(c)), ZonesOf(c))
           prefix == PrefixMapping(ZonesOf(c))
<1>1. \A t \in Types : voted[t] \subseteq CodesIn(ZonesOf(c))
  BY DEF Voted
<1>2. \A t \in Types : prefix[t] \subseteq CodesIn(ZonesOf(c))
  BY DEF PrefixMapping, Expanded, CodesIn
<1>3. CodesIn(EditionKey(calls[c].edition)) = CodesIn(ZonesOf(c))
  BY KeyCodes DEF ZonesOf
<1> HIDE DEF voted, prefix
<1>4. CASE \E t \in Types : voted[t] # {}
  <2>1. ToldMapping(c, replies) = [by |-> "llm", zones |-> voted]
    BY <1>4 DEF ToldMapping, voted
  <2> QED
    BY <1>1, <1>3, <2>1 DEF OfEdition
<1>5. CASE ~ \E t \in Types : voted[t] # {}
  <2>1. ToldMapping(c, replies) = [by |-> "prefix", zones |-> prefix]
    BY <1>5 DEF ToldMapping, voted, prefix
  <2> QED
    BY <1>2, <1>3, <2>1 DEF OfEdition
<1> QED
  BY <1>4, <1>5

(* The mapping goes into one of the caches. *)
LEMMA TellsStores ==
  ASSUME NEW c \in Callers, NEW replies, ModelTells(c, replies)
  PROVE  LET key == EditionKey(calls[c].edition)
             m == ToldMapping(c, replies)
         IN  /\ WithMapping(c, m)
             /\ \/ /\ DOMAIN mappings' = DOMAIN mappings \cup {key} /\ fallbacks' = fallbacks
                   /\ \A e \in DOMAIN mappings' :
                         mappings'[e] = IF e = key THEN m ELSE mappings[e]
                \/ /\ DOMAIN fallbacks' = DOMAIN fallbacks \cup {key} /\ mappings' = mappings
                   /\ \A e \in DOMAIN fallbacks' :
                         fallbacks'[e] = IF e = key THEN m ELSE fallbacks[e]
<1> DEFINE voted == Voted(Usable(replies, ZonesOf(c)), ZonesOf(c))
<1>1. CASE \E t \in Types : voted[t] # {}
  BY <1>1 DEF ModelTells, ToldMapping
<1>2. CASE ~ \E t \in Types : voted[t] # {}
  BY <1>2 DEF ModelTells, ToldMapping
<1> QED
  BY <1>1, <1>2

(* How a request meets the caches and the locks. *)
LEMMA LookCases ==
  ASSUME CallsShaped, MappedFits, CachesFit, NEW c \in Callers, LookForMapping(c)
  PROVE  /\ CallsShaped' /\ MappedFits' /\ calls[c].at = "zones"
         /\ \A d \in Callers \ {c} : calls'[d] = calls[d]
         /\ UNCHANGED <<mappings, fallbacks, questions, expiries, failures>>
         /\ \/ calls'[c].at \in {"done", "mapped"} /\ UNCHANGED <<lockOf, locks>>
            \/ /\ calls'[c].at = "wait" /\ calls'[c].edition = calls[c].edition
               /\ EditionKey(calls[c].edition) \in DOMAIN lockOf
               /\ calls'[c].lock = lockOf[EditionKey(calls[c].edition)] /\ UNCHANGED <<lockOf, locks>>
            \/ /\ calls'[c].at = "wait" /\ calls'[c].edition = calls[c].edition
               /\ EditionKey(calls[c].edition) \notin DOMAIN lockOf
               /\ calls'[c].lock = Len(locks) + 1 /\ locks' = Append(locks, Free)
               /\ DOMAIN lockOf' = DOMAIN lockOf \cup {EditionKey(calls[c].edition)}
               /\ \A k \in DOMAIN lockOf' :
                     lockOf'[k] = IF k = EditionKey(calls[c].edition) THEN Len(locks) + 1 ELSE lockOf[k]
<1> DEFINE key == EditionKey(calls[c].edition)
<1>0. calls[c].at = "zones" /\ UNCHANGED <<mappings, fallbacks, questions, expiries, failures>>
  BY DEF LookForMapping
<1>1. ASSUME NEW answer, End(c, answer), UNCHANGED <<lockOf, locks>>
      PROVE  /\ CallsShaped' /\ MappedFits' /\ calls'[c].at = "done"
             /\ \A d \in Callers \ {c} : calls'[d] = calls[d]
  BY <1>1, CallEnds
<1>2. CASE WithMapping(c, Cached(key)) /\ UNCHANGED <<lockOf, locks>>
  BY <1>0, <1>2, CallMapped, CachedFits
<1>3. ASSUME NEW lock, calls' = [calls EXCEPT ![c].at = "wait", ![c].lock = lock]
      PROVE  /\ CallsShaped' /\ MappedFits' /\ calls'[c].at = "wait"
             /\ calls'[c].edition = calls[c].edition /\ calls'[c].lock = lock
             /\ \A d \in Callers \ {c} : calls'[d] = calls[d]
  <2>1. /\ DOMAIN calls' = Callers /\ \A d \in Callers \ {c} : calls'[d] = calls[d]
        /\ CallFields(calls'[c]) /\ calls'[c].at = "wait" /\ calls'[c].edition = calls[c].edition
        /\ calls'[c].lock = lock
    BY <1>3 DEF CallsShaped, CallFields
  <2> QED
    BY <2>1 DEF CallsShaped, MappedFits
<1>4. CASE key \in DOMAIN lockOf /\ UNCHANGED <<lockOf, locks>>
           /\ calls' = [calls EXCEPT ![c].at = "wait", ![c].lock = lockOf[key]]
  BY <1>0, <1>3, <1>4
<1>5. CASE /\ key \notin DOMAIN lockOf /\ locks' = Append(locks, Free)
           /\ lockOf' = [k \in DOMAIN lockOf \cup {key} |->
                            IF k = key THEN Len(locks) + 1 ELSE lockOf[k]]
           /\ calls' = [calls EXCEPT ![c].at = "wait", ![c].lock = Len(locks) + 1]
  BY <1>0, <1>3, <1>5
<1>6. CASE asks[c].zone # NoKey
  <2>1. PICK answer : End(c, answer) /\ UNCHANGED <<lockOf, locks>>
    BY <1>6 DEF LookForMapping
  <2> QED
    BY <1>0, <1>1, <2>1
<1>7. CASE asks[c].zone = NoKey
  BY <1>2, <1>4, <1>5, <1>7 DEF LookForMapping
<1> QED
  BY <1>6, <1>7

LEMMA MappingInvStep == MappingInv /\ [Next]_vars => MappingInv'
<1> SUFFICES ASSUME CallsShaped, CachesFit, MappedFits, RegStep \/ UNCHANGED regVars
             PROVE  MappingInv'
  BY FlowCases DEF MappingInv
<1> USE DEF MappingInv
<1>1. CASE UNCHANGED regVars
  BY <1>1 DEF regVars, CallsShaped, CachesFit, MappedFits
<1>2. ASSUME NEW c \in Callers, NEW e,
             calls' = [calls EXCEPT ![c].at = "zones", ![c].edition = e]
             \/ calls' = [calls EXCEPT ![c].at = "got zones", ![c].edition = e]
      PROVE  CallsShaped' /\ MappedFits'
  <2>1. /\ DOMAIN calls' = Callers /\ \A d \in Callers \ {c} : calls'[d] = calls[d]
        /\ CallFields(calls'[c]) /\ calls'[c].at # "mapped"
    BY <1>2 DEF CallsShaped, CallFields
  <2> QED
    BY <2>1 DEF CallsShaped, MappedFits
<1>3. ASSUME UNCHANGED <<mappings, fallbacks>> PROVE CachesFit'
  BY <1>3 DEF CachesFit
<1>4. ASSUME NEW c \in Callers, FindDocument(c) PROVE MappingInv'
  BY <1>2, <1>3, <1>4, CallMoves DEF FindDocument
<1>5. ASSUME NEW c \in Callers, NoDocument(c) PROVE MappingInv'
  <2>1. PICK answer : End(c, answer)
    BY ZenonT(40), <1>5 DEF NoDocument
  <2>2. UNCHANGED <<mappings, fallbacks>>
    BY <1>5 DEF NoDocument
  <2> QED
    BY <1>3, <2>1, <2>2, CallEnds
<1>6. ASSUME NEW c \in Callers, NormGraphAnswers(c) PROVE MappingInv'
  BY <1>2, <1>3, <1>6 DEF NormGraphAnswers
<1>7. ASSUME NEW c \in Callers, StoreZones(c) PROVE MappingInv'
  BY <1>3, <1>7, CallMoves DEF StoreZones
<1>8. ASSUME NEW c \in Callers, LookForMapping(c) PROVE MappingInv'
  <2>1. CallsShaped' /\ MappedFits' /\ UNCHANGED <<mappings, fallbacks>>
    BY <1>8, LookCases
  <2> QED
    BY <1>3, <2>1
<1>9. ASSUME NEW c \in Callers, Acquire(c) PROVE MappingInv'
  <2>1. CachesFit'
    BY <1>3, <1>9 DEF Acquire
  <2>2. CASE WithMapping(c, Cached(EditionKey(calls[c].edition)))
    BY <2>1, <2>2, CallMapped, CachedFits
  <2>3. CASE Go(c, "ask model")
    BY <2>1, <2>3, CallMoves
  <2> QED
    BY <1>9, <2>2, <2>3 DEF Acquire, Recheck
<1>10. ASSUME NEW c \in Callers, NEW replies, ModelTells(c, replies) PROVE MappingInv'
  <2>1. CallsShaped' /\ MappedFits'
    BY <1>10, TellsStores, ToldFits, CallMapped
  <2>2. PICK m : m = ToldMapping(c, replies)
    OBVIOUS
  <2>3. OfEdition(EditionKey(calls[c].edition), m) /\ m.by # "none"
    BY <2>2, ToldFits
  <2>4. \/ /\ DOMAIN mappings' = DOMAIN mappings \cup {EditionKey(calls[c].edition)} /\ fallbacks' = fallbacks
           /\ \A e \in DOMAIN mappings' :
                 mappings'[e] = IF e = EditionKey(calls[c].edition) THEN m ELSE mappings[e]
        \/ /\ DOMAIN fallbacks' = DOMAIN fallbacks \cup {EditionKey(calls[c].edition)} /\ mappings' = mappings
           /\ \A e \in DOMAIN fallbacks' :
                 fallbacks'[e] = IF e = EditionKey(calls[c].edition) THEN m ELSE fallbacks[e]
    BY ZenonT(40), <1>10, <2>2, TellsStores
  <2>5. CachesFit'
    BY <2>3, <2>4 DEF CachesFit, OfEdition
  <2> QED
    BY <2>1, <2>5
<1>11. ASSUME NEW c \in Callers, ModelBreaks(c) PROVE MappingInv'
  <2>1. End(c, <<500>>) /\ UNCHANGED <<mappings, fallbacks>>
    BY <1>11 DEF ModelBreaks
  <2> QED
    BY <1>3, <2>1, CallEnds
<1>12. ASSUME NEW c \in Callers, AnswerType(c) PROVE MappingInv'
  BY <1>3, <1>12, CallEnds DEF AnswerType
<1>13. CASE ReadAnew
  BY <1>13 DEF ReadAnew, CallsShaped, CachesFit, MappedFits
<1>14. CASE Expire
  <2>1. calls' = calls /\ (mappings' = mappings \/ mappings' = <<>>)
        /\ (fallbacks' = fallbacks \/ fallbacks' = <<>>)
    BY <1>14 DEF Expire
  <2> QED
    BY <2>1 DEF CallsShaped, CachesFit, MappedFits
<1> QED
  BY <1>1, <1>4, <1>5, <1>6, <1>7, <1>8, <1>9, <1>10, <1>11, <1>12, <1>13, <1>14 DEF RegStep

LEMMA RegInits == Init => \E requests : RegInit(requests)
BY DEF Init

LEMMA MappingInvInit == Init => MappingInv
<1> SUFFICES ASSUME NEW requests, RegInit(requests) PROVE MappingInv
  BY RegInits
<1>1. /\ DOMAIN calls = Callers /\ mappings = <<>> /\ fallbacks = <<>>
      /\ \A c \in Callers : CallFields(calls[c]) /\ calls[c].at = "start"
  BY DEF RegInit, CallFields
<1> QED
  BY <1>1 DEF MappingInv, CallsShaped, CachesFit, MappedFits

(* Every zone a mapping names is among the zones the request is checked       *)
(* against, however often the document is read anew and whichever cache entry *)
(* runs out first.                                                            *)
THEOREM MappingsFitZones == Spec => []MappingFitsZones
<1>1. MappingInv => MappingFitsZones
  BY KeyCodes DEF MappingInv, MappedFits, MappingFitsZones, OfEdition, ZonesOf
<1> QED
  BY <1>1, MappingInvInit, MappingInvStep, PTL DEF Spec

HasMapping(e) == e \in DOMAIN mappings \cup DOMAIN fallbacks

Asks(c, e) == calls[c].at = "ask model" /\ EditionKey(calls[c].edition) = e

Queues(c, e) == calls[c].at \in {"wait", "ask model"} /\ EditionKey(calls[c].edition) = e

LocksShaped ==
    /\ locks \in Seq(Callers \cup {Free})
    /\ \A k \in DOMAIN lockOf : lockOf[k] \in 1..Len(locks)
    /\ \A c \in Callers : calls[c].at \in {"wait", "ask model"} => calls[c].lock \in 1..Len(locks)
    /\ \A c \in Callers : calls[c].at = "ask model" => locks[calls[c].lock] = c

CountsShaped ==
    /\ expiries \in Nat /\ failures \in Nat
    /\ DOMAIN questions = Keys /\ \A e \in Keys : questions[e] \in Nat

(* An edition without a mapping has one lock, which its requests queue for;  *)
(* one with a mapping is not asked about.                                    *)
QueueFits(e) ==
    IF HasMapping(e)
    THEN (\A c \in Callers : ~Asks(c, e)) /\ questions[e] <= 1 + failures
    ELSE /\ \A c \in Callers : Queues(c, e) => e \in DOMAIN lockOf /\ calls[c].lock = lockOf[e]
         /\ questions[e] <= 1 + failures
         /\ (\A c \in Callers : ~Asks(c, e)) => questions[e] <= failures

AskInv ==
    /\ MappingInv /\ LocksShaped /\ CountsShaped
    /\ expiries = 0 => \A e \in Keys : QueueFits(e)

LEMMA CountGrows ==
  ASSUME NEW a \in Nat, NEW b, b = a \/ b = a + 1, NEW q \in Nat
  PROVE  (q <= a => q <= b) /\ (q <= 1 + a => q <= 1 + b)
OBVIOUS

LEMMA Elsewhere ==
  ASSUME NEW at, at \in {"start", "ask zones", "got zones", "zones", "mapped", "done"}
  PROVE  at \notin {"wait", "ask model"}
OBVIOUS

LEMMA OneMoreIsNat ==
  ASSUME NEW a \in Nat
  PROVE  a + 1 \in Nat
OBVIOUS

LEMMA OneMore ==
  ASSUME NEW a \in Nat, NEW b, b = a + 1, NEW q \in Nat, q <= 1 + a
  PROVE  q <= b /\ q <= 1 + b
OBVIOUS

(* A request that is in no queue, before and after. *)
LEMMA QueuesStay ==
  ASSUME AskInv, NEW c \in Callers,
         calls[c].at \notin {"wait", "ask model"}, calls'[c].at \notin {"wait", "ask model"},
         \A d \in Callers \ {c} : calls'[d] = calls[d],
         UNCHANGED <<mappings, fallbacks, lockOf, locks, questions, expiries>>,
         failures' \in {failures, failures + 1}, MappingInv'
  PROVE  AskInv'
<1> USE DEF AskInv
<1>1. LocksShaped'
  BY DEF LocksShaped
<1>0. failures \in Nat /\ failures' \in Nat
  <2>1. failures \in Nat
    BY DEF CountsShaped
  <2> QED
    BY <2>1, OneMoreIsNat
<1>2. CountsShaped'
  BY <1>0 DEF CountsShaped
<1>3. ASSUME expiries = 0, NEW e \in Keys PROVE QueueFits(e)'
  <2>1. QueueFits(e) /\ (HasMapping(e)' <=> HasMapping(e))
    BY <1>3 DEF HasMapping
  <2>2. \A d \in Callers : /\ Asks(d, e)' <=> Asks(d, e)
                           /\ Queues(d, e)' => Queues(d, e) /\ calls'[d].lock = calls[d].lock
    BY DEF Asks, Queues
  <2>3. /\ questions'[e] \in Nat /\ questions'[e] = questions[e]
        /\ questions[e] <= failures => questions[e] <= failures'
        /\ questions[e] <= 1 + failures => questions[e] <= 1 + failures'
    <3>1. PICK q : q = questions[e]
      OBVIOUS
    <3>2. q \in Nat /\ questions'[e] = q
      BY <3>1 DEF CountsShaped
    <3> HIDE DEF AskInv
    <3>3. (q <= failures => q <= failures') /\ (q <= 1 + failures => q <= 1 + failures')
      <4>1. PICK a, b : a = failures /\ b = failures'
        OBVIOUS
      <4>2. a \in Nat /\ (b = a \/ b = a + 1)
        BY <1>0, <4>1
      <4>3. (q <= a => q <= b) /\ (q <= 1 + a => q <= 1 + b)
        BY ZenonT(20), <3>2, <4>2, CountGrows
      <4> QED
        BY <4>1, <4>3
    <3> QED
      BY <3>1, <3>2, <3>3
  <2>4. CASE HasMapping(e)
    BY <2>1, <2>2, <2>3, <2>4 DEF QueueFits
  <2>5. CASE ~HasMapping(e)
    <3>1. \A d \in Callers : Queues(d, e)' => e \in DOMAIN lockOf' /\ calls'[d].lock = lockOf'[e]
      BY <2>1, <2>2, <2>5 DEF QueueFits
    <3>2. questions'[e] <= 1 + failures'
          /\ ((\A d \in Callers : ~Asks(d, e)') => questions'[e] <= failures')
      BY <2>1, <2>2, <2>3, <2>5 DEF QueueFits
    <3> QED
      BY <2>1, <2>5, <3>1, <3>2 DEF QueueFits
  <2> QED
    BY <2>4, <2>5
<1> QED
  BY <1>1, <1>2, <1>3

(* The parts of QueueFits that a step has to keep, one by one. *)
LEMMA QueueParts ==
  ASSUME NEW e
  PROVE  /\ QueueFits(e) <=>
               /\ HasMapping(e) => \A c \in Callers : ~Asks(c, e)
               /\ questions[e] <= 1 + failures
               /\ ~HasMapping(e) => \A c \in Callers : Queues(c, e) =>
                                    e \in DOMAIN lockOf /\ calls[c].lock = lockOf[e]
               /\ ~HasMapping(e) => ((\A c \in Callers : ~Asks(c, e)) => questions[e] <= failures)
         /\ QueueFits(e)' <=>
               /\ HasMapping(e)' => \A c \in Callers : ~Asks(c, e)'
               /\ questions'[e] <= 1 + failures'
               /\ ~HasMapping(e)' => \A c \in Callers : Queues(c, e)' =>
                                    e \in DOMAIN lockOf' /\ calls'[c].lock = lockOf'[e]
               /\ ~HasMapping(e)' => ((\A c \in Callers : ~Asks(c, e)') => questions'[e] <= failures')
BY DEF QueueFits

LEMMA AppendKeeps ==
  ASSUME NEW S, NEW s \in Seq(S), NEW x \in S
  PROVE  /\ Append(s, x) \in Seq(S) /\ Len(s) \in Nat /\ Len(Append(s, x)) = Len(s) + 1
         /\ \A i \in 1..Len(s) : i \in 1..(Len(s) + 1) /\ Append(s, x)[i] = s[i]
         /\ Len(s) + 1 \in 1..(Len(s) + 1)
OBVIOUS

LEMMA LookKeeps ==
  ASSUME AskInv, NEW c \in Callers, LookForMapping(c), MappingInv'
  PROVE  AskInv'
<1> USE DEF AskInv
<1>1. /\ calls[c].at = "zones"
      /\ \A d \in Callers \ {c} : calls'[d] = calls[d]
      /\ UNCHANGED <<mappings, fallbacks, questions, expiries, failures>>
  BY LookCases DEF MappingInv
<1>2. CASE calls'[c].at \in {"done", "mapped"} /\ UNCHANGED <<lockOf, locks>>
  BY <1>1, <1>2, QueuesStay
<1>3. CountsShaped'
  BY <1>1 DEF CountsShaped
<1>4. ASSUME NEW lock,
             calls'[c].at = "wait", calls'[c].edition = calls[c].edition, calls'[c].lock = lock,
             LocksShaped',
             EditionKey(calls[c].edition) \in DOMAIN lockOf' /\ lockOf'[EditionKey(calls[c].edition)] = lock,
             \A k \in DOMAIN lockOf : k \in DOMAIN lockOf' /\ lockOf'[k] = lockOf[k]
      PROVE  AskInv'
  <2>1. ASSUME expiries = 0, NEW e \in Keys PROVE QueueFits(e)'
    <3>1. QueueFits(e) /\ (HasMapping(e)' <=> HasMapping(e))
      BY <1>1, <2>1 DEF HasMapping
    <3>2. \A d \in Callers : Asks(d, e)' <=> Asks(d, e)
      BY <1>1, <1>4 DEF Asks
    <3>3. ASSUME ~HasMapping(e), NEW d \in Callers, Queues(d, e)'
          PROVE  e \in DOMAIN lockOf' /\ calls'[d].lock = lockOf'[e]
      <4>1. CASE d = c
        BY <1>4, <3>3, <4>1 DEF Queues
      <4>2. CASE d # c
        <5>1. Queues(d, e) /\ calls'[d] = calls[d]
          BY <1>1, <3>3, <4>2 DEF Queues
        <5>2. e \in DOMAIN lockOf /\ calls[d].lock = lockOf[e]
          BY <3>1, <3>3, <5>1, QueueParts
        <5> QED
          BY <1>4, <5>1, <5>2
      <4> QED
        BY <4>1, <4>2
    <3> QED
      BY <1>1, <3>1, <3>2, <3>3, QueueParts
  <2> QED
    BY <1>1, <1>3, <1>4, <2>1
<1>5. CASE /\ calls'[c].at = "wait" /\ calls'[c].edition = calls[c].edition
           /\ EditionKey(calls[c].edition) \in DOMAIN lockOf
           /\ calls'[c].lock = lockOf[EditionKey(calls[c].edition)] /\ UNCHANGED <<lockOf, locks>>
  <2>1. LocksShaped'
    BY <1>1, <1>5 DEF LocksShaped
  <2> QED
    BY <1>4, <1>5, <2>1
<1>6. CASE /\ calls'[c].at = "wait" /\ calls'[c].edition = calls[c].edition
           /\ EditionKey(calls[c].edition) \notin DOMAIN lockOf
           /\ calls'[c].lock = Len(locks) + 1 /\ locks' = Append(locks, Free)
           /\ DOMAIN lockOf' = DOMAIN lockOf \cup {EditionKey(calls[c].edition)}
           /\ \A k \in DOMAIN lockOf' :
                 lockOf'[k] = IF k = EditionKey(calls[c].edition) THEN Len(locks) + 1 ELSE lockOf[k]
  <2>0. locks \in Seq(Callers \cup {Free}) /\ Free \in Callers \cup {Free}
    BY DEF LocksShaped
  <2>1. /\ locks' \in Seq(Callers \cup {Free}) /\ Len(locks') = Len(locks) + 1 /\ Len(locks) \in Nat
        /\ \A i \in 1..Len(locks) : i \in 1..Len(locks') /\ locks'[i] = locks[i]
        /\ Len(locks) + 1 \in 1..Len(locks')
    <3>1. locks' = Append(locks, Free)
      BY <1>6
    <3> HIDE DEF AskInv
    <3> QED
      BY <2>0, <3>1, AppendKeeps
  <2>2. \A k \in DOMAIN lockOf' : lockOf'[k] \in 1..Len(locks')
    BY <1>6, <2>1 DEF LocksShaped
  <2>3. ASSUME NEW d \in Callers, calls'[d].at \in {"wait", "ask model"}
        PROVE  calls'[d].lock \in 1..Len(locks')
    <3>1. CASE d = c
      BY <1>6, <2>1, <3>1
    <3>2. CASE d # c
      <4>1. calls'[d] = calls[d]
        BY <1>1, <3>2
      <4>2. calls[d].lock \in 1..Len(locks)
        BY <2>3, <4>1 DEF LocksShaped
      <4> QED
        BY <2>1, <4>1, <4>2
    <3> QED
      BY <3>1, <3>2
  <2>4. ASSUME NEW d \in Callers, calls'[d].at = "ask model"
        PROVE  locks'[calls'[d].lock] = d
    <3>1. calls'[d] = calls[d]
      BY <1>1, <1>6, <2>4
    <3>2. calls[d].lock \in 1..Len(locks) /\ locks[calls[d].lock] = d
      BY <2>4, <3>1 DEF LocksShaped
    <3> QED
      BY <2>1, <3>1, <3>2
  <2>5. LocksShaped'
    BY <2>1, <2>2, <2>3, <2>4 DEF LocksShaped
  <2> QED
    BY <1>4, <1>6, <2>5
<1> QED
  BY <1>2, <1>5, <1>6, LookCases DEF MappingInv

(* The one request that asks about an edition without a mapping. *)
LEMMA OneAsks ==
  ASSUME AskInv, expiries = 0, NEW e \in Keys, NEW c \in Callers, Asks(c, e)
  PROVE  ~HasMapping(e) /\ \A d \in Callers : Asks(d, e) => d = c
<1>1. QueueFits(e) /\ LocksShaped
  BY DEF AskInv
<1>2. ~HasMapping(e)
  BY <1>1, QueueParts
<1>3. \A d \in Callers : Asks(d, e) => calls[d].lock = lockOf[e] /\ locks[calls[d].lock] = d
  BY <1>1, <1>2, QueueParts DEF Asks, Queues, LocksShaped
<1> QED
  BY <1>2, <1>3

LEMMA ExceptKeeps ==
  ASSUME NEW S, NEW s \in Seq(S), NEW i \in 1..Len(s), NEW x \in S
  PROVE  /\ [s EXCEPT ![i] = x] \in Seq(S) /\ Len([s EXCEPT ![i] = x]) = Len(s)
         /\ [s EXCEPT ![i] = x][i] = x
         /\ \A j \in 1..Len(s) : j # i => [s EXCEPT ![i] = x][j] = s[j]
OBVIOUS

LEMMA LocksEdited ==
  ASSUME NEW i, NEW x, locks \in Seq(Callers \cup {Free}), i \in 1..Len(locks),
         x \in Callers \cup {Free}, locks' = [locks EXCEPT ![i] = x]
  PROVE  /\ locks' \in Seq(Callers \cup {Free}) /\ Len(locks') = Len(locks) /\ locks'[i] = x
         /\ \A j \in 1..Len(locks) : j # i => locks'[j] = locks[j]
<1> DEFINE S == Callers \cup {Free}
<1>1. locks \in Seq(S) /\ x \in S
  OBVIOUS
<1> HIDE DEF S
<1>2. locks' \in Seq(S) /\ Len(locks') = Len(locks) /\ locks'[i] = x
      /\ \A j \in 1..Len(locks) : j # i => locks'[j] = locks[j]
  BY <1>1, ExceptKeeps
<1> QED
  BY <1>2 DEF S

LEMMA LockFreed ==
  ASSUME LocksShaped, NEW c \in Callers, calls[c].at = "ask model",
         locks' = [locks EXCEPT ![calls[c].lock] = Free]
  PROVE  /\ locks' \in Seq(Callers \cup {Free}) /\ Len(locks') = Len(locks)
         /\ \A i \in 1..Len(locks) : i # calls[c].lock => locks'[i] = locks[i]
<1>1. /\ locks \in Seq(Callers \cup {Free}) /\ calls[c].lock \in 1..Len(locks)
      /\ Free \in Callers \cup {Free}
  BY DEF LocksShaped
<1> QED
  BY <1>1, LocksEdited

LEMMA MappingFound ==
  ASSUME CachesFit, NEW e, HasMapping(e)
  PROVE  Cached(e) # NoMapping
<1>1. Cached(e).by # "none"
  BY DEF CachesFit, Cached, HasMapping
<1>2. NoMapping.by = "none"
  BY DEF NoMapping
<1> QED
  BY <1>1, <1>2

(* A request that leaves the lock it held. *)
LEMMA ReleaseKeeps ==
  ASSUME AskInv, NEW c \in Callers, calls[c].at = "ask model",
         calls'[c].at \in {"done", "mapped"}, \A d \in Callers \ {c} : calls'[d] = calls[d],
         locks' \in Seq(Callers \cup {Free}), Len(locks') = Len(locks),
         \A i \in 1..Len(locks) : i # calls[c].lock => locks'[i] = locks[i],
         \A k \in DOMAIN lockOf' : k \in DOMAIN lockOf /\ lockOf'[k] = lockOf[k]
  PROVE  LocksShaped'
<1>0. LocksShaped
  BY DEF AskInv
<1>1. /\ calls[c].lock \in 1..Len(locks) /\ locks[calls[c].lock] = c
      /\ locks \in Seq(Callers \cup {Free})
  BY <1>0 DEF LocksShaped
<1>2. /\ locks' \in Seq(Callers \cup {Free}) /\ Len(locks') = Len(locks)
      /\ \A i \in 1..Len(locks) : i # calls[c].lock => locks'[i] = locks[i]
  OBVIOUS
<1>3. \A d \in Callers : calls'[d].at \in {"wait", "ask model"} =>
         d # c /\ calls'[d] = calls[d] /\ calls[d].lock \in 1..Len(locks)
  BY <1>0 DEF LocksShaped
<1>4. \A d \in Callers : calls'[d].at = "ask model" => locks'[calls'[d].lock] = d
  <2> SUFFICES ASSUME NEW d \in Callers, calls'[d].at = "ask model"
               PROVE  locks'[calls'[d].lock] = d
    OBVIOUS
  <2>1. d # c /\ calls'[d] = calls[d] /\ calls[d].lock \in 1..Len(locks)
    BY <1>3
  <2>2. locks[calls[d].lock] = d
    BY <1>0, <2>1 DEF LocksShaped
  <2>3. calls[d].lock # calls[c].lock
    BY <1>1, <2>1, <2>2
  <2> QED
    BY <1>2, <2>1, <2>2, <2>3
<1>5. \A k \in DOMAIN lockOf' : lockOf'[k] \in 1..Len(locks')
  BY <1>0, <1>2 DEF LocksShaped
<1> QED
  BY <1>2, <1>3, <1>4, <1>5 DEF LocksShaped

(* A request that holds its lock asks, or finds the mapping after all. *)
LEMMA AcquireKeeps ==
  ASSUME AskInv, NEW c \in Callers, Acquire(c), MappingInv'
  PROVE  AskInv'
<1> DEFINE key == EditionKey(calls[c].edition)
<1>0. MappingInv /\ LocksShaped /\ CountsShaped
  BY DEF AskInv
<1>1. /\ calls[c].at = "wait" /\ locks[calls[c].lock] = Free
      /\ UNCHANGED <<mappings, fallbacks, lockOf, expiries, failures>>
  BY DEF Acquire
<1>2. \A k : HasMapping(k)' <=> HasMapping(k)
  BY <1>1 DEF HasMapping
<1>3. CASE WithMapping(c, Recheck(key)) /\ UNCHANGED <<locks, questions>>
  <2>1. calls'[c].at = "mapped" /\ \A d \in Callers \ {c} : calls'[d] = calls[d]
    BY <1>0, <1>3, CallMapped, CachedFits DEF MappingInv, Recheck
  <2>2. LocksShaped'
    BY <1>0, <1>1, <1>3, <2>1 DEF LocksShaped
  <2>3. CountsShaped'
    BY <1>0, <1>1, <1>3 DEF CountsShaped
  <2>4. ASSUME expiries = 0, NEW e \in Keys PROVE QueueFits(e)'
    <3>1. \A d \in Callers : /\ Asks(d, e)' <=> Asks(d, e)
                             /\ Queues(d, e)' => Queues(d, e) /\ calls'[d].lock = calls[d].lock
      BY <1>1, <2>1 DEF Asks, Queues
    <3>2. QueueFits(e)
      BY <2>4 DEF AskInv
    <3>3. questions'[e] = questions[e] /\ failures' = failures /\ lockOf' = lockOf
      BY <1>1, <1>3
    <3> QED
      BY <1>2, <3>1, <3>2, <3>3, QueueParts
  <2> QED
    BY <1>1, <2>2, <2>3, <2>4 DEF AskInv
<1>4. CASE /\ Recheck(key) = NoMapping
           /\ locks' = [locks EXCEPT ![calls[c].lock] = c]
           /\ questions' = [questions EXCEPT ![key] = @ + 1]
           /\ Go(c, "ask model")
  <2>1. /\ calls'[c].at = "ask model" /\ calls'[c].edition = calls[c].edition
        /\ calls'[c].lock = calls[c].lock
        /\ \A d \in Callers \ {c} : calls'[d] = calls[d]
    BY <1>0, <1>4, CallMoves DEF MappingInv
  <2>2. ~HasMapping(key)
    BY <1>0, <1>4, MappingFound DEF MappingInv, Recheck
  <2>3. /\ locks \in Seq(Callers \cup {Free}) /\ calls[c].lock \in 1..Len(locks)
        /\ \A d \in Callers : calls[d].at = "ask model" => locks[calls[d].lock] = d
        /\ \A d \in Callers : calls[d].at \in {"wait", "ask model"} =>
                                 calls[d].lock \in 1..Len(locks)
    BY <1>0, <1>1 DEF LocksShaped
  <2>4. /\ locks' \in Seq(Callers \cup {Free}) /\ Len(locks') = Len(locks)
        /\ locks'[calls[c].lock] = c
        /\ \A i \in 1..Len(locks) : i # calls[c].lock => locks'[i] = locks[i]
    <3>1. c \in Callers \cup {Free}
      OBVIOUS
    <3> QED
      BY <1>4, <2>3, <3>1, LocksEdited
  <2>5. ASSUME NEW d \in Callers, calls[d].at = "ask model"
        PROVE  d # c /\ calls[d].lock # calls[c].lock
    BY <1>1, <2>3, <2>5, CallersAssumption
  <2>6. LocksShaped'
    <3>1. \A d \in Callers : calls'[d].at \in {"wait", "ask model"} => calls'[d].lock \in 1..Len(locks')
      BY <2>1, <2>3, <2>4
    <3>2. ASSUME NEW d \in Callers, calls'[d].at = "ask model" PROVE locks'[calls'[d].lock] = d
      <4>1. CASE d = c
        BY <2>1, <2>4, <4>1
      <4>2. CASE d # c
        <5>1. calls'[d] = calls[d] /\ calls[d].at = "ask model"
          BY <2>1, <3>2, <4>2
        <5>2. /\ calls[d].lock \in 1..Len(locks) /\ locks[calls[d].lock] = d
              /\ calls[d].lock # calls[c].lock
          BY <2>3, <2>5, <5>1
        <5> QED
          BY <2>4, <5>1, <5>2
      <4> QED
        BY <4>1, <4>2
    <3>3. \A k \in DOMAIN lockOf' : lockOf'[k] \in 1..Len(locks')
      BY <1>0, <1>1, <2>4 DEF LocksShaped
    <3> QED
      BY <2>4, <3>1, <3>2, <3>3 DEF LocksShaped
  <2>7. /\ DOMAIN questions' = DOMAIN questions
        /\ \A e \in DOMAIN questions : questions'[e] = IF e = key THEN questions[e] + 1 ELSE questions[e]
    BY <1>4
  <2>8. CountsShaped'
    BY <1>0, <1>1, <2>7 DEF CountsShaped
  <2>9. ASSUME expiries = 0, NEW e \in Keys PROVE QueueFits(e)'
    <3>1. QueueFits(e) /\ questions[e] \in Nat /\ failures \in Nat /\ e \in DOMAIN questions
      BY <1>0, <2>9 DEF AskInv, CountsShaped
    <3>2. \A d \in Callers : Queues(d, e)' => Queues(d, e) /\ calls'[d].lock = calls[d].lock
      BY <1>1, <2>1 DEF Queues
    <3>3. CASE e = key
      <4>1. \A d \in Callers : Asks(d, e) => calls[d].lock = calls[c].lock
        <5>1. Queues(c, e) /\ ~HasMapping(e)
          BY <1>1, <2>2, <3>3 DEF Queues
        <5>2. \A d \in Callers : Queues(d, e) => calls[d].lock = lockOf[e]
          BY <3>1, <5>1, QueueParts
        <5> QED
          BY <5>1, <5>2 DEF Asks, Queues
      <4>2. \A d \in Callers : ~Asks(d, e)
        BY <2>5, <4>1 DEF Asks
      <4>3. questions[e] <= failures
        BY <2>2, <3>1, <3>3, <4>2, QueueParts
      <4>4. questions'[e] = questions[e] + 1 /\ failures' = failures
        BY <1>1, <2>7, <3>1, <3>3
      <4>5. questions'[e] <= 1 + failures'
        BY <3>1, <4>3, <4>4
      <4>6. Asks(c, e)'
        BY <2>1, <3>3 DEF Asks
      <4>7. \A d \in Callers : Queues(d, e)' => e \in DOMAIN lockOf' /\ calls'[d].lock = lockOf'[e]
        BY <1>1, <2>2, <3>1, <3>2, <3>3, QueueParts
      <4> QED
        BY <1>2, <2>2, <3>3, <4>5, <4>6, <4>7, QueueParts
    <3>4. CASE e # key
      <4>1. \A d \in Callers : Asks(d, e)' <=> Asks(d, e)
        BY <1>1, <2>1, <3>4 DEF Asks
      <4>2. questions'[e] = questions[e] /\ failures' = failures /\ lockOf' = lockOf
        BY <1>1, <2>7, <3>1, <3>4
      <4> QED
        BY <1>2, <3>1, <3>2, <4>1, <4>2, QueueParts
    <3> QED
      BY <3>3, <3>4
  <2> QED
    BY <1>1, <2>6, <2>8, <2>9 DEF AskInv
<1> QED
  BY <1>3, <1>4 DEF Acquire

(* The answer is stored before the lock is free: whoever waits finds it. *)
LEMMA TellKeeps ==
  ASSUME AskInv, NEW c \in Callers, NEW replies, ModelTells(c, replies), MappingInv'
  PROVE  AskInv'
<1> DEFINE key == EditionKey(calls[c].edition)
<1>0. MappingInv /\ LocksShaped /\ CountsShaped
  BY DEF AskInv
<1>1. /\ calls[c].at = "ask model"
      /\ UNCHANGED <<questions, expiries, failures>>
      /\ locks' = [locks EXCEPT ![calls[c].lock] = Free]
      /\ \A k \in DOMAIN lockOf' : k \in DOMAIN lockOf /\ lockOf'[k] = lockOf[k]
      /\ \A k \in DOMAIN lockOf : k # key => k \in DOMAIN lockOf' /\ lockOf'[k] = lockOf[k]
  BY DEF ModelTells
<1>2. calls'[c].at = "mapped" /\ \A d \in Callers \ {c} : calls'[d] = calls[d]
  BY <1>0, TellsStores, ToldFits, CallMapped DEF MappingInv
<1>3. \A k : HasMapping(k)' <=> HasMapping(k) \/ k = key
  <2>1. DOMAIN mappings' \cup DOMAIN fallbacks' = DOMAIN mappings \cup DOMAIN fallbacks \cup {key}
    <3>1. \/ DOMAIN mappings' = DOMAIN mappings \cup {key} /\ fallbacks' = fallbacks
          \/ DOMAIN fallbacks' = DOMAIN fallbacks \cup {key} /\ mappings' = mappings
      BY TellsStores
    <3> QED
      BY <3>1
  <2> QED
    BY <2>1 DEF HasMapping
<1>8. /\ locks' \in Seq(Callers \cup {Free}) /\ Len(locks') = Len(locks)
      /\ \A i \in 1..Len(locks) : i # calls[c].lock => locks'[i] = locks[i]
  BY <1>0, <1>1, LockFreed
<1>4. LocksShaped'
  BY <1>1, <1>2, <1>8, ReleaseKeeps
<1>5. CountsShaped'
  BY <1>0, <1>1 DEF CountsShaped
<1>6. ASSUME expiries = 0, NEW e \in Keys PROVE QueueFits(e)'
  <2>1. QueueFits(e)
    BY <1>6 DEF AskInv
  <2>2. questions'[e] = questions[e] /\ failures' = failures
    BY <1>1
  <2>3. \A d \in Callers : /\ Asks(d, e)' <=> Asks(d, e) /\ d # c
                           /\ Queues(d, e)' => Queues(d, e) /\ calls'[d].lock = calls[d].lock
    BY <1>2 DEF Asks, Queues
  <2>4. CASE e = key
    <3>1. Asks(c, e)
      BY <1>1, <2>4 DEF Asks
    <3>2. \A d \in Callers : ~Asks(d, e)'
      BY <1>6, <2>3, <3>1, OneAsks
    <3> QED
      BY <1>3, <2>1, <2>2, <2>4, <3>2, QueueParts
  <2>5. CASE e # key
    <3>1. \A d \in Callers : Asks(d, e)' <=> Asks(d, e)
      BY <1>1, <2>3, <2>5 DEF Asks
    <3> QED
      BY <1>1, <1>3, <2>1, <2>2, <2>3, <2>5, <3>1, QueueParts
  <2> QED
    BY <2>4, <2>5
<1> QED
  BY <1>1, <1>4, <1>5, <1>6 DEF AskInv

(* A call that breaks may be made again. *)
LEMMA BreakKeeps ==
  ASSUME AskInv, NEW c \in Callers, ModelBreaks(c), MappingInv'
  PROVE  AskInv'
<1>0. MappingInv /\ LocksShaped /\ CountsShaped
  BY DEF AskInv
<1>1. /\ calls[c].at = "ask model" /\ failures' = failures + 1
      /\ UNCHANGED <<mappings, fallbacks, lockOf, questions, expiries>>
      /\ locks' = [locks EXCEPT ![calls[c].lock] = Free]
  BY DEF ModelBreaks
<1>2. calls'[c].at = "done" /\ \A d \in Callers \ {c} : calls'[d] = calls[d]
  BY <1>0, CallEnds DEF ModelBreaks, MappingInv
<1>3. \A k : HasMapping(k)' <=> HasMapping(k)
  BY <1>1 DEF HasMapping
<1>8. /\ locks' \in Seq(Callers \cup {Free}) /\ Len(locks') = Len(locks)
      /\ \A i \in 1..Len(locks) : i # calls[c].lock => locks'[i] = locks[i]
  BY <1>0, <1>1, LockFreed
<1>4. LocksShaped'
  BY <1>1, <1>2, <1>8, ReleaseKeeps
<1>5. CountsShaped' /\ failures \in Nat
  <2>1. failures \in Nat
    BY <1>0 DEF CountsShaped
  <2>2. failures' \in Nat
    BY <1>1, <2>1, OneMoreIsNat
  <2> QED
    BY <1>0, <1>1, <2>1, <2>2 DEF CountsShaped
<1>6. ASSUME expiries = 0, NEW e \in Keys PROVE QueueFits(e)'
  <2>1. QueueFits(e) /\ questions[e] \in Nat
    BY <1>0, <1>6 DEF AskInv, CountsShaped
  <2>2. questions'[e] = questions[e] /\ lockOf' = lockOf
    BY <1>1
  <2>3. \A d \in Callers : /\ Asks(d, e)' => Asks(d, e)
                           /\ Queues(d, e)' => Queues(d, e) /\ calls'[d].lock = calls[d].lock
    BY <1>2 DEF Asks, Queues
  <2>4. questions[e] <= 1 + failures
    BY <2>1, QueueParts
  <2>5. questions'[e] <= failures' /\ questions'[e] <= 1 + failures'
    BY <1>1, <1>5, <2>1, <2>2, <2>4, OneMore
  <2> QED
    BY <1>3, <2>1, <2>2, <2>3, <2>5, QueueParts
<1> QED
  BY <1>1, <1>4, <1>5, <1>6 DEF AskInv

(* The steps that touch neither locks nor the model. *)
LEMMA AskInvStays ==
  ASSUME AskInv, MappingInv', UNCHANGED <<calls, lockOf, locks, questions, failures>>,
         \/ UNCHANGED <<mappings, fallbacks, expiries>>
         \/ expiries' = expiries + 1
  PROVE  AskInv'
<1>0. MappingInv /\ LocksShaped /\ CountsShaped
  BY DEF AskInv
<1>1. LocksShaped'
  BY <1>0 DEF LocksShaped
<1>4. CountsShaped'
  <2>1. expiries \in Nat
    BY <1>0 DEF CountsShaped
  <2>2. expiries' \in Nat
    BY <2>1
  <2> QED
    BY <1>0, <2>2 DEF CountsShaped
<1>2. expiries' = 0 => expiries = 0 /\ UNCHANGED <<mappings, fallbacks, expiries>>
  BY <1>0 DEF CountsShaped
<1>3. ASSUME expiries' = 0, NEW e \in Keys PROVE QueueFits(e)'
  <2>1. QueueFits(e)
    BY <1>2, <1>3 DEF AskInv
  <2> QED
    BY <1>2, <1>3, <2>1 DEF QueueFits, HasMapping, Asks, Queues
<1> QED
  BY <1>1, <1>3, <1>4 DEF AskInv

LEMMA AskInvStep == AskInv /\ MappingInv' /\ [Next]_vars => AskInv'
<1> SUFFICES ASSUME AskInv, MappingInv', RegStep \/ UNCHANGED regVars
             PROVE  AskInv'
  BY FlowCases
<1>0. CallsShaped /\ MappedFits
  BY DEF AskInv, MappingInv
<1>1. ASSUME NEW c \in Callers, FindDocument(c) PROVE AskInv'
  <2>1. CASE Go(c, "ask zones")
    <3>1. /\ calls[c].at = "start" /\ calls'[c].at = "ask zones"
          /\ \A d \in Callers \ {c} : calls'[d] = calls[d]
      BY <1>0, <1>1, <2>1, CallMoves DEF FindDocument
    <3> QED
      BY <1>1, <3>1, QueuesStay DEF FindDocument
  <2>2. CASE calls' = [calls EXCEPT ![c].at = "zones", ![c].edition = zonesCache]
    <3>1. calls[c].at = "start" /\ calls'[c].at = "zones" /\ \A d \in Callers \ {c} : calls'[d] = calls[d]
      BY <1>0, <1>1, <2>2 DEF FindDocument, CallsShaped, CallFields
    <3> QED
      BY <1>1, <3>1, QueuesStay DEF FindDocument
  <2> QED
    BY <1>1, <2>1, <2>2 DEF FindDocument
<1>2. ASSUME NEW c \in Callers, NoDocument(c) PROVE AskInv'
  <2>1. /\ calls[c].at \in {"start", "ask zones"} /\ calls'[c].at = "done"
        /\ \A d \in Callers \ {c} : calls'[d] = calls[d]
    <3>1. PICK answer : End(c, answer)
      BY ZenonT(40), <1>2 DEF NoDocument
    <3>2. calls[c].at \in {"start", "ask zones"}
      BY <1>2 DEF NoDocument
    <3> QED
      BY <1>0, <3>1, <3>2, CallEnds
  <2>2. calls[c].at \notin {"wait", "ask model"} /\ calls'[c].at \notin {"wait", "ask model"}
    BY <2>1, Elsewhere
  <2>3. /\ UNCHANGED <<mappings, fallbacks, lockOf, locks, questions, expiries>>
        /\ failures' = failures + 1
    BY <1>2 DEF NoDocument
  <2> QED
    BY <2>1, <2>2, <2>3, QueuesStay
<1>3. ASSUME NEW c \in Callers, NormGraphAnswers(c) PROVE AskInv'
  <2>1. /\ calls[c].at = "ask zones" /\ calls'[c].at = "got zones"
        /\ \A d \in Callers \ {c} : calls'[d] = calls[d]
    BY <1>0, <1>3 DEF NormGraphAnswers, CallsShaped, CallFields
  <2> QED
    BY <1>3, <2>1, QueuesStay DEF NormGraphAnswers
<1>4. ASSUME NEW c \in Callers, StoreZones(c) PROVE AskInv'
  <2>1. /\ calls[c].at = "got zones" /\ calls'[c].at = "zones"
        /\ \A d \in Callers \ {c} : calls'[d] = calls[d]
    BY <1>0, <1>4, CallMoves DEF StoreZones
  <2> QED
    BY <1>4, <2>1, QueuesStay DEF StoreZones
<1>5. ASSUME NEW c \in Callers, AnswerType(c) PROVE AskInv'
  BY <1>0, <1>5, CallEnds, QueuesStay DEF AnswerType
<1>6. CASE ReadAnew \/ UNCHANGED regVars
  BY <1>6, AskInvStays DEF ReadAnew, regVars
<1>7. CASE Expire
  BY <1>7, AskInvStays DEF Expire
<1> QED
  BY <1>1, <1>2, <1>3, <1>4, <1>5, <1>6, <1>7, LookKeeps, AcquireKeeps, TellKeeps, BreakKeeps
     DEF RegStep

LEMMA AskInvInit == Init => AskInv
<1> SUFFICES ASSUME NEW requests, RegInit(requests), MappingInv PROVE AskInv
  BY RegInits, MappingInvInit
<1>1. /\ mappings = <<>> /\ fallbacks = <<>> /\ lockOf = <<>> /\ locks = <<>>
      /\ expiries = 0 /\ failures = 0
      /\ DOMAIN questions = Keys /\ \A e \in Keys : questions[e] = 0
      /\ \A c \in Callers : calls[c].at = "start"
  BY DEF RegInit
<1>2. LocksShaped
  <2>1. locks \in Seq(Callers \cup {Free}) /\ DOMAIN lockOf = {}
    BY <1>1
  <2> QED
    BY <1>1, <2>1 DEF LocksShaped
<1>3. CountsShaped
  BY <1>1 DEF CountsShaped
<1>4. ASSUME NEW e \in Keys PROVE QueueFits(e)
  <2>1. \A c \in Callers : ~Queues(c, e)
    BY <1>1 DEF Queues
  <2>2. questions[e] <= 1 + failures /\ questions[e] <= failures
    BY <1>1
  <2>3. DOMAIN mappings = {} /\ DOMAIN fallbacks = {}
    BY <1>1
  <2>4. ~HasMapping(e)
    BY <2>3 DEF HasMapping
  <2> QED
    BY <2>1, <2>2, <2>4, QueueParts
<1> QED
  BY <1>2, <1>3, <1>4 DEF AskInv

(* However many requests come together, the model is asked once about an      *)
(* edition and again only after a call has broken, until a cache entry runs   *)
(* out: one request at a time holds the lock its edition has, and the answer  *)
(* is stored before the lock is given back.                                   *)
THEOREM ModelIsAskedOnce == Spec => []ModelAskedOnce
<1>1. AskInv => ModelAskedOnce
  BY QueueParts DEF AskInv, ModelAskedOnce
<1>2. AskInv => MappingInv
  BY DEF AskInv
<1> QED
  BY <1>1, <1>2, AskInvInit, AskInvStep, MappingInvStep, PTL DEF Spec
-----------------------------------------------------------------------------
(* The check of parcels.                                                    *)

FlowInv ==
    /\ CheckInv
    /\ branch = "file" => request \in Requests
    /\ branch = "file" /\ phase \in {"submit", "queued"} => stage = "none"

LEMMA PipelineCases ==
  ASSUME [Next]_vars
  PROVE  /\ branch' = branch /\ request' = request
         /\ \/ StartPipeline
            \/ CheckStep /\ UNCHANGED <<input, phase>>
            \/ /\ UNCHANGED <<input, checkVars>>
               /\ branch = "file" /\ phase' \in {"submit", "queued"} => phase \in {"submit", "queued"}
<1> USE DEF flowVars, Others
<1>1. CASE Submit
  BY <1>1 DEF Submit
<1>2. CASE StartPipeline
  BY <1>2 DEF StartPipeline
<1>3. CASE RunPipeline \/ EndPipeline
  BY <1>3 DEF RunPipeline, EndPipeline
<1>4. CASE RunBuildings \/ RunPlacement
  BY <1>4 DEF RunBuildings, RunPlacement
<1>5. CASE ScenarioMoves
  BY <1>5 DEF ScenarioMoves
<1>6. ASSUME NEW c \in Clients, RunScenario(c)
      PROVE  /\ UNCHANGED <<branch, request, input, checkVars>>
             /\ branch # "file"
  BY <1>6 DEF RunScenario
<1>7. CASE RegulationMoves
  BY <1>7 DEF RegulationMoves
<1>8. CASE Done \/ UNCHANGED vars
  BY <1>8 DEF Done, vars
<1> QED
  BY <1>1, <1>2, <1>3, <1>4, <1>5, <1>6, <1>7, <1>8 DEF Next

LEMMA FlowInvInit == Init => FlowInv
<1> SUFFICES ASSUME Init PROVE FlowInv
  OBVIOUS
<1>1. stage = "none" /\ CheckInit /\ (branch = "file" => request \in Requests)
  BY DEF Init
<1>2. NotBegun
  BY <1>1 DEF CheckInit, NotBegun, AllIdle
<1>3. JobsFit
  BY <1>2 DEF NotBegun, AllIdle, JobsFit, JobFits
<1>4. AnswersFit /\ RowsFit /\ RefusalMatchesReference
  BY <1>2 DEF NotBegun, AnswersFit, RowsFit, RefusalMatchesReference
<1> QED
  BY <1>1, <1>2, <1>3, <1>4 DEF FlowInv, CheckInv

LEMMA FlowInvStep == FlowInv /\ [Next]_vars => FlowInv'
<1> SUFFICES ASSUME FlowInv, [Next]_vars PROVE FlowInv'
  OBVIOUS
<1>1. branch' = branch /\ request' = request
  BY PipelineCases
<1>2. CASE StartPipeline
  <2>1. /\ branch = "file" /\ phase = "queued" /\ phase' = "running" /\ stage' = "waiting"
        /\ input' = PipelineInput(request, row.labels)
        /\ UNCHANGED <<queue, busy, rows, answers, features>>
    BY <1>2 DEF StartPipeline, Runs
  <2>2. NotBegun /\ request \in Requests
    BY <2>1 DEF FlowInv, CheckInv
  <2>3. NotBegun'
    BY <2>1, <2>2 DEF NotBegun, AllIdle
  <2>4. InputFits'
    <3>1. input'.parcels = request.parcels
      BY <2>1 DEF PipelineInput
    <3> QED
      BY <2>2, <3>1, RequestsAssumption DEF InputFits
  <2>5. JobsFit' /\ AnswersFit' /\ RowsFit' /\ RefusalMatchesReference'
    BY <2>3 DEF NotBegun, AllIdle, JobsFit, JobFits, AnswersFit, RowsFit, RefusalMatchesReference
  <2> QED
    BY <1>1, <2>1, <2>2, <2>3, <2>4, <2>5 DEF FlowInv, CheckInv
<1>3. CASE CheckStep /\ UNCHANGED <<input, phase>>
  <2>1. CheckInv'
    BY <1>3, CheckStepKeeps DEF FlowInv
  <2>2. stage # "none"
    BY <1>3 DEF CheckStep, Load, Break, AllDecided, Take, Look, LookUp, Decides, AskFails, Crash,
                Answer, RankedBy, RerankFails, Rerank, WriteResult
  <2> QED
    BY <1>1, <1>3, <2>1, <2>2 DEF FlowInv
<1>4. CASE /\ UNCHANGED <<input, checkVars>>
           /\ branch = "file" /\ phase' \in {"submit", "queued"} => phase \in {"submit", "queued"}
  <2>1. UNCHANGED <<stage, sites, queue, busy, rows, answers, ranks, heard, features>>
    BY <1>4 DEF checkVars
  <2>2. CheckInv'
    BY <1>4, <2>1, IdleStepKeeps DEF FlowInv
  <2> QED
    BY <1>1, <1>4, <2>1, <2>2 DEF FlowInv
<1> QED
  BY <1>2, <1>3, <1>4, PipelineCases

LEMMA FlowInvHolds == Spec => []FlowInv
BY FlowInvInit, FlowInvStep, PTL DEF Spec

(* Parcels that ask the same get the same, however many workers ask at once,  *)
(* whatever a model answers each of them, and whichever of them fail          *)
(* (pipeline_impl.py _process_row and its two caches).                        *)
THEOREM SameAnswers == Spec => []SameQuestionSameAnswer
<1>1. FlowInv => SameQuestionSameAnswer
  <2>1. CASE stage = "none"
    BY <2>1 DEF FlowInv, CheckInv, NotBegun, SameQuestionSameAnswer
  <2>2. CASE stage # "none"
    BY <2>2, SameQuestions DEF FlowInv, CheckInv
  <2> QED
    BY <2>1, <2>2
<1> QED
  BY <1>1, FlowInvHolds, PTL

(* A parcel is refused because a model said so of its wording in its zone, or  *)
(* because the comparison by meaning found nothing and no model is asked; no   *)
(* failure ever refuses (LLM_CHECK_FAILED_REASON,                              *)
(* CLASSIFICATION_FAILED_REASON).                                              *)
THEOREM EvidenceOfRefusals == Spec => []RefusedOnEvidence
<1>1. FlowInv => RefusedOnEvidence
  BY RefusedHaveEvidence DEF FlowInv, CheckInv
<1> QED
  BY <1>1, FlowInvHolds, PTL

(* What stays refused has no candidate that its own template permits as a main *)
(* or auxiliary use, whatever the codes of the zones and templates are          *)
(* (resolve_zone_reference against mark_manual_review_for_allowed_top_candidates). *)
THEOREM RefusalsMatchTemplates == Spec => []RefusalMatchesReference
<1>1. FlowInv => RefusalMatchesReference
  BY DEF FlowInv, CheckInv
<1> QED
  BY <1>1, FlowInvHolds, PTL
-----------------------------------------------------------------------------
(* Scenarios with a cadastre.                                              *)

(* What is allowed of a finished scenario is what its land says yes to. *)
LandAgrees ==
    branch = "scenario" /\ IsChecked /\ row.made.ask.cadastre # <<>> =>
        /\ DOMAIN result = DOMAIN ObjectsOf(row.made)
        /\ \A i \in DOMAIN result : Allowed(result[i].verdict) =>
              LandFit(ObjectsOf(row.made)[i], ScenarioUse(ObjectsOf(row.made)[i]).code,
                      row.made.ask.cadastre) = "yes"

LEMMA LandFitSays ==
  ASSUME NEW object, NEW code, NEW land
  PROVE  /\ LandFit(object, code, land) \in {"no", "unknown", "yes"}
         /\ LandFit(object, code, land) = "yes" =>
               /\ \A cell \in object.cells : \E k \in DOMAIN land : cell \in land[k].cells
               /\ \A k \in DOMAIN land :
                     object.cells \cap land[k].cells # {} => Permits(code, land[k].codes)
<1> DEFINE checks == {ParcelCheckOf(code, land[i]) : i \in Under(object, land)}
           partial == ~(object.cells \subseteq UNION {land[i].cells : i \in Under(object, land)})
<1>1. LandFit(object, code, land) =
         IF checks = {} THEN "unknown"
         ELSE IF "no" \in checks THEN "no"
         ELSE IF partial \/ "unknown" \in checks THEN "unknown" ELSE "yes"
  BY DEF LandFit
<1>2. ASSUME LandFit(object, code, land) = "yes"
      PROVE  "no" \notin checks /\ "unknown" \notin checks /\ ~partial
  <2> HIDE DEF checks, partial
  <2> QED
    BY <1>1, <1>2
<1>3. LandFit(object, code, land) \in {"no", "unknown", "yes"}
  <2> HIDE DEF checks, partial
  <2> QED
    BY <1>1
<1>4. ASSUME LandFit(object, code, land) = "yes", NEW cell \in object.cells
      PROVE  \E k \in DOMAIN land : cell \in land[k].cells
  BY <1>2, <1>4 DEF Under
<1>5. ASSUME LandFit(object, code, land) = "yes", NEW k \in DOMAIN land,
             object.cells \cap land[k].cells # {}
      PROVE  Permits(code, land[k].codes)
  <2>1. k \in Under(object, land)
    BY <1>5 DEF Under
  <2>2. ParcelCheckOf(code, land[k]) \in checks
    BY <2>1
  <2>3. ParcelCheckOf(code, land[k]) # "no" /\ ParcelCheckOf(code, land[k]) # "unknown"
    BY <1>2, <1>5, <2>2
  <2> QED
    BY <2>3 DEF ParcelCheckOf
<1> QED
  BY <1>3, <1>4, <1>5

(* Neither what the zone says nor an undetermined use gets past the land. *)
LEMMA LandDecides ==
  ASSUME NEW object, NEW zones, NEW mapping, NEW land, land # <<>>,
         Allowed(ScenarioRow(object, zones, mapping, land).verdict)
  PROVE  LandFit(object, ScenarioUse(object).code, land) = "yes"
<1> DEFINE use  == ScenarioUse(object)
           fit  == FitVerdict(use.code, ZoneOf(object, zones), mapping)
           open == /\ fit = "unclear" /\ object.service = NoName /\ object.type # NoName
                   /\ Names[object.type].id = NonResidential
           told == IF open THEN "vri_undetermined" ELSE fit
           says == LandFit(object, use.code, land)
<1>1. ScenarioRow(object, zones, mapping, land).verdict = WithLand(told, says)
  BY DEF ScenarioRow, Shown
<1>2. says \in {"no", "unknown", "yes"}
  BY LandFitSays
<1> HIDE DEF told, says
<1>3. says = "yes"
  BY <1>1, <1>2 DEF WithLand, Allowed
<1> QED
  BY <1>3 DEF says

(* Only a placement has a code, and a task that was served is its key's. *)
LEMMA ServedCode ==
  ASSUME ScenarioInv, NEW c \in Clients, Served(c), ~IsPlacing(c)
  PROVE  Answers(c).code = NoVri
<1>1. branch = "scenario" /\ ClientFits(clients[c], version, DOMAIN kept)
  BY DEF ScenarioInv, Served
<1>2. clients[c].code = NoCodeFound
  BY <1>1 DEF ClientFits, IsPlacing, AskOf
<1>3. Answers(c).code = clients[c].code
  BY ScenarioInvServes DEF ServedFits
<1> QED
  BY <1>2, <1>3 DEF NoCodeFound, NoVri

(* How the row somebody was served is run. *)
LEMMA ScenarioRuns ==
  ASSUME NEW c \in Clients, RunScenario(c)
  PROVE  /\ branch = "scenario" /\ Served(c)
         /\ row' = [made |-> Answers(c), labels |-> ScenarioLabels(Answers(c))]
         /\ task' = View(IF IsPlacing(c) THEN "scenario_placement" ELSE "scenario",
                         ScenarioSlots(Answers(c)), Answers(c).code)
         /\ \/ RunnerOf(ScenarioRowMade(Answers(c)), Deterministic) = "scenario"
            \/ /\ RunnerOf(ScenarioRowMade(Answers(c)), Deterministic) = "placement"
               /\ \E parcels, objects :
                     PlacedFrom(Answers(c).code, Contents[Answers(c).zones].zones, parcels, objects,
                                ScenarioLabels(Answers(c)), {})
            \/ phase' = "left to the pipeline"
<1>1. PICK made : made = Answers(c)
  OBVIOUS
<1>2. PICK runner : runner = RunnerOf(ScenarioRowMade(made), Deterministic)
  OBVIOUS
<1>3. /\ branch = "scenario" /\ Served(c)
      /\ row' = [made |-> made, labels |-> ScenarioLabels(made)]
      /\ task' = View(IF IsPlacing(c) THEN "scenario_placement" ELSE "scenario",
                      ScenarioSlots(made), made.code)
  BY <1>1 DEF RunScenario, RowOf
<1>4. \/ runner = "scenario"
      \/ /\ runner = "placement"
         /\ PlacedFrom(made.code, Contents[made.zones].zones,
                       IF made.ask.cadastre # <<>> THEN made.ask.cadastre ELSE ObjectsOf(made),
                       [given |-> made.ask.cadastre # <<>>, layer |-> ObjectsOf(made)],
                       ScenarioLabels(made), {})
      \/ phase' = "left to the pipeline"
  BY <1>1, <1>2 DEF RunScenario, RowOf
<1> QED
  BY <1>1, <1>2, <1>3, <1>4

LEMMA LandStep ==
  ASSUME ScenarioInv, LandAgrees, NEW c \in Clients, RunScenario(c)
  PROVE  LandAgrees'
<1> DEFINE made == Answers(c)
<1>1. /\ Served(c) /\ row' = [made |-> made, labels |-> ScenarioLabels(made)]
      /\ task' = View(IF IsPlacing(c) THEN "scenario_placement" ELSE "scenario",
                      ScenarioSlots(made), made.code)
  BY DEF RunScenario, RowOf
<1>2. row'.made = made
  BY <1>1
<1>3. CASE RunnerOf(ScenarioRowMade(made), Deterministic) = "scenario"
  <2>1. PICK zones, mapping :
          result' = [i \in DOMAIN ObjectsOf(made) |->
                        ScenarioRow(ObjectsOf(made)[i], zones, mapping, made.ask.cadastre)]
    BY <1>3 DEF RunScenario, RowOf
  <2> HIDE DEF made
  <2>2. ASSUME made.ask.cadastre # <<>>
        PROVE  /\ DOMAIN result' = DOMAIN ObjectsOf(made)
               /\ \A i \in DOMAIN result' : Allowed(result'[i].verdict) =>
                     LandFit(ObjectsOf(made)[i], ScenarioUse(ObjectsOf(made)[i]).code,
                             made.ask.cadastre) = "yes"
    BY <2>1, <2>2, LandDecides
  <2> QED
    BY <1>2, <2>2 DEF LandAgrees
<1>4. CASE RunnerOf(ScenarioRowMade(made), Deterministic) = "placement"
  <2>1. IsPlacing(c)
    BY <1>1, <1>4, ServedCode DEF RunnerOf, ScenarioRowMade
  <2>2. IsPlacement(task')
    BY <1>1, <2>1 DEF View, IsPlacement
  <2> QED
    BY <2>2 DEF LandAgrees, IsChecked, IsPlacement
<1>5. CASE phase' = "left to the pipeline"
  BY <1>5 DEF LandAgrees, IsChecked
<1> QED
  BY <1>3, <1>4, <1>5 DEF RunScenario, RowOf

LEMMA LandCases ==
  ASSUME [Next]_vars
  PROVE  \/ branch' # "scenario"
         \/ UNCHANGED flowVars
         \/ \E c \in Clients : RunScenario(c)
<1>1. CASE Submit \/ StartPipeline \/ RunPipeline \/ EndPipeline \/ RunBuildings \/ RunPlacement
  BY <1>1, PipelineCases DEF Submit, StartPipeline, RunPipeline, EndPipeline, RunBuildings,
                             RunPlacement, Runs
<1>2. CASE ScenarioMoves \/ RegulationMoves \/ Done \/ UNCHANGED vars
  BY <1>2 DEF ScenarioMoves, RegulationMoves, Done, vars
<1> QED
  BY <1>1, <1>2 DEF Next

(* What a scenario with a cadastre shows as allowed stands on parcels alone,  *)
(* and each of them permits its use, whatever the zones and mappings are      *)
(* (CadastreChecker.check).                                                   *)
THEOREM AllowedByZoneAndLand == Spec => []AllowedOnBoth
<1>1. Init => LandAgrees
  BY DEF Init, LandAgrees, IsChecked
<1>2. ScenarioInv /\ LandAgrees /\ [Next]_vars => LandAgrees'
  <2> SUFFICES ASSUME ScenarioInv, LandAgrees, [Next]_vars PROVE LandAgrees'
    OBVIOUS
  <2>1. CASE branch' # "scenario"
    BY <2>1 DEF LandAgrees
  <2>2. CASE UNCHANGED flowVars
    BY <2>2 DEF flowVars, LandAgrees, IsChecked, IsPlacement
  <2> QED
    BY <2>1, <2>2, LandStep, LandCases
<1>3. LandAgrees => AllowedOnBoth
  BY LandFitSays DEF LandAgrees, AllowedOnBoth
<1> QED
  BY <1>1, <1>2, <1>3, ScenarioInvInit, ScenarioInvStep, PTL DEF Spec
-----------------------------------------------------------------------------
(* Accepted requests.                                                      *)

(* The row of a request with files is made of what was answered "created". *)
AcceptedAs(model, offers, code) ==
    /\ AnswerOf(request, model, offers, code) = "created"
    /\ row.made = Created(request, model, code)
    /\ row.labels = LabelsOf(request, model)

RowIsAccepted ==
    branch = "file" =>
        /\ request \in Requests
        /\ row # NoRow => \E model, offers \in BOOLEAN, query \in Queries :
                             AcceptedAs(model, offers, ServiceCodeOf(query))

(* The first refusal is one of the checks, and those before it are "ok". *)
LEMMA FirstRefusalIs ==
  ASSUME NEW checks, NEW n \in Nat, Len(checks) = n
  PROVE  \/ FirstRefusal(checks) = "ok" /\ \A i \in 1..n : checks[i] = "ok"
         \/ \E k \in 1..n : /\ FirstRefusal(checks) = checks[k] /\ checks[k] # "ok"
                            /\ \A j \in 1..n : j < k => checks[j] = "ok"
<1> DEFINE places == {i \in 1..Len(checks) : checks[i] # "ok"}
           first  == IF places # {} THEN Min(places) ELSE 0
<1>1. FirstRefusal(checks) = IF first = 0 THEN "ok" ELSE checks[first]
  BY Zenon DEF FirstRefusal, SelectInSeq
<1>2. CASE places = {}
  BY <1>1, <1>2
<1>3. CASE places # {}
  <2>1. places \subseteq Nat
    OBVIOUS
  <2>2. first \in places /\ \A other \in places : first <= other
    BY <1>3, <2>1, MinIsLeast
  <2>3. /\ first \in 1..n /\ checks[first] # "ok" /\ first # 0
        /\ \A j \in 1..n : j < first => checks[j] = "ok"
    <3>1. first \in 1..n /\ checks[first] # "ok"
      BY <2>2
    <3>2. ASSUME NEW j \in 1..n, j < first PROVE checks[j] = "ok"
      <4>1. j \notin places
        <5> HIDE DEF places, first
        <5> QED
          BY <2>1, <2>2, <3>2
      <4> QED
        BY <4>1
    <3> HIDE DEF places, first
    <3> QED
      BY <3>1, <3>2
  <2> HIDE DEF places, first
  <2> QED
    BY <1>1, <2>3
<1> QED
  BY <1>2, <1>3

LEMMA AllAreOk ==
  ASSUME NEW checks, NEW n \in Nat, Len(checks) = n, FirstRefusal(checks) = "ok"
  PROVE  \A i \in 1..n : checks[i] = "ok"
BY FirstRefusalIs

LEMMA RefusalIsOne ==
  ASSUME NEW checks, NEW n \in Nat, Len(checks) = n, NEW S, \A i \in 1..n : checks[i] \in S
  PROVE  FirstRefusal(checks) \in S \cup {"ok"}
BY FirstRefusalIs

(* What comes before the one that answers is "ok". *)
LEMMA PassedUntil ==
  ASSUME NEW checks, NEW n \in Nat, Len(checks) = n, FirstRefusal(checks) # "ok",
         NEW m \in 1..n, \A i \in 1..m : checks[i] # FirstRefusal(checks)
  PROVE  \A i \in 1..m : checks[i] = "ok"
<1>1. PICK k \in 1..n : /\ checks[k] = FirstRefusal(checks)
                        /\ \A j \in 1..n : j < k => checks[j] = "ok"
  BY FirstRefusalIs
<1> QED
  BY <1>1

(* The refusals of the steps. *)
Refusals == {"ok", "400", "404", "413", "415", "422", "detection_failed"}

LEMMA StepsRefuse ==
  ASSUME NEW r, NEW model
  PROVE  /\ Gone(r) \in Refusals /\ StrayObjects(r) \in Refusals /\ BadObjects(r) \in Refusals
         /\ TableRefusal(r, model) \in Refusals
         /\ \A slot : /\ GeoSlot(r, slot) \in Refusals /\ JsonSlot(r, slot) \in Refusals
                      /\ Required(r, slot) \in {"ok", "422"}
<1>1. ASSUME NEW slot PROVE GeoSlot(r, slot) \in Refusals
  BY DEF GeoSlot, GeoRefusal, Refusals
<1>2. ASSUME NEW slot PROVE JsonSlot(r, slot) \in Refusals
  BY DEF JsonSlot, JsonRefusal, Refusals
<1> QED
  BY <1>1, <1>2 DEF Gone, StrayObjects, BadObjects, TableRefusal, Required, Refusals

LEMMA LayersRefuse == ASSUME NEW r PROVE Layers(r) \in Refusals
<1>1. PICK order : order = IF r.mode = "placement" THEN <<"zones", "cadastral", "existing">>
                           ELSE IF r.mode = "classify_only" THEN <<"cadastral">>
                           ELSE <<"cadastral", "zones">>
  OBVIOUS
<1>2. PICK checks : checks = [i \in DOMAIN order |-> GeoSlot(r, order[i])]
  OBVIOUS
<1>3. Layers(r) = FirstRefusal(checks)
  BY <1>1, <1>2 DEF Layers
<1>4. PICK n \in Nat : DOMAIN checks = 1..n /\ Len(checks) = n
  <2>1. CASE r.mode = "placement"
    BY <1>1, <1>2, <2>1
  <2>2. CASE r.mode = "classify_only"
    BY <1>1, <1>2, <2>2
  <2>3. CASE r.mode # "placement" /\ r.mode # "classify_only"
    BY <1>1, <1>2, <2>3
  <2> QED
    BY <2>1, <2>2, <2>3
<1>5. \A i \in 1..n : checks[i] \in Refusals
  BY <1>2, <1>4, StepsRefuse
<1>6. FirstRefusal(checks) \in Refusals \cup {"ok"}
  BY <1>4, <1>5, RefusalIsOne
<1> QED
  BY <1>3, <1>6 DEF Refusals

LEMMA CreateRefuses == ASSUME NEW r PROVE CreateRefusal(r) \in Refusals
<1> DEFINE zones  == IF r.mode = "classify_only" THEN "ok" ELSE GeoSlot(r, "zones")
           mo     == IF r.mode = "pzz_check" THEN GeoSlot(r, "mo") ELSE "ok"
           labels == IF TurnsTables(r) /\ IsTable(r) THEN "ok" ELSE JsonSlot(r, "labels")
           words  == IF r.mode = "building_pzz_check" THEN "ok" ELSE JsonSlot(r, "classifier")
<1>1. PICK checks : checks = <<GeoSlot(r, "cadastral"), zones, mo, labels, words>>
  OBVIOUS
<1>2. CreateRefusal(r) = FirstRefusal(checks)
  BY <1>1 DEF CreateRefusal
<1>3. "ok" \in Refusals
  BY DEF Refusals
<1>4. /\ zones \in Refusals /\ mo \in Refusals /\ labels \in Refusals /\ words \in Refusals
      /\ GeoSlot(r, "cadastral") \in Refusals
  BY <1>3, StepsRefuse
<1> HIDE DEF zones, mo, labels, words
<1>5. PICK n \in Nat : n = 5 /\ Len(checks) = n
  BY <1>1
<1>6. \A i \in 1..n : checks[i] \in Refusals
  BY <1>1, <1>4, <1>5
<1>7. FirstRefusal(checks) \in Refusals \cup {"ok"}
  BY <1>5, <1>6, RefusalIsOne
<1> QED
  BY <1>2, <1>3, <1>7

(* A mode's slots are there when none is missing. *)
LEMMA SlotsAreThere ==
  ASSUME NEW r, r.mode \in Modes
  PROVE  /\ MissingSlot(r) \in {"ok", "422"}
         /\ MissingSlot(r) = "ok" =>
               /\ r.mode # "placement" => Given(r, "cadastral")
               /\ r.mode # "classify_only" => Given(r, "zones")
<1>1. CASE r.mode = "placement"
  <2>1. PICK checks : checks = <<Required(r, "zones"), IF r.service = NoName THEN "422" ELSE "ok">>
    OBVIOUS
  <2>2. MissingSlot(r) = FirstRefusal(checks)
    BY <1>1, <2>1 DEF MissingSlot
  <2>3. Len(checks) = 2 /\ 2 \in Nat /\ checks[1] = Required(r, "zones")
        /\ \A i \in 1..2 : checks[i] \in {"ok", "422"}
    BY <2>1, StepsRefuse
  <2> HIDE DEF Required
  <2>4. MissingSlot(r) \in {"ok", "422"} /\ (MissingSlot(r) = "ok" => Required(r, "zones") = "ok")
    <3>1. PICK length \in Nat : length = 2 /\ Len(checks) = length
      BY <2>3
    <3>2. PICK S : S = {"ok", "422"}
      OBVIOUS
    <3>3. \A i \in 1..length : checks[i] \in S
      BY <2>3, <3>1, <3>2
    <3>4. FirstRefusal(checks) \in S \cup {"ok"}
      BY <3>1, <3>3, RefusalIsOne
    <3>5. FirstRefusal(checks) = "ok" => \A i \in 1..length : checks[i] = "ok"
      BY <3>1, AllAreOk
    <3> QED
      BY <2>2, <2>3, <3>1, <3>2, <3>4, <3>5
  <2> QED
    BY <1>1, <2>4 DEF Required
<1>2. CASE r.mode = "classify_only"
  <2>1. PICK checks : checks = <<Required(r, "cadastral")>>
    OBVIOUS
  <2>2. MissingSlot(r) = FirstRefusal(checks)
    BY <1>2, <2>1 DEF MissingSlot
  <2>3. Len(checks) = 1 /\ 1 \in Nat /\ checks[1] = Required(r, "cadastral")
        /\ \A i \in 1..1 : checks[i] \in {"ok", "422"}
    BY <2>1, StepsRefuse
  <2>4. /\ MissingSlot(r) \in {"ok", "422"}
        /\ MissingSlot(r) = "ok" => Required(r, "cadastral") = "ok"
    <3>1. PICK length \in Nat : length = 1 /\ Len(checks) = length
      BY <2>3
    <3>2. PICK S : S = {"ok", "422"}
      OBVIOUS
    <3>3. \A i \in 1..length : checks[i] \in S
      BY <2>3, <3>1, <3>2
    <3>4. FirstRefusal(checks) \in S \cup {"ok"}
      BY <3>1, <3>3, RefusalIsOne
    <3>5. FirstRefusal(checks) = "ok" => \A i \in 1..length : checks[i] = "ok"
      BY <3>1, AllAreOk
    <3> QED
      BY <2>2, <2>3, <3>1, <3>2, <3>4, <3>5
  <2> QED
    BY <1>2, <2>4 DEF Required
<1>3. CASE r.mode # "placement" /\ r.mode # "classify_only"
  <2>1. PICK checks : checks = <<Required(r, "cadastral"), Required(r, "zones")>>
    OBVIOUS
  <2>2. MissingSlot(r) = FirstRefusal(checks)
    BY <1>3, <2>1 DEF MissingSlot
  <2>3. Len(checks) = 2 /\ 2 \in Nat
        /\ checks[1] = Required(r, "cadastral") /\ checks[2] = Required(r, "zones")
        /\ \A i \in 1..2 : checks[i] \in {"ok", "422"}
    BY <2>1, StepsRefuse
  <2>4. /\ MissingSlot(r) \in {"ok", "422"}
        /\ MissingSlot(r) = "ok" =>
              Required(r, "cadastral") = "ok" /\ Required(r, "zones") = "ok"
    <3>1. PICK length \in Nat : length = 2 /\ Len(checks) = length
      BY <2>3
    <3>2. PICK S : S = {"ok", "422"}
      OBVIOUS
    <3>3. \A i \in 1..length : checks[i] \in S
      BY <2>3, <3>1, <3>2
    <3>4. FirstRefusal(checks) \in S \cup {"ok"}
      BY <3>1, <3>3, RefusalIsOne
    <3>5. FirstRefusal(checks) = "ok" => \A i \in 1..length : checks[i] = "ok"
      BY <3>1, AllAreOk
    <3> QED
      BY <2>2, <2>3, <3>1, <3>2, <3>4, <3>5
  <2> QED
    BY <1>3, <2>4 DEF Required
<1> QED
  BY <1>1, <1>2, <1>3

(* What has been looked at by the time a request is accepted. *)
LEMMA CreatedPassed ==
  ASSUME NEW r, r.mode \in Modes, r.mode = "placement" => r.auto,
         NEW model, NEW offers, NEW code, AnswerOf(r, model, offers, code) = "created"
  PROVE  /\ MissingSlot(r) = "ok"
         /\ r.auto \/ r.mode = "building_pzz_check" => ColumnsFound(r, model)
         /\ r.mode = "placement" => code # NoVri
<1>1. MissingSlot(r) # "created"
  BY SlotsAreThere
<1>2. CASE ~r.auto /\ r.mode # "building_pzz_check"
  <2>1. PICK checks : checks = <<MissingSlot(r), Gone(r), CreateRefusal(r), "created">>
    OBVIOUS
  <2>2. FirstRefusal(checks) = "created"
    BY <1>2, <2>1 DEF AnswerOf
  <2>3. Len(checks) = 4 /\ 4 \in Nat /\ checks[1] = MissingSlot(r)
    BY <2>1
  <2>4. \A i \in 1..1 : checks[i] = "ok"
    <3>1. PICK length \in Nat : length = 4 /\ Len(checks) = length
      BY <2>3
    <3>2. PICK m \in 1..length : m = 1
      BY <3>1
    <3>3. FirstRefusal(checks) # "ok" /\ \A i \in 1..m : checks[i] # FirstRefusal(checks)
      BY <1>1, <2>2, <2>3, <3>2
    <3>4. \A i \in 1..m : checks[i] = "ok"
      BY <3>1, <3>3, PassedUntil
    <3> QED
      BY <3>2, <3>4
  <2> QED
    BY <1>2, <2>3, <2>4
<1>3. CASE r.mode = "building_pzz_check"
  <2> DEFINE columns == IF Layers(r) # "ok" \/ ColumnsFound(r, model) THEN "ok"
                        ELSE "detection_failed"
             review == IF Reviewed(r, offers) = "proceed" THEN "ok" ELSE Reviewed(r, offers)
  <2>1. PICK checks : checks = <<StrayObjects(r), MissingSlot(r), Gone(r), TableRefusal(r, model),
                                 Layers(r), columns, review, CreateRefusal(r), "created">>
    OBVIOUS
  <2>2. FirstRefusal(checks) = "created"
    BY <1>3, <2>1 DEF AnswerOf
  <2>3. columns # "created"
    OBVIOUS
  <2>4. /\ Len(checks) = 9 /\ 9 \in Nat
        /\ checks[1] = StrayObjects(r) /\ checks[2] = MissingSlot(r) /\ checks[3] = Gone(r)
        /\ checks[4] = TableRefusal(r, model) /\ checks[5] = Layers(r) /\ checks[6] = columns
    BY <2>1
  <2>5. \A i \in 1..6 : checks[i] # "created"
    BY <1>1, <2>3, <2>4, StepsRefuse, LayersRefuse DEF Refusals
  <2>6. \A i \in 1..6 : checks[i] = "ok"
    <3>1. PICK length \in Nat : length = 9 /\ Len(checks) = length
      BY <2>4
    <3>2. PICK m \in 1..length : m = 6
      BY <3>1
    <3>3. FirstRefusal(checks) # "ok" /\ \A i \in 1..m : checks[i] # FirstRefusal(checks)
      BY <2>2, <2>4, <2>5, <3>2
    <3>4. \A i \in 1..m : checks[i] = "ok"
      BY <3>1, <3>3, PassedUntil
    <3> QED
      BY <3>2, <3>4
  <2>7. MissingSlot(r) = "ok" /\ Layers(r) = "ok" /\ columns = "ok"
    BY <2>4, <2>6
  <2> QED
    BY <1>3, <2>7
<1>4. CASE r.mode = "placement"
  <2> DEFINE meant == IF code = NoVri THEN "detection_failed" ELSE "ok"
             columns == IF ColumnsFound(r, model) THEN "ok" ELSE "detection_failed"
  <2>1. PICK checks : checks = <<MissingSlot(r), meant, TableRefusal(r, model), Layers(r),
                                 BadObjects(r), columns, CreateRefusal(r), "created">>
    OBVIOUS
  <2>2. FirstRefusal(checks) = "created"
    BY <1>4, <2>1 DEF AnswerOf
  <2>3. columns # "created" /\ meant # "created"
    OBVIOUS
  <2>4. /\ Len(checks) = 8 /\ 8 \in Nat
        /\ checks[1] = MissingSlot(r) /\ checks[2] = meant /\ checks[3] = TableRefusal(r, model)
        /\ checks[4] = Layers(r) /\ checks[5] = BadObjects(r) /\ checks[6] = columns
    BY <2>1
  <2>5. \A i \in 1..6 : checks[i] # "created"
    BY <1>1, <2>3, <2>4, StepsRefuse, LayersRefuse DEF Refusals
  <2>6. \A i \in 1..6 : checks[i] = "ok"
    <3>1. PICK length \in Nat : length = 8 /\ Len(checks) = length
      BY <2>4
    <3>2. PICK m \in 1..length : m = 6
      BY <3>1
    <3>3. FirstRefusal(checks) # "ok" /\ \A i \in 1..m : checks[i] # FirstRefusal(checks)
      BY <2>2, <2>4, <2>5, <3>2
    <3>4. \A i \in 1..m : checks[i] = "ok"
      BY <3>1, <3>3, PassedUntil
    <3> QED
      BY <3>2, <3>4
  <2>7. MissingSlot(r) = "ok" /\ meant = "ok" /\ columns = "ok"
    BY <2>4, <2>6
  <2> QED
    BY <1>4, <2>7
<1>5. CASE r.auto /\ r.mode # "building_pzz_check" /\ r.mode # "placement"
  <2> DEFINE table == IF r.mode = "pzz_check" THEN TableRefusal(r, model) ELSE "ok"
             columns == IF ColumnsFound(r, model) THEN "ok" ELSE "detection_failed"
  <2>1. PICK checks : checks = <<StrayObjects(r), MissingSlot(r), table, Layers(r), columns,
                                 CreateRefusal(r), "created">>
    OBVIOUS
  <2>2. FirstRefusal(checks) = "created"
    BY <1>5, <2>1 DEF AnswerOf
  <2>3. columns # "created" /\ table # "created"
    BY StepsRefuse DEF Refusals
  <2>4. /\ Len(checks) = 7 /\ 7 \in Nat
        /\ checks[1] = StrayObjects(r) /\ checks[2] = MissingSlot(r) /\ checks[3] = table
        /\ checks[4] = Layers(r) /\ checks[5] = columns
    BY <2>1
  <2>5. \A i \in 1..5 : checks[i] # "created"
    BY <1>1, <2>3, <2>4, StepsRefuse, LayersRefuse DEF Refusals
  <2>6. \A i \in 1..5 : checks[i] = "ok"
    <3>1. PICK length \in Nat : length = 7 /\ Len(checks) = length
      BY <2>4
    <3>2. PICK m \in 1..length : m = 5
      BY <3>1
    <3>3. FirstRefusal(checks) # "ok" /\ \A i \in 1..m : checks[i] # FirstRefusal(checks)
      BY <2>2, <2>4, <2>5, <3>2
    <3>4. \A i \in 1..m : checks[i] = "ok"
      BY <3>1, <3>3, PassedUntil
    <3> QED
      BY <3>2, <3>4
  <2>7. MissingSlot(r) = "ok" /\ columns = "ok"
    BY <2>4, <2>6
  <2> QED
    BY <1>5, <2>7
<1> QED
  BY <1>2, <1>3, <1>4, <1>5

(* No answer is the state of a task. *)
KnownAnswers == Refusals \cup {"suggest_upload", "confirm", "created"}

LEMMA AnswersAreKnown ==
  ASSUME NEW r, r.mode \in Modes, r.mode = "placement" => r.auto, NEW model, NEW offers, NEW code
  PROVE  AnswerOf(r, model, offers, code) \in KnownAnswers
<1> DEFINE columns == IF ColumnsFound(r, model) THEN "ok" ELSE "detection_failed"
           late    == IF Layers(r) # "ok" \/ ColumnsFound(r, model) THEN "ok" ELSE "detection_failed"
           review  == IF Reviewed(r, offers) = "proceed" THEN "ok" ELSE Reviewed(r, offers)
           meant   == IF code = NoVri THEN "detection_failed" ELSE "ok"
           table   == IF r.mode = "pzz_check" THEN TableRefusal(r, model) ELSE "ok"
           one     == <<MissingSlot(r), Gone(r), CreateRefusal(r), "created">>
           two     == <<StrayObjects(r), MissingSlot(r), Gone(r), TableRefusal(r, model),
                        Layers(r), late, review, CreateRefusal(r), "created">>
           three   == <<MissingSlot(r), meant, TableRefusal(r, model), Layers(r),
                        BadObjects(r), columns, CreateRefusal(r), "created">>
           four    == <<StrayObjects(r), MissingSlot(r), table, Layers(r), columns,
                        CreateRefusal(r), "created">>
<1>1. /\ columns \in KnownAnswers /\ late \in KnownAnswers /\ meant \in KnownAnswers
      /\ "created" \in KnownAnswers /\ "ok" \in KnownAnswers
  BY DEF KnownAnswers, Refusals
<1>2. review \in KnownAnswers
  <2>1. Review(r).action \in {"proceed", "suggest_upload", "confirm"}
    BY DEF Review
  <2> QED
    BY <2>1 DEF Reviewed, KnownAnswers, Refusals
<1>3. MissingSlot(r) \in KnownAnswers
  BY SlotsAreThere DEF KnownAnswers, Refusals
<1>4. /\ StrayObjects(r) \in KnownAnswers /\ Gone(r) \in KnownAnswers /\ TableRefusal(r, model) \in KnownAnswers
      /\ Layers(r) \in KnownAnswers /\ BadObjects(r) \in KnownAnswers /\ CreateRefusal(r) \in KnownAnswers
      /\ table \in KnownAnswers
  BY <1>1, StepsRefuse, LayersRefuse, CreateRefuses DEF KnownAnswers
<1>5. \/ AnswerOf(r, model, offers, code) = FirstRefusal(one)
      \/ AnswerOf(r, model, offers, code) = FirstRefusal(two)
      \/ AnswerOf(r, model, offers, code) = FirstRefusal(three)
      \/ AnswerOf(r, model, offers, code) = FirstRefusal(four)
  <2>1. CASE ~r.auto /\ r.mode # "building_pzz_check" /\ r.mode # "placement"
    BY <2>1, Zenon DEF AnswerOf
  <2>2. CASE r.mode = "building_pzz_check"
    BY <2>2 DEF AnswerOf
  <2>3. CASE r.mode = "placement"
    BY <2>3 DEF AnswerOf
  <2>4. CASE r.auto /\ r.mode # "building_pzz_check" /\ r.mode # "placement"
    BY <2>4 DEF AnswerOf
  <2> QED
    BY <2>1, <2>2, <2>3, <2>4
<1> HIDE DEF columns, late, review, meant, table
<1>6. ASSUME NEW checks, NEW n \in Nat, Len(checks) = n, \A i \in 1..n : checks[i] \in KnownAnswers
      PROVE  FirstRefusal(checks) \in KnownAnswers
  <2>1. FirstRefusal(checks) \in KnownAnswers \cup {"ok"}
    BY <1>6, RefusalIsOne
  <2> QED
    BY <1>1, <2>1
<1>7. FirstRefusal(one) \in KnownAnswers
  <2>1. PICK checks : checks = one
    OBVIOUS
  <2>2. PICK n \in Nat : n = 4
    OBVIOUS
  <2>3. Len(checks) = n /\ \A i \in 1..n : checks[i] \in KnownAnswers
    BY <1>1, <1>3, <1>4, <2>1, <2>2
  <2> QED
    BY <1>6, <2>1, <2>3
<1>8. FirstRefusal(two) \in KnownAnswers
  <2>1. PICK checks : checks = two
    OBVIOUS
  <2>2. PICK n \in Nat : n = 9
    OBVIOUS
  <2>3. Len(checks) = n /\ \A i \in 1..n : checks[i] \in KnownAnswers
    BY <1>1, <1>2, <1>3, <1>4, <2>1, <2>2
  <2> QED
    BY <1>6, <2>1, <2>3
<1>9. FirstRefusal(three) \in KnownAnswers
  <2>1. PICK checks : checks = three
    OBVIOUS
  <2>2. PICK n \in Nat : n = 8
    OBVIOUS
  <2>3. Len(checks) = n /\ \A i \in 1..n : checks[i] \in KnownAnswers
    BY <1>1, <1>3, <1>4, <2>1, <2>2
  <2> QED
    BY <1>6, <2>1, <2>3
<1>10. FirstRefusal(four) \in KnownAnswers
  <2>1. PICK checks : checks = four
    OBVIOUS
  <2>2. PICK n \in Nat : n = 7
    OBVIOUS
  <2>3. Len(checks) = n /\ \A i \in 1..n : checks[i] \in KnownAnswers
    BY <1>1, <1>3, <1>4, <2>1, <2>2
  <2> QED
    BY <1>6, <2>1, <2>3
<1> QED
  BY <1>5, <1>7, <1>8, <1>9, <1>10

(* What was found or claimed of a column is in the row. *)
LEMMA RowHasColumn ==
  ASSUME NEW r, NEW model, NEW role \in Roles
  PROVE  LET said == RowColumns(r, model)[role] IN
         /\ ~r.auto /\ r.mode # "building_pzz_check" => said = "claimed"
         /\ r.auto \/ r.mode = "building_pzz_check" =>
               /\ role \in {"code", "name"} /\ Given(r, "zones") /\ Resolved(r, "zones", role, model)
                     => said = "filled"
               /\ role \notin {"code", "name"} /\ Given(r, "cadastral")
                     /\ Resolved(r, "cadastral", role, model) => said = "filled"
BY DEF RowColumns, Resolved, Column

LEMMA CreatedHas ==
  ASSUME NEW r, r.mode \in Modes, r.mode = "placement" => r.auto,
         NEW model, NEW code, MissingSlot(r) = "ok",
         r.auto \/ r.mode = "building_pzz_check" => ColumnsFound(r, model),
         r.mode = "placement" => code # NoVri
  PROVE  HasWhatItNeeds(RunnerOf(Created(r, model, code), Deterministic), Created(r, model, code))
<1> DEFINE made == Created(r, model, code)
<1>1. /\ made.prefix = Prefix(r) /\ made.code = (IF r.mode = "placement" THEN code ELSE NoVri)
      /\ made.check = (r.mode # "classify_only") /\ made.columns = RowColumns(r, model)
      /\ made.described = (Given(r, "labels") \/ r.mode = "pzz_check")
  BY DEF Created
<1>2. /\ "cadastral" \in made.slots <=> Given(r, "cadastral")
      /\ r.mode # "classify_only" => ("zones" \in made.slots <=> Given(r, "zones"))
  <2>1. made.slots = DOMAIN r.files \ (CASE r.mode = "classify_only" -> {"zones", "mo", "existing"}
                                         [] r.mode = "pzz_check"     -> {"existing"}
                                         [] r.mode = "placement"     -> {"mo"}
                                         [] OTHER -> {"mo", "existing", "classifier"})
    BY DEF Created
  <2> HIDE DEF made
  <2> QED
    BY <2>1 DEF Given, Modes
<1>3. /\ r.mode # "placement" => Given(r, "cadastral")
      /\ r.mode # "classify_only" => Given(r, "zones")
  BY SlotsAreThere
<1> HIDE DEF made
<1> DEFINE has(role) == made.columns[role] \in {"filled", "claimed"}
<1>4. ASSUME NEW role \in Roles,
             \/ ~r.auto /\ r.mode # "building_pzz_check"
             \/ role \in {"code", "name"} /\ Given(r, "zones") /\ Resolved(r, "zones", role, model)
             \/ role \notin {"code", "name"} /\ Given(r, "cadastral")
                /\ Resolved(r, "cadastral", role, model)
      PROVE  has(role)
  BY <1>1, <1>4, RowHasColumn
<1> HIDE DEF has
<1>5. CASE r.mode = "placement"
  <2>1. RunnerOf(made, Deterministic) = "placement"
    BY <1>1, <1>5 DEF RunnerOf
  <2>2. has("code") /\ ("cadastral" \in made.slots => has("vri"))
    BY <1>2, <1>3, <1>4, <1>5 DEF ColumnsFound, Roles
  <2> QED
    BY <1>2, <1>3, <1>5, <2>1, <2>2 DEF HasWhatItNeeds, has, made
<1>6. CASE r.mode = "building_pzz_check"
  <2>1. RunnerOf(made, Deterministic) = "building"
    BY <1>1, <1>6 DEF RunnerOf, Prefix
  <2>2. has("code") /\ (has("type") \/ has("service"))
    BY <1>2, <1>3, <1>4, <1>6 DEF ColumnsFound, Roles
  <2> QED
    BY <1>2, <1>3, <1>6, <2>1, <2>2 DEF HasWhatItNeeds, has, made
<1>7. CASE r.mode \in {"pzz_check", "classify_only"}
  <2>1. RunnerOf(made, Deterministic) = "pipeline"
    BY <1>1, <1>7 DEF RunnerOf, Prefix
  <2>2. has("vri") /\ (r.mode = "pzz_check" => has("code") /\ has("name"))
    BY <1>2, <1>3, <1>4, <1>7 DEF ColumnsFound, Roles
  <2> QED
    BY <1>1, <1>2, <1>3, <1>7, <2>1, <2>2 DEF HasWhatItNeeds, has, made
<1> QED
  BY <1>5, <1>6, <1>7 DEF Modes

(* What the disclaimer does not name is described. *)
LEMMA WarnedOrDescribed ==
  ASSUME NEW r, NEW model, NEW code, r.mode = "building_pzz_check", Review(r).approximate,
         \A z \in DOMAIN r.confirmed : r.confirmed[z] \in DOMAIN Template
  PROVE  ZoneCodesOf(r.zones) \ Created(r, model, code).warned
             \subseteq DOMAIN MappingInUse(LabelsOf(r, model), Defaults, FALSE)
<1>1. Created(r, model, code).warned = Remaining(r)
  BY DEF Created
<1>2. ~Given(r, "labels")
  BY DEF Review
<1>3. ZoneCodesOf(r.zones) \ Remaining(r) \subseteq DOMAIN Template \cup DOMAIN r.confirmed
  BY DEF Remaining, Uncovered
<1>4. LabelsOf(r, model) = BuildingLabels(r, model) /\ Defaults[FALSE] = Template
  BY DEF LabelsOf, Defaults
<1>5. CASE r.confirmed = <<>>
  <2>1. DOMAIN r.confirmed = {}
    BY <1>5
  <2>2. LabelsOf(r, model) = [numeric |-> FALSE, map |-> <<>>]
    BY <1>2, <1>4, <1>5 DEF BuildingLabels
  <2>3. MappingInUse(LabelsOf(r, model), Defaults, FALSE) = Template
    BY <1>4, <2>2 DEF MappingInUse
  <2> QED
    BY <1>1, <1>3, <2>1, <2>3
<1>6. CASE r.confirmed # <<>>
  <2>1. LabelsOf(r, model) = [numeric |-> FALSE, map |-> Overlay(r.confirmed)]
    BY <1>4, <1>6 DEF BuildingLabels
  <2>2. DOMAIN Overlay(r.confirmed) = DOMAIN Template \cup DOMAIN r.confirmed
    BY DEF Overlay
  <2>3. DOMAIN Overlay(r.confirmed) \subseteq DOMAIN MappingInUse(LabelsOf(r, model), Defaults, FALSE)
    <3>1. PICK overlay : overlay = Overlay(r.confirmed)
      OBVIOUS
    <3>2. PICK labels : labels = LabelsOf(r, model)
      OBVIOUS
    <3>3. labels.numeric = FALSE /\ labels.map = overlay
      BY <2>1, <3>1, <3>2
    <3>4. CASE DOMAIN overlay = {}
      BY <3>1, <3>4
    <3>5. CASE DOMAIN overlay # {}
      <4>1. MappingInUse(labels, Defaults, FALSE) = overlay
        BY <3>3, <3>5, Zenon DEF MappingInUse
      <4> QED
        BY <3>1, <3>2, <4>1
    <3> QED
      BY <3>4, <3>5
  <2> QED
    BY <1>1, <1>3, <2>2, <2>3
<1> QED
  BY <1>5, <1>6

LEMMA AcceptedStep == RowIsAccepted /\ [Next]_vars => RowIsAccepted'
<1> SUFFICES ASSUME RowIsAccepted, [Next]_vars PROVE RowIsAccepted'
  OBVIOUS
<1>1. branch' = branch /\ request' = request
  BY PipelineCases
<1>2. CASE Submit
  <2>1. PICK model \in BOOLEAN, offers \in BOOLEAN, query \in Queries :
          LET code == ServiceCodeOf(query)
              answer == AnswerOf(request, model, offers, code)
          IN  IF answer # "created" THEN row' = row
              ELSE row' = [made |-> Created(request, model, code),
                           labels |-> LabelsOf(request, model)]
    BY <1>2 DEF Submit
  <2>2. CASE row' = row
    BY <1>1, <2>2 DEF RowIsAccepted, AcceptedAs
  <2>3. CASE row' # row
    <3>1. /\ AnswerOf(request, model, offers, ServiceCodeOf(query)) = "created"
          /\ row' = [made |-> Created(request, model, ServiceCodeOf(query)),
                     labels |-> LabelsOf(request, model)]
      BY <2>1, <2>3
    <3>2. /\ row'.made = Created(request, model, ServiceCodeOf(query))
          /\ row'.labels = LabelsOf(request, model)
      BY <3>1
    <3> QED
      BY <1>1, <3>1, <3>2 DEF RowIsAccepted, AcceptedAs
  <2> QED
    BY <2>2, <2>3
<1>3. CASE row' = row
  BY <1>1, <1>3 DEF RowIsAccepted, AcceptedAs
<1>4. CASE branch # "file"
  BY <1>1, <1>4 DEF RowIsAccepted
<1>5. Submit \/ row' = row \/ branch # "file"
  <2>1. ASSUME NEW c \in Clients, RunScenario(c) PROVE branch # "file"
    BY <2>1 DEF RunScenario
  <2>2. CASE StartPipeline \/ RunPipeline \/ EndPipeline \/ RunBuildings \/ RunPlacement
    BY <2>2 DEF StartPipeline, RunPipeline, EndPipeline, RunBuildings, RunPlacement, flowVars
  <2>3. CASE ScenarioMoves \/ RegulationMoves \/ Done \/ UNCHANGED vars
    BY <2>3 DEF ScenarioMoves, RegulationMoves, Done, vars, flowVars
  <2> QED
    BY <2>1, <2>2, <2>3 DEF Next
<1> QED
  BY <1>2, <1>3, <1>4, <1>5

(* A request that is accepted reaches a runner that has every layer and column *)
(* it needs, and a building check on the built-in template describes every     *)
(* zone its disclaimer does not name, whatever files come and whatever a model *)
(* finds in them: each refusal comes before the row is made.                   *)
THEOREM AcceptedRequestsCanRun == Spec => []AcceptedCanRun
<1>1. Init => RowIsAccepted
  BY DEF Init, RowIsAccepted, NoRow
<1>2. RowIsAccepted => AcceptedCanRun
  <2> SUFFICES ASSUME RowIsAccepted, branch = "file", row # NoRow
               PROVE  /\ HasWhatItNeeds(RunnerOf(row.made, Deterministic), row.made)
                      /\ (request.mode = "building_pzz_check" /\ Review(request).approximate
                            /\ \A z \in DOMAIN request.confirmed :
                                  request.confirmed[z] \in DOMAIN Template) =>
                          ZoneCodesOf(request.zones) \ row.made.warned
                              \subseteq DOMAIN MappingInUse(row.labels, Defaults, FALSE)
    BY DEF AcceptedCanRun
  <2>1. request \in Requests
    BY DEF RowIsAccepted
  <2>2. PICK model, offers \in BOOLEAN, query \in Queries :
          AcceptedAs(model, offers, ServiceCodeOf(query))
    BY DEF RowIsAccepted
  <2>3. request.mode \in Modes /\ (request.mode = "placement" => request.auto)
    BY <2>1, RequestsAssumption
  <2>4. PICK code : code = ServiceCodeOf(query)
    OBVIOUS
  <2>5. /\ AnswerOf(request, model, offers, code) = "created"
        /\ row.made = Created(request, model, code) /\ row.labels = LabelsOf(request, model)
    BY <2>2, <2>4 DEF AcceptedAs
  <2>6. /\ MissingSlot(request) = "ok"
        /\ request.auto \/ request.mode = "building_pzz_check" => ColumnsFound(request, model)
        /\ request.mode = "placement" => code # NoVri
    BY <2>3, <2>5, CreatedPassed
  <2> QED
    BY <2>3, <2>5, <2>6, CreatedHas, WarnedOrDescribed
<1> QED
  BY <1>1, <1>2, AcceptedStep, PTL DEF Spec
-----------------------------------------------------------------------------
(* Placements.                                                             *)

(* A rule goes by a number, and the norms that cut off what is near are strict. *)
RulesFit(rules) ==
    /\ DOMAIN rules \subseteq Nat \ {0}
    /\ \A k \in DOMAIN rules : rules[k].effect = "exclude_near" => rules[k].strictness = "strict"

LEMMA RuleOfFits ==
  ASSUME NEW r
  PROVE  RuleOf(r).effect = "exclude_near" => RuleOf(r).strictness = "strict"
BY DEF RuleOf, Rule, UncheckedRule

LEMMA NormsFit ==
  ASSUME NEW codes, NEW territory, NEW documents \in BOOLEAN, NEW norms \in BOOLEAN
  PROVE  RulesFit(ContextOf(codes, Graph, territory, documents, norms).rules)
<1>1. CASE ~norms
  <2>1. ContextOf(codes, Graph, territory, documents, norms).rules = <<>>
    BY <1>1 DEF ContextOf
  <2> QED
    BY <2>1 DEF RulesFit
<1>2. CASE norms
  <2>1. PICK first : /\ first \subseteq DOMAIN Graph.restrictions
                     /\ ContextOf(codes, Graph, territory, documents, norms).rules
                           = [i \in first |-> RuleOf(Graph.restrictions[i])]
    <3> DEFINE listed == IF documents
                         THEN {Graph.documents[i].id : i \in DOMAIN Graph.documents} ELSE {}
               norm   == {i \in DOMAIN Graph.restrictions :
                            Graph.restrictions[i].doc \notin listed \cup Graph.excluded}
               first  == {i \in norm : \A j \in norm : j < i =>
                            Graph.restrictions[j].group # Graph.restrictions[i].group}
    <3>1. ContextOf(codes, Graph, territory, documents, norms).rules
             = [i \in first |-> RuleOf(Graph.restrictions[i])]
      BY <1>2 DEF ContextOf
    <3>2. first \subseteq DOMAIN Graph.restrictions
      OBVIOUS
    <3> HIDE DEF first
    <3> QED
      BY <3>1, <3>2
  <2> QED
    BY <2>1, RuleOfFits, LayersAssumption DEF RulesFit
<1> QED
  BY <1>1, <1>2

(* What is kept of some ground and what each cut takes of it divide it. *)
LEMMA CutsDivide ==
  ASSUME NEW cells, NEW cuts, DOMAIN cuts \subseteq Nat
  PROVE  /\ \A cell \in cells : \/ cell \in Kept(cells, cuts)
                                \/ \E k \in DOMAIN cuts : cell \in TakenBy(cells, cuts, k)
         /\ Kept(cells, cuts) \subseteq cells
         /\ \A k \in DOMAIN cuts : /\ TakenBy(cells, cuts, k) \subseteq cells
                                   /\ Kept(cells, cuts) \cap cuts[k] = {}
                                   /\ Kept(cells, cuts) \cap TakenBy(cells, cuts, k) = {}
         /\ \A j, k \in DOMAIN cuts :
               j # k => TakenBy(cells, cuts, j) \cap TakenBy(cells, cuts, k) = {}
<1>1. ASSUME NEW cell \in cells, cell \notin Kept(cells, cuts)
      PROVE  \E k \in DOMAIN cuts : cell \in TakenBy(cells, cuts, k)
  <2> DEFINE over == {k \in DOMAIN cuts : cell \in cuts[k]}
  <2>1. over \subseteq Nat /\ over # {}
    BY <1>1 DEF Kept
  <2>2. PICK least \in over : \A other \in over : least <= other
    BY <2>1, LeastNumber
  <2>3. \A j \in DOMAIN cuts : j < least => cell \notin cuts[j]
    BY <2>1, <2>2
  <2> QED
    BY <2>2, <2>3 DEF TakenBy
<1>2. ASSUME NEW j \in DOMAIN cuts, NEW k \in DOMAIN cuts, j < k
      PROVE  TakenBy(cells, cuts, j) \cap TakenBy(cells, cuts, k) = {}
  BY <1>2 DEF TakenBy
<1>3. \A j, k \in DOMAIN cuts : j # k => j < k \/ k < j
  OBVIOUS
<1> QED
  BY <1>1, <1>2, <1>3 DEF Kept, TakenBy

LEMMA CutsDomain ==
  ASSUME NEW p, NEW context, RulesFit(context.rules)
  PROVE  /\ DOMAIN Cuts(p, context) = {0} \cup DOMAIN context.rules
         /\ DOMAIN Cuts(p, context) \subseteq Nat
BY DEF Cuts, RulesFit

(* The parts of one zone. *)
LEMMA ZoneIsDivided ==
  ASSUME NEW p, NEW context, RulesFit(context.rules), NEW mapping, NEW i
  PROVE  LET parts == ZoneParts(p, context, mapping, i) IN
         /\ \A q \in parts : q.zone = i
         /\ UNION {q.cells : q \in parts} = p.zones[i].cells
         /\ \A q, s \in parts : q # s => q.cells \cap s.cells = {}
         /\ \A q \in parts : q.class \in Suitable =>
               \A k \in DOMAIN Cuts(p, context) : q.cells \cap Cuts(p, context)[k] = {}
<1> DEFINE cells   == p.zones[i].cells
           class   == ClassOf(FitVerdict(p.target.code, p.zones[i].code, mapping))
           targets == OfKind(IF p.objects.given THEN p.objects.layer ELSE p.parcels,
                             p.target, "target")
           starred == \E target \in targets : target.point \in cells
           cuts    == Cuts(p, context)
           shown   == IF starred THEN WithExisting(class) ELSE class
           whole   == Part(i, shown, Kept(cells, cuts))
           taken(k) == Part(i, "C", TakenBy(cells, cuts, k))
           parts   == ZoneParts(p, context, mapping, i)
<1>1. DOMAIN cuts \subseteq Nat
  BY CutsDomain
<1>2. CASE class \notin Suitable
  <2>1. parts = {Part(i, class, cells)}
    BY <1>2 DEF ZoneParts
  <2>2. \A q \in parts : q = Part(i, class, cells)
    BY <2>1
  <2> HIDE DEF parts, class
  <2>3. UNION {q.cells : q \in parts} = cells
    BY <2>1 DEF Part
  <2>4. \A q \in parts : q.zone = i /\ q.class \notin Suitable
    BY <1>2, <2>2 DEF Part
  <2> QED
    BY <2>2, <2>3, <2>4 DEF parts
<1>3. CASE class \in Suitable
  <2>1. parts = {part \in {whole} \cup {taken(k) : k \in DOMAIN cuts} : part.cells # {}}
    BY <1>3 DEF ZoneParts
  <2>2. /\ whole.zone = i /\ whole.cells = Kept(cells, cuts)
        /\ \A k \in DOMAIN cuts : /\ taken(k).zone = i /\ taken(k).class = "C"
                                  /\ taken(k).cells = TakenBy(cells, cuts, k)
    BY DEF Part
  <2>3. "C" \notin Suitable
    BY DEF Suitable
  <2> HIDE DEF parts, whole, taken, cuts, cells, class, shown
  <2>4. \A q \in parts : q = whole \/ \E k \in DOMAIN cuts : q = taken(k)
    BY <2>1
  <2>5. \A cell \in cells : \E q \in parts : cell \in q.cells
    <3>1. ASSUME NEW cell \in cells, cell \in Kept(cells, cuts) PROVE \E q \in parts : cell \in q.cells
      BY <2>1, <2>2, <3>1
    <3>2. ASSUME NEW cell \in cells, NEW k \in DOMAIN cuts, cell \in TakenBy(cells, cuts, k)
          PROVE  \E q \in parts : cell \in q.cells
      BY <2>1, <2>2, <3>2
    <3> QED
      BY <1>1, <3>1, <3>2, CutsDivide
  <2>6. \A q \in parts : q.cells \subseteq cells
    BY <1>1, <2>2, <2>4, CutsDivide
  <2>7. UNION {q.cells : q \in parts} = cells
    BY <2>5, <2>6
  <2>8. ASSUME NEW q \in parts, NEW s \in parts, q # s PROVE q.cells \cap s.cells = {}
    <3>1. CASE q = whole
      <4>1. PICK k \in DOMAIN cuts : s = taken(k)
        BY <2>4, <2>8, <3>1
      <4> QED
        BY <1>1, <2>2, <3>1, <4>1, CutsDivide
    <3>2. CASE s = whole
      <4>1. PICK k \in DOMAIN cuts : q = taken(k)
        BY <2>4, <2>8, <3>2
      <4> QED
        BY <1>1, <2>2, <3>2, <4>1, CutsDivide
    <3>3. CASE q # whole /\ s # whole
      <4>1. PICK j \in DOMAIN cuts : q = taken(j)
        BY <2>4, <3>3
      <4>2. PICK k \in DOMAIN cuts : s = taken(k)
        BY <2>4, <3>3
      <4>3. j # k
        BY <2>8, <4>1, <4>2
      <4> QED
        BY <1>1, <2>2, <4>1, <4>2, <4>3, CutsDivide
    <3> QED
      BY <3>1, <3>2, <3>3
  <2>9. ASSUME NEW q \in parts, q.class \in Suitable, NEW k \in DOMAIN cuts
        PROVE  q.cells \cap cuts[k] = {}
    <3>1. q = whole
      BY <2>2, <2>3, <2>4, <2>9
    <3> QED
      BY <1>1, <2>2, <3>1, CutsDivide
  <2>10. \A q \in parts : q.zone = i
    BY <2>2, <2>4
  <2> QED
    BY <2>7, <2>8, <2>9, <2>10 DEF parts, cuts, cells
<1> QED
  BY <1>2, <1>3

LEMMA BufferGrows ==
  ASSUME NEW cells, NEW more, cells \subseteq more, NEW width
  PROVE  Buffer(cells, width) \subseteq Buffer(more, width)
BY DEF Buffer

LEMMA BufferWidens ==
  ASSUME NEW cells, NEW width \in Nat, NEW wider \in Nat, width <= wider
  PROVE  Buffer(cells, width) \subseteq Buffer(cells, wider)
<1>1. \A d : d \in -width..width => d \in -wider..wider
  OBVIOUS
<1> QED
  BY <1>1 DEF Buffer

(* No sanitary zone is narrower than the least width there is. *)
LEMMA WidthsAreLeast ==
  ASSUME NEW class \in {NoClass} \cup DOMAIN SzzWidth
  PROVE  LET least == Min({SzzWidth[k] : k \in DOMAIN SzzWidth}) IN
         least \in Nat /\ Width(class) \in Nat /\ least <= Width(class)
<1> DEFINE widths == {SzzWidth[k] : k \in DOMAIN SzzWidth}
<1>1. SzzWidth \in [1..5 -> Nat]
  BY PlacementAssumption
<1>2. PICK k \in 1..5 : Width(class) = SzzWidth[k]
  BY <1>1 DEF Width, NoClass, DefaultClass
<1>3. widths \subseteq Nat /\ Width(class) \in widths
  BY <1>1, <1>2
<1>4. Min(widths) \in widths /\ \A other \in widths : Min(widths) <= other
  BY <1>3, MinIsLeast
<1> HIDE DEF widths
<1>5. Min(widths) \in Nat /\ Width(class) \in Nat /\ Min(widths) <= Width(class)
  BY <1>3, <1>4
<1> QED
  BY <1>5 DEF widths

(* The sanitary zones of production, where the service is excluded there. *)
LEMMA ProductionIsCut ==
  ASSUME NEW p, NEW context, ZonesFit(p.zones), p.target.code \in Sensitive,
         NEW i \in DOMAIN p.parcels, ParcelKind(p.parcels[i].says, p.target) = "production"
  PROVE  Buffer(p.parcels[i].cells, Min({SzzWidth[k] : k \in DOMAIN SzzWidth}))
            \subseteq Cuts(p, context)[0]
<1> DEFINE production == OfKind(p.parcels, p.target, "production")
           parcel == p.parcels[i]
           at == Containing(parcel, p.zones)
           class == IF at = {} THEN NoClass ELSE p.zones[Min(at)].hazard
           least == Min({SzzWidth[k] : k \in DOMAIN SzzWidth})
<1>1. Cuts(p, context)[0] = Szz(production, p.zones)
  BY DEF Cuts
<1>2. parcel \in production
  BY DEF OfKind
<1>3. Buffer(parcel.cells, Width(class)) \subseteq Szz(production, p.zones)
  <2> HIDE DEF production
  <2> QED
    BY <1>2 DEF Szz
<1>4. class \in {NoClass} \cup DOMAIN SzzWidth
  <2>1. CASE at = {}
    BY <2>1
  <2>2. CASE at # {}
    <3>1. at \subseteq DOMAIN p.zones /\ at \subseteq Nat
      BY DEF Containing, ZonesFit
    <3> HIDE DEF at
    <3>2. Min(at) \in DOMAIN p.zones
      BY <2>2, <3>1, MinIsLeast
    <3> QED
      BY <2>2, <3>2 DEF ZonesFit
  <2> QED
    BY <2>1, <2>2
<1> HIDE DEF class, least
<1>5. least \in Nat /\ Width(class) \in Nat /\ least <= Width(class)
  BY <1>4, WidthsAreLeast DEF least
<1>6. Buffer(parcel.cells, least) \subseteq Buffer(parcel.cells, Width(class))
  BY <1>5, BufferWidens
<1>7. Buffer(parcel.cells, least) \subseteq Cuts(p, context)[0]
  BY <1>1, <1>3, <1>6
<1> QED
  BY <1>7 DEF least

(* The objects of the service's kind a strict norm keeps apart. *)
LEMMA ExistingAreCut ==
  ASSUME NEW p, NEW context, RulesFit(context.rules), NEW k \in DOMAIN context.rules,
         context.rules[k].effect = "exclude_near", context.rules[k].layer = "target",
         p.objects.given,
         NEW i \in DOMAIN p.objects.layer,
         ParcelKind(p.objects.layer[i].says, p.target) = "target"
  PROVE  Buffer(p.objects.layer[i].cells, context.rules[k].distance) \subseteq Cuts(p, context)[k]
<1> DEFINE housing  == Union(OfKind(p.parcels, p.target, "housing"))
           existing == Existing(p.parcels, p.objects, p.target)
           rule     == context.rules[k]
           object   == p.objects.layer[i]
           strict   == Applied(context.rules, "strict", housing, existing)
<1>1. object.cells \subseteq existing
  <2>1. object \in OfKind(p.objects.layer, p.target, "target")
    BY DEF OfKind
  <2>2. existing = Union(OfKind(p.objects.layer, p.target, "target"))
    BY DEF Existing
  <2> QED
    BY <2>1, <2>2 DEF Union
<1>2. LayerOf(rule, housing, existing) = existing
  BY DEF LayerOf
<1>3. k # 0 /\ rule.strictness = "strict"
  BY DEF RulesFit
<1>4. Cuts(p, context)[k] = IF rule \in strict THEN CutOf(rule, housing, existing) ELSE {}
  BY <1>3 DEF Cuts
<1> HIDE DEF housing, existing
<1>5. CASE existing = {}
  <2>1. object.cells = {}
    BY <1>1, <1>5
  <2> QED
    BY <2>1 DEF Buffer
<1>6. CASE existing # {}
  <2>1. rule \in strict
    BY <1>2, <1>3, <1>6 DEF Applied
  <2>2. Cuts(p, context)[k] = Buffer(existing, rule.distance)
    BY <1>2, <1>4, <2>1 DEF CutOf
  <2> QED
    BY <1>1, <2>2, BufferGrows
<1> QED
  BY <1>5, <1>6

(* A placement of p divides its zones and keeps clear of its cuts. *)
Divided(p, context, placed) ==
    LET parts == placed.parts
        suitable == UNION {part.cells : part \in {q \in parts : q.class \in Suitable}}
        least == Min({SzzWidth[k] : k \in DOMAIN SzzWidth})
    IN  /\ \A i \in {i \in DOMAIN p.zones : p.zones[i].code # NoKey} :
              /\ UNION {part.cells : part \in {q \in parts : q.zone = i}} = p.zones[i].cells
              /\ \A q, s \in parts :
                    q.zone = i /\ s.zone = i /\ q # s => q.cells \cap s.cells = {}
        /\ p.target.code \in Sensitive =>
              \A i \in DOMAIN p.parcels :
                  ParcelKind(p.parcels[i].says, p.target) = "production" =>
                      suitable \cap Buffer(p.parcels[i].cells, least) = {}
        /\ \A k \in DOMAIN context.rules :
              LET rule == context.rules[k] IN
              rule.effect = "exclude_near" /\ rule.layer = "target" /\ p.objects.given =>
                  \A i \in DOMAIN p.objects.layer :
                      ParcelKind(p.objects.layer[i].says, p.target) = "target" =>
                          suitable \cap Buffer(p.objects.layer[i].cells, rule.distance) = {}

LEMMA PlacedIsDivided ==
  ASSUME NEW p, NEW context, NEW mapping, ZonesFit(p.zones), RulesFit(context.rules)
  PROVE  Divided(p, context, Placed(p, context, mapping))
<1> DEFINE named == {i \in DOMAIN p.zones : p.zones[i].code # NoKey}
           parts == Placed(p, context, mapping).parts
           suitable == UNION {part.cells : part \in {q \in parts : q.class \in Suitable}}
           least == Min({SzzWidth[k] : k \in DOMAIN SzzWidth})
<1>1. parts = UNION {ZoneParts(p, context, mapping, i) : i \in named}
  BY DEF Placed
<1> HIDE DEF parts
<1>2. \A i \in named : {q \in parts : q.zone = i} = ZoneParts(p, context, mapping, i)
  BY <1>1, ZoneIsDivided
<1>3. ASSUME NEW i \in named
      PROVE  /\ UNION {part.cells : part \in {q \in parts : q.zone = i}} = p.zones[i].cells
             /\ \A q, s \in parts :
                   q.zone = i /\ s.zone = i /\ q # s => q.cells \cap s.cells = {}
  BY <1>2, ZoneIsDivided
<1>4. ASSUME NEW k \in DOMAIN Cuts(p, context) PROVE suitable \cap Cuts(p, context)[k] = {}
  <2>1. ASSUME NEW q \in parts, q.class \in Suitable PROVE q.cells \cap Cuts(p, context)[k] = {}
    <3>1. PICK i \in named : q \in ZoneParts(p, context, mapping, i)
      BY <1>1
    <3> QED
      BY <2>1, <3>1, ZoneIsDivided
  <2> QED
    BY <2>1
<1>5. DOMAIN Cuts(p, context) = {0} \cup DOMAIN context.rules
  BY CutsDomain
<1> HIDE DEF suitable
<1>6. ASSUME p.target.code \in Sensitive, NEW i \in DOMAIN p.parcels,
             ParcelKind(p.parcels[i].says, p.target) = "production"
      PROVE  suitable \cap Buffer(p.parcels[i].cells, least) = {}
  <2>1. Buffer(p.parcels[i].cells, least) \subseteq Cuts(p, context)[0]
    BY <1>6, ProductionIsCut
  <2>2. suitable \cap Cuts(p, context)[0] = {}
    BY <1>4, <1>5
  <2> QED
    BY <2>1, <2>2
<1>7. ASSUME NEW k \in DOMAIN context.rules, context.rules[k].effect = "exclude_near",
             context.rules[k].layer = "target", p.objects.given,
             NEW i \in DOMAIN p.objects.layer,
             ParcelKind(p.objects.layer[i].says, p.target) = "target"
      PROVE  suitable \cap Buffer(p.objects.layer[i].cells, context.rules[k].distance) = {}
  <2>1. Buffer(p.objects.layer[i].cells, context.rules[k].distance) \subseteq Cuts(p, context)[k]
    BY <1>7, ExistingAreCut
  <2>2. suitable \cap Cuts(p, context)[k] = {}
    BY <1>4, <1>5
  <2> QED
    BY <2>1, <2>2
<1> QED
  BY <1>3, <1>6, <1>7, Zenon DEF Divided, parts, suitable

(* What a runner leaves of a placement. *)
PlacementFits ==
    IsPlaced => /\ ZonesFit(result.p.zones) /\ RulesFit(result.context.rules)
                /\ result.placed = Placed(result.p, result.context, result.mapping)

(* A row is seen as what its request asks for, and the pipeline runs only rows *)
(* that are routed to it.                                                      *)
TaskFits ==
    branch = "file" =>
        /\ phase \in {"queued", "running"} => row # NoRow
        /\ row # NoRow => task.kind = KindOf(request)
        /\ phase = "running" => RunnerOf(row.made, Deterministic) = "pipeline"

PlacedInv == RowIsAccepted /\ ScenarioInv /\ TaskFits /\ PlacementFits

LEMMA PlacedFromFits ==
  ASSUME NEW code, NEW zones, NEW parcels, NEW objects, NEW labels, NEW codes, ZonesFit(zones),
         PlacedFrom(code, zones, parcels, objects, labels, codes)
  PROVE  PlacementFits'
<1>1. PICK documents \in BOOLEAN, norms \in BOOLEAN :
        LET p == [target |-> Targets[code], zones |-> zones, parcels |-> parcels,
                  objects |-> objects]
            context == ContextOf(codes, Graph, NoTerritory, documents, norms)
            mapping == Permissions(labels, Defaults, Numeric(zones), context)
        IN  result' = [p |-> p, context |-> context, mapping |-> mapping,
                       placed |-> Placed(p, context, mapping)]
  BY DEF PlacedFrom
<1>2. PICK p : p = [target |-> Targets[code], zones |-> zones, parcels |-> parcels,
                    objects |-> objects]
  OBVIOUS
<1>3. PICK context : context = ContextOf(codes, Graph, NoTerritory, documents, norms)
  OBVIOUS
<1>4. PICK mapping : mapping = Permissions(labels, Defaults, Numeric(zones), context)
  OBVIOUS
<1>5. result' = [p |-> p, context |-> context, mapping |-> mapping,
                 placed |-> Placed(p, context, mapping)]
  BY <1>1, <1>2, <1>3, <1>4
<1>6. RulesFit(context.rules)
  BY <1>3, NormsFit
<1>7. /\ result'.p = p /\ result'.context = context /\ result'.mapping = mapping
      /\ result'.placed = Placed(p, context, mapping) /\ p.zones = zones
  BY <1>2, <1>5
<1> QED
  BY <1>6, <1>7 DEF PlacementFits

(* Placements alone run as placements. *)
LEMMA RoutedAsAsked ==
  ASSUME RowIsAccepted, branch = "file", row # NoRow
  PROVE  /\ request \in Requests
         /\ KindOf(request) = "placement" => RunnerOf(row.made, Deterministic) = "placement"
<1>1. request \in Requests
  BY DEF RowIsAccepted
<1>2. PICK model, offers \in BOOLEAN, query \in Queries :
        AcceptedAs(model, offers, ServiceCodeOf(query))
  BY DEF RowIsAccepted
<1>3. request.mode \in Modes /\ (request.mode = "placement" => request.auto)
  BY <1>1, RequestsAssumption
<1>4. PICK code : code = ServiceCodeOf(query)
  OBVIOUS
<1>5. /\ AnswerOf(request, model, offers, code) = "created"
      /\ row.made = Created(request, model, code)
  BY <1>2, <1>4 DEF AcceptedAs
<1>6. ASSUME request.mode = "placement" PROVE RunnerOf(row.made, Deterministic) = "placement"
  <2>1. code # NoVri
    BY <1>3, <1>5, <1>6, CreatedPassed
  <2>2. row.made.code = code
    BY <1>5, <1>6 DEF Created
  <2> QED
    BY <2>1, <2>2 DEF RunnerOf
<1>7. KindOf(request) = "placement" => request.mode = "placement"
  BY <1>3 DEF KindOf, Modes
<1> QED
  BY <1>1, <1>6, <1>7

LEMMA ViewedKind ==
  ASSUME NEW kind, NEW slots, NEW code
  PROVE  View(kind, slots, code).kind = kind
BY DEF View

(* A scenario task that places is routed to the placement runner. *)
LEMMA ScenarioPlaced ==
  ASSUME ScenarioInv, NEW c \in Clients, RunScenario(c)
  PROVE  PlacementFits'
<1> DEFINE made == Answers(c)
<1>1. /\ Served(c) /\ branch = "scenario"
      /\ task' = View(IF IsPlacing(c) THEN "scenario_placement" ELSE "scenario",
                      ScenarioSlots(made), made.code)
  BY ScenarioRuns
<1>2. /\ ClientFits(clients[c], version, DOMAIN kept)
      /\ \A key \in DOMAIN kept : RowFits(key, kept[key])
  BY <1>1 DEF ScenarioInv
<1>3. made = kept[clients[c].answer[2]] /\ clients[c].answer[2] \in DOMAIN kept
  BY <1>1, <1>2 DEF ClientFits, Served, Answers
<1>4. /\ made.zones \in DOMAIN Contents
      /\ made.ask.kind # "place" <=> made.code = NoCodeFound
  BY <1>2, <1>3 DEF RowFits
<1>5. made.ask.kind = AskOf(c).kind
  BY <1>1, ScenarioInvServes DEF ServedFits
<1>6. task'.kind = IF IsPlacing(c) THEN "scenario_placement" ELSE "scenario"
  BY <1>1, ViewedKind
<1> HIDE DEF made
<1>7. ASSUME NEW parcels, NEW objects,
             PlacedFrom(made.code, Contents[made.zones].zones, parcels, objects,
                        ScenarioLabels(made), {})
      PROVE  PlacementFits'
  <2>1. ZonesFit(Contents[made.zones].zones)
    BY <1>4, LayersAssumption
  <2> QED
    BY <1>7, <2>1, PlacedFromFits
<1>8. CASE RunnerOf(ScenarioRowMade(made), Deterministic) = "scenario"
  <2>1. made.code = NoVri
    BY <1>8 DEF RunnerOf, ScenarioRowMade
  <2>2. ~IsPlacing(c)
    BY <1>4, <1>5, <2>1 DEF NoVri, NoCodeFound, IsPlacing
  <2>3. ~IsPlaced'
    BY <1>6, <2>2 DEF IsPlaced, IsPlacement
  <2> QED
    BY <2>3 DEF PlacementFits
<1>9. CASE phase' = "left to the pipeline"
  <2>1. ~IsPlaced'
    BY <1>9 DEF IsPlaced
  <2> QED
    BY <2>1 DEF PlacementFits
<1> QED
  BY <1>7, <1>8, <1>9, ScenarioRuns DEF made

LEMMA FilePlaced ==
  ASSUME PlacedInv, [Next]_vars, branch = "file"
  PROVE  TaskFits' /\ PlacementFits'
<1>0. branch' = branch /\ request' = request
  BY PipelineCases
<1>1. CASE Submit
  <2>1. PICK model \in BOOLEAN, offers \in BOOLEAN, query \in Queries :
          LET code == ServiceCodeOf(query)
              made == Created(request, model, code)
              answer == AnswerOf(request, model, offers, code)
          IN  IF answer # "created" THEN phase' = answer /\ UNCHANGED <<row, task>>
              ELSE /\ phase' = "queued"
                   /\ row' = [made |-> made, labels |-> LabelsOf(request, model)]
                   /\ task' = View(KindOf(request), made.slots, made.code)
    BY <1>1 DEF Submit
  <2>2. PICK code : code = ServiceCodeOf(query)
    OBVIOUS
  <2>3. PICK answer : answer = AnswerOf(request, model, offers, code)
    OBVIOUS
  <2>4. answer \notin {"finished", "queued", "running"}
    <3>1. request.mode \in Modes /\ (request.mode = "placement" => request.auto)
      BY RequestsAssumption DEF PlacedInv, RowIsAccepted
    <3> QED
      BY <2>3, <3>1, AnswersAreKnown DEF KnownAnswers, Refusals
  <2>5. CASE answer # "created"
    <3>1. phase' = answer /\ UNCHANGED <<row, task>>
      BY <2>1, <2>2, <2>3, <2>5
    <3> QED
      BY <1>0, <2>4, <3>1 DEF PlacedInv, TaskFits, PlacementFits, IsPlaced
  <2>6. CASE answer = "created"
    <3>1. PICK made : made = Created(request, model, code)
      OBVIOUS
    <3>2. /\ phase' = "queued"
          /\ row' = [made |-> made, labels |-> LabelsOf(request, model)]
          /\ task' = View(KindOf(request), made.slots, made.code)
      BY <2>1, <2>2, <2>3, <2>6, <3>1
    <3>3. task'.kind = KindOf(request)
      BY <3>2, ViewedKind
    <3>4. row' # NoRow
      <4>1. row'.made = made /\ DOMAIN row' = {"made", "labels"}
        BY <3>2
      <4>2. DOMAIN NoRow = {}
        BY DEF NoRow
      <4> QED
        BY <4>1, <4>2
    <3> QED
      BY <1>0, <3>2, <3>3, <3>4 DEF TaskFits, PlacementFits, IsPlaced
  <2> QED
    BY <2>5, <2>6
<1>2. CASE StartPipeline
  <2>1. /\ phase = "queued" /\ RunnerOf(row.made, Deterministic) = "pipeline"
        /\ phase' = "running" /\ row' = row /\ task' = task
    BY <1>2 DEF StartPipeline, Runs
  <2> QED
    BY <1>0, <2>1 DEF PlacedInv, TaskFits, PlacementFits, IsPlaced
<1>3. CASE RunPipeline
  BY <1>0, <1>3 DEF RunPipeline, flowVars, PlacedInv, TaskFits, PlacementFits, IsPlaced, IsPlacement
<1>4. ASSUME row' = row, task' = task, phase' \in {"finished", "failed"},
             phase \in {"queued", "running"}
      PROVE  /\ TaskFits'
             /\ RunnerOf(row.made, Deterministic) # "placement" => PlacementFits'
  <2>1. TaskFits'
    BY <1>0, <1>4 DEF PlacedInv, TaskFits
  <2>2. row # NoRow /\ task'.kind = KindOf(request)
    BY <1>4 DEF PlacedInv, TaskFits
  <2>3. KindOf(request) # "scenario_placement"
    BY DEF KindOf
  <2>4. RunnerOf(row.made, Deterministic) # "placement" => ~IsPlacement(task')
    BY <2>2, <2>3, RoutedAsAsked DEF PlacedInv, IsPlacement
  <2> QED
    BY <2>1, <2>4 DEF PlacementFits, IsPlaced, IsPlacement
<1>5. CASE EndPipeline
  <2>1. row' = row /\ task' = task /\ phase = "running" /\ phase' \in {"finished", "failed"}
    BY <1>5 DEF EndPipeline
  <2>2. RunnerOf(row.made, Deterministic) = "pipeline"
    BY <2>1 DEF PlacedInv, TaskFits
  <2> QED
    BY <1>4, <2>1, <2>2
<1>6. CASE RunBuildings
  <2>1. /\ row' = row /\ task' = task /\ phase = "queued" /\ phase' = "finished"
        /\ RunnerOf(row.made, Deterministic) = "building"
    BY <1>6 DEF RunBuildings, Runs
  <2> QED
    BY <1>4, <2>1
<1>7. CASE RunPlacement
  <2>1. row' = row /\ task' = task /\ phase = "queued" /\ phase' = "finished"
    BY <1>7 DEF RunPlacement, Runs
  <2>2. TaskFits'
    BY <1>4, <2>1
  <2>3. ZonesFit(request.zones)
    BY RequestsAssumption DEF PlacedInv, RowIsAccepted
  <2>4. PICK parcels, objects :
          PlacedFrom(row.made.code, request.zones, parcels, objects, row.labels,
                     ZoneCodesOf(request.zones))
    BY <1>7 DEF RunPlacement
  <2> QED
    BY <2>2, <2>3, <2>4, PlacedFromFits
<1>8. CASE UNCHANGED flowVars
  BY <1>8 DEF flowVars, PlacedInv, TaskFits, PlacementFits, IsPlaced, IsPlacement
<1>9. ASSUME NEW c \in Clients, RunScenario(c) PROVE FALSE
  BY <1>9, ScenarioRuns
<1>10. CASE ScenarioMoves \/ RegulationMoves \/ Done \/ UNCHANGED vars
  BY <1>8, <1>10 DEF ScenarioMoves, RegulationMoves, Done, vars
<1> QED
  BY <1>1, <1>2, <1>3, <1>5, <1>6, <1>7, <1>9, <1>10 DEF Next

(* Over a scenario, a row is made and run in one step. *)
LEMMA MovesOutsideFiles ==
  ASSUME [Next]_vars, branch # "file"
  PROVE  UNCHANGED flowVars \/ \E c \in Clients : RunScenario(c)
<1>1. ~(Submit \/ StartPipeline \/ RunPipeline \/ EndPipeline \/ RunBuildings \/ RunPlacement)
  BY DEF Submit, StartPipeline, RunPipeline, EndPipeline, RunBuildings, RunPlacement, Runs
<1>2. CASE ScenarioMoves \/ RegulationMoves \/ Done \/ UNCHANGED vars
  BY <1>2 DEF ScenarioMoves, RegulationMoves, Done, vars
<1> QED
  BY <1>1, <1>2 DEF Next

LEMMA PlacedInvInit == Init => PlacedInv
<1>1. Init => TaskFits /\ PlacementFits /\ RowIsAccepted
  BY DEF Init, TaskFits, PlacementFits, IsPlaced, RowIsAccepted, NoRow
<1> QED
  BY <1>1, ScenarioInvInit DEF PlacedInv

LEMMA PlacedInvStep == PlacedInv /\ [Next]_vars => PlacedInv'
<1> SUFFICES ASSUME PlacedInv, [Next]_vars PROVE PlacedInv'
  OBVIOUS
<1>1. RowIsAccepted' /\ ScenarioInv' /\ branch' = branch
  BY AcceptedStep, ScenarioInvStep, PipelineCases DEF PlacedInv
<1>2. CASE branch = "file"
  BY <1>1, <1>2, FilePlaced DEF PlacedInv
<1>3. CASE branch # "file"
  <2>1. TaskFits'
    BY <1>1, <1>3 DEF TaskFits
  <2>2. CASE UNCHANGED flowVars
    BY <1>1, <2>1, <2>2 DEF flowVars, PlacedInv, PlacementFits, IsPlaced, IsPlacement
  <2> QED
    BY <1>1, <1>3, <2>1, <2>2, MovesOutsideFiles, ScenarioPlaced DEF PlacedInv
<1> QED
  BY <1>2, <1>3

(* The parts of every placement that is shown, over files or a scenario,      *)
(* divide its zones, and what is suitable keeps clear of production by the     *)
(* least sanitary zone and of what a strict norm keeps apart, whatever the     *)
(* ground, the layers, the norms and their order (placement_pzz_runner.py      *)
(* run).                                                                       *)
THEOREM PlacementsPartition == Spec => []PlacementPartitions
<1>1. PlacedInv => PlacementPartitions
  <2> SUFFICES ASSUME PlacementFits, IsPlaced
               PROVE  Divided(result.p, result.context, result.placed)
    BY Zenon DEF PlacedInv, PlacementPartitions, Divided
  <2> QED
    BY PlacedIsDivided DEF PlacementFits
<1> QED
  BY <1>1, PlacedInvInit, PlacedInvStep, PTL DEF Spec
-----------------------------------------------------------------------------
(* Reports: what is counted by label, or by zone, adds up.                  *)

(* The length of a list is told by its places. *)
LEMMA SizeIs == ASSUME NEW s, NEW n \in Nat, DOMAIN s = 1..n PROVE Len(s) = n
OBVIOUS

(* How many of the lines bear one of the labels. *)
Bearing(lines, label, labels) == {i \in lines : label[i] \in labels}

(* One label more is the lines that bear it more. *)
LEMMA BearingOneMore ==
  ASSUME NEW lines, IsFiniteSet(lines), NEW label, NEW labels, NEW one \in labels
  PROVE  Cardinality(Bearing(lines, label, labels))
            = Cardinality(Bearing(lines, label, {one}))
                + Cardinality(Bearing(lines, label, labels \ {one}))
<1>1. /\ Bearing(lines, label, labels)
            = Bearing(lines, label, {one}) \cup Bearing(lines, label, labels \ {one})
      /\ Bearing(lines, label, {one}) \cap Bearing(lines, label, labels \ {one}) = {}
  BY DEF Bearing
<1>2. IsFiniteSet(Bearing(lines, label, {one})) /\ IsFiniteSet(Bearing(lines, label, labels \ {one}))
  BY FS_Subset DEF Bearing
<1>3. /\ Cardinality(Bearing(lines, label, {one})) \in Nat
      /\ Cardinality(Bearing(lines, label, labels \ {one})) \in Nat
  BY <1>2, FS_CardinalityType
<1>4. Cardinality(Bearing(lines, label, {one}) \cap Bearing(lines, label, labels \ {one})) = 0
  BY <1>1, FS_EmptySet
<1>5. PICK a : a = Bearing(lines, label, {one})
  OBVIOUS
<1>6. PICK b : b = Bearing(lines, label, labels \ {one})
  OBVIOUS
<1>7. Cardinality(a \cup b) = Cardinality(a) + Cardinality(b) - Cardinality(a \cap b)
  BY <1>2, <1>5, <1>6, FS_Union
<1> QED
  BY <1>1, <1>3, <1>4, <1>5, <1>6, <1>7

(* MapThenSumSet(LAMBDA v: F[v], V) where F counts. *)
IsIter(iter, F, V) ==
  iter = [s \in SUBSET V |-> IF s = {} THEN 0
            ELSE F[CHOOSE x \in s : TRUE] + iter[s \ {CHOOSE x \in s : TRUE}]]

Counts(F, lines, label, V) == \A v \in V : F[v] = Cardinality(Bearing(lines, label, {v}))

(* MapThenSumSet is defined by iteration over subsets; where what is summed    *)
(* counts lines, counting is such an iteration,                                 *)
LEMMA IterExists ==
  ASSUME NEW lines, IsFiniteSet(lines), NEW label, NEW V, NEW F, Counts(F, lines, label, V)
  PROVE  IsIter([s \in SUBSET V |-> Cardinality(Bearing(lines, label, s))], F, V)
<1> DEFINE iter == [s \in SUBSET V |-> Cardinality(Bearing(lines, label, s))]
<1>1. ASSUME NEW s \in SUBSET V
      PROVE iter[s] = IF s = {} THEN 0
            ELSE F[CHOOSE x \in s : TRUE] + iter[s \ {CHOOSE x \in s : TRUE}]
  <2>1. CASE s = {}
    <3>1. Bearing(lines, label, {}) = {}
      BY DEF Bearing
    <3> QED
      BY <2>1, <3>1, FS_EmptySet
  <2>2. CASE s # {}
    <3>1. PICK one : one = CHOOSE x \in s : TRUE
      OBVIOUS
    <3>2. one \in s /\ one \in V
      BY <2>2, <3>1
    <3>3. F[one] = Cardinality(Bearing(lines, label, {one}))
      BY <3>2 DEF Counts
    <3>4. iter[s \ {one}] = Cardinality(Bearing(lines, label, s \ {one}))
      OBVIOUS
    <3>5. iter[s] = Cardinality(Bearing(lines, label, {one}))
                        + Cardinality(Bearing(lines, label, s \ {one}))
      BY <3>2, BearingOneMore
    <3> HIDE DEF iter
    <3> QED
      BY <2>2, <3>1, <3>3, <3>4, <3>5
  <2> QED
    BY <2>1, <2>2
<1> QED
  BY <1>1 DEF IsIter

(* and there is no other: a smallest set of labels on which two of them differ *)
(* would have a smaller one.                                                    *)
LEMMA IterCounts ==
  ASSUME NEW lines, IsFiniteSet(lines), NEW label, NEW V, IsFiniteSet(V), NEW F, NEW iter,
         Counts(F, lines, label, V), IsIter(iter, F, V)
  PROVE  iter[V] = Cardinality(Bearing(lines, label, V))
<1> DEFINE Wrong == {s \in SUBSET V : iter[s] # Cardinality(Bearing(lines, label, s))}
           Sizes == {Cardinality(s) : s \in Wrong}
<1>1. \A s \in SUBSET V : IsFiniteSet(s) /\ Cardinality(s) \in Nat
  BY FS_Subset, FS_CardinalityType
<1> SUFFICES ASSUME Wrong # {} PROVE FALSE
  OBVIOUS
<1>2. PICK least \in Sizes : \A other \in Sizes : least <= other
  <2>1. Sizes \subseteq Nat /\ Sizes # {}
    BY <1>1
  <2> HIDE DEF Sizes
  <2> QED
    BY <2>1, LeastNumber
<1>3. PICK s \in Wrong : Cardinality(s) = least
  OBVIOUS
<1>4. iter[s] = IF s = {} THEN 0
            ELSE F[CHOOSE x \in s : TRUE] + iter[s \ {CHOOSE x \in s : TRUE}]
  BY DEF IsIter
<1>5. s # {}
  <2>1. Bearing(lines, label, {}) = {}
    BY DEF Bearing
  <2> QED
    BY <1>3, <1>4, <2>1, FS_EmptySet
<1>6. PICK one : one = CHOOSE x \in s : TRUE
  OBVIOUS
<1>7. one \in s /\ one \in V
  BY <1>5, <1>6
<1>8. Cardinality(s \ {one}) < Cardinality(s)
  <2>1. Cardinality(s \ {one}) = Cardinality(s) - 1
    BY <1>1, <1>7, FS_RemoveElement
  <2> QED
    BY <1>1, <2>1
<1>9. s \ {one} \notin Wrong
  <2>1. ASSUME s \ {one} \in Wrong PROVE FALSE
    <3>1. Cardinality(s \ {one}) \in Sizes
      BY <2>1
    <3>2. least <= Cardinality(s \ {one}) /\ least \in Nat /\ Cardinality(s \ {one}) \in Nat
      BY <1>1, <1>2, <1>3, <3>1
    <3> QED
      BY <1>3, <1>8, <3>2
  <2> QED
    BY <2>1
<1>10. iter[s \ {one}] = Cardinality(Bearing(lines, label, s \ {one}))
  BY <1>9
<1>11. iter[s] = Cardinality(Bearing(lines, label, {one}))
                    + Cardinality(Bearing(lines, label, s \ {one}))
  BY <1>4, <1>5, <1>6, <1>7, <1>10 DEF Counts
<1>12. iter[s] = Cardinality(Bearing(lines, label, s))
  BY <1>7, <1>11, BearingOneMore
<1> QED
  BY <1>3, <1>12

SumOf(F, V) == MapThenSumSet(LAMBDA v : F[v], V)

(* So counts by label add up to the count of all that bear one.                *)
LEMMA CountsAddUp ==
  ASSUME NEW lines, IsFiniteSet(lines), NEW label, NEW V, IsFiniteSet(V), NEW F,
         Counts(F, lines, label, V)
  PROVE  SumOf(F, V) = Cardinality(Bearing(lines, label, V))
<1>1. PICK iter : /\ IsIter(iter, F, V)
                  /\ MapThenSumSet(LAMBDA v : F[v], V) = iter[V]
  <2> DEFINE iter == CHOOSE it : it = [s \in SUBSET V |-> IF s = {} THEN 0
                        ELSE F[CHOOSE x \in s : TRUE] + it[s \ {CHOOSE x \in s : TRUE}]]
  <2>1. MapThenSumSet(LAMBDA v : F[v], V) = iter[V]
    BY DEF MapThenSumSet, MapThenFoldSet
  <2>2. IsIter(iter, F, V)
    <3>1. \E it : IsIter(it, F, V)
      BY IterExists
    <3> QED
      BY <3>1 DEF IsIter
  <2> QED
    BY <2>1, <2>2
<1> QED
  BY <1>1, IterCounts DEF SumOf

Rank(ids, i) == Cardinality({j \in ids : j <= i})

(* The numbers up to the one taken, and how many they are.                     *)
LEMMA RankSizes ==
  ASSUME NEW ids, ids \subseteq Nat, IsFiniteSet(ids), NEW i \in ids
  PROVE  /\ IsFiniteSet({j \in ids : j <= i})
         /\ Rank(ids, i) \in Nat /\ Rank(ids, i) > 0 /\ Rank(ids, i) <= Cardinality(ids)
         /\ \A k \in ids : i < k => Rank(ids, i) < Rank(ids, k)
<1>1. ASSUME NEW k \in ids
      PROVE  /\ IsFiniteSet({j \in ids : j <= k}) /\ Rank(ids, k) \in Nat
             /\ Rank(ids, k) <= Cardinality(ids)
  BY FS_Subset, FS_CardinalityType DEF Rank
<1>2. Rank(ids, i) # 0
  <2>1. i \in {j \in ids : j <= i}
    OBVIOUS
  <2> QED
    BY <1>1, <2>1, FS_EmptySet DEF Rank
<1>3. ASSUME NEW k \in ids, i < k PROVE Rank(ids, i) < Rank(ids, k)
  <2>1. PICK low : low = {j \in ids : j <= i}
    OBVIOUS
  <2>2. PICK high : high = {j \in ids : j <= k}
    OBVIOUS
  <2>3. low \subseteq high /\ low # high
    <3>1. k \in high /\ k \notin low /\ \A j \in ids : j <= i => j <= k
      BY <1>3, <2>1, <2>2
    <3> QED
      BY <2>1, <2>2, <3>1
  <2>4. IsFiniteSet(high) /\ IsFiniteSet(low)
    BY <1>1, <2>1, <2>2
  <2>5. Cardinality(low) <= Cardinality(high) /\ Cardinality(low) # Cardinality(high)
    BY <2>3, <2>4, FS_Subset
  <2>6. Rank(ids, i) = Cardinality(low) /\ Rank(ids, k) = Cardinality(high)
    BY <2>1, <2>2 DEF Rank
  <2>7. Rank(ids, i) \in Nat /\ Rank(ids, k) \in Nat
    BY <1>1
  <2> QED
    BY <2>5, <2>6, <2>7
<1> QED
  BY <1>1, <1>2, <1>3

FirstOnes(ids, cap) == {i \in ids : Rank(ids, i) <= cap}

LEMMA OneMoreRow ==
  ASSUME NEW ids, ids \subseteq Nat, IsFiniteSet(ids), NEW cap \in Nat,
         Cardinality(FirstOnes(ids, cap)) = cap, cap < Cardinality(ids)
  PROVE  Cardinality(FirstOnes(ids, cap + 1)) = cap + 1
<1> DEFINE first == FirstOnes(ids, cap)
<1>0. first \subseteq ids /\ IsFiniteSet(first)
  BY FS_Subset DEF FirstOnes
<1>1. PICK m \in ids \ first : \A other \in ids \ first : m <= other
  <2>1. ids \ first # {}
    <3>1. first # ids
      BY FS_CardinalityType
    <3> QED
      BY <1>0, <3>1
  <2>2. PICK left : left = ids \ first
    OBVIOUS
  <2>3. left \subseteq Nat /\ left # {}
    BY <2>1, <2>2
  <2> QED
    BY <2>2, <2>3, LeastNumber
<1>2. \A i \in ids : i \in first <=> Rank(ids, i) <= cap
  BY DEF FirstOnes
<1>3. \A i \in ids : i \in Nat /\ Rank(ids, i) \in Nat
  BY RankSizes
<1> HIDE DEF first
<1>4. {j \in ids : j <= m} = first \cup {m}
  <2>1. ASSUME NEW j \in ids, j <= m, j # m PROVE j \in first
    BY <1>1, <1>3, <2>1
  <2>2. ASSUME NEW j \in first PROVE j \in ids /\ j <= m
    <3>1. j \in ids /\ Rank(ids, j) <= cap /\ ~(Rank(ids, m) <= cap)
      BY <1>0, <1>1, <1>2, <2>2
    <3>2. m < j => Rank(ids, m) < Rank(ids, j)
      BY <1>1, <3>1, RankSizes
    <3>3. ~(m < j)
      BY <1>1, <1>3, <3>1, <3>2
    <3> QED
      BY <1>1, <1>3, <3>1, <3>3
  <2>3. m <= m
    BY <1>3
  <2> QED
    BY <2>1, <2>2, <2>3
<1>5. IsFiniteSet(first \cup {m}) /\ Cardinality(first \cup {m}) = cap + 1
  BY <1>0, <1>1, FS_AddElement DEF first
<1>6. Rank(ids, m) = cap + 1
  BY <1>4, <1>5 DEF Rank
<1>7. FirstOnes(ids, cap + 1) = first \cup {m}
  <2>1. ASSUME NEW i \in ids, Rank(ids, i) <= cap + 1 PROVE i \in first \cup {m}
    <3>1. CASE i \in ids \ first /\ i # m
      <4>1. m < i
        BY <1>1, <1>3, <3>1
      <4>2. Rank(ids, m) < Rank(ids, i)
        BY <4>1, RankSizes
      <4> QED
        BY <1>3, <1>6, <2>1, <4>2
    <3> QED
      BY <3>1
  <2>2. \A i \in first : i \in ids /\ Rank(ids, i) <= cap + 1
    BY <1>0, <1>2, <1>3
  <2>3. Rank(ids, m) <= cap + 1
    BY <1>3, <1>6
  <2> QED
    BY <2>1, <2>2, <2>3 DEF FirstOnes
<1> QED
  BY <1>5, <1>7

(* Of a set of numbers the first ones up to a cap are as many as the cap says, *)
(* or all of them.                                                              *)
LEMMA FirstOnesAre ==
  ASSUME NEW ids, ids \subseteq Nat, IsFiniteSet(ids)
  PROVE  \A cap \in Nat : Cardinality(FirstOnes(ids, cap))
                             = IF cap <= Cardinality(ids) THEN cap ELSE Cardinality(ids)
<1> DEFINE S == {cap \in Nat : Cardinality(FirstOnes(ids, cap))
                             = IF cap <= Cardinality(ids) THEN cap ELSE Cardinality(ids)}
<1>0. Cardinality(ids) \in Nat
  BY FS_CardinalityType
<1>1. 0 \in S
  <2>1. ASSUME NEW i \in ids PROVE ~(Rank(ids, i) <= 0)
    <3>1. Rank(ids, i) \in Nat /\ Rank(ids, i) > 0
      BY RankSizes
    <3> QED
      BY <3>1
  <2>2. FirstOnes(ids, 0) = {}
    BY <2>1 DEF FirstOnes
  <2> QED
    BY <1>0, <2>2, FS_EmptySet
<1>2. ASSUME NEW cap \in Nat, cap \in S PROVE cap + 1 \in S
  <2>1. CASE cap < Cardinality(ids)
    <3>1. Cardinality(FirstOnes(ids, cap)) = cap
      BY <1>0, <1>2, <2>1
    <3>2. Cardinality(FirstOnes(ids, cap + 1)) = cap + 1
      BY <2>1, <3>1, OneMoreRow
    <3> QED
      BY <1>0, <2>1, <3>2
  <2>2. CASE ~(cap < Cardinality(ids))
    <3>1. ASSUME NEW i \in ids PROVE Rank(ids, i) <= cap + 1
      <4>1. Rank(ids, i) \in Nat /\ Rank(ids, i) <= Cardinality(ids)
        BY RankSizes
      <4> QED
        BY <1>0, <2>2, <4>1
    <3>2. FirstOnes(ids, cap + 1) = ids
      BY <3>1 DEF FirstOnes
    <3> QED
      BY <1>0, <2>2, <3>2
  <2> QED
    BY <2>1, <2>2
<1> HIDE DEF S
<1>3. Nat \subseteq S
  BY <1>1, <1>2, Induction
<1> QED
  BY <1>3 DEF S


(* What a report says of its lines. *)
AddsUp(shown, building) ==
    LET report == ZoneFitReport(shown, building)
        sum(f) == MapThenSumSet(LAMBDA k : f[k], DOMAIN f)
    IN  /\ report.summary.correct + report.summary.wrong + report.summary.unclear = Len(shown)
        /\ sum([z \in DOMAIN report.zones |-> report.zones[z].unclear])
              = report.summary.unclear
        /\ sum([v \in ReviewReasons(report) |-> report.by_verdict[v]])
              = report.summary.unclear
        /\ \A cap \in 0..Len(shown) :
              Cardinality(GroundingRows(shown, FALSE, cap))
                  = Min({cap, report.summary.wrong + report.summary.unclear})
        /\ report.by_category # <<>> =>
              \A c \in {"building", "service"} : report.by_category[c]
                  = Cardinality(SplitLayer(shown, IF c = "service" THEN "result_services"
                                                     ELSE "result_buildings"))

Values(lines, label) == {label[i] : i \in lines}

(* Finitely many lines bear finitely many labels. *)
LEMMA ValuesAreFinite ==
  ASSUME NEW lines, IsFiniteSet(lines), NEW label
  PROVE  IsFiniteSet(Values(lines, label))
<1>1. PICK values : values = Values(lines, label)
  OBVIOUS
<1>2. PICK f : f = [i \in lines |-> label[i]]
  OBVIOUS
<1>3. f \in [lines -> values] /\ \A v \in values : \E i \in lines : f[i] = v
  BY <1>1, <1>2 DEF Values
<1>4. f \in Surjection(lines, values)
  BY <1>3 DEF Surjection
<1> QED
  BY <1>1, <1>4, FS_Surjection

LEMMA FitIsOneOf ==
  ASSUME NEW verdict
  PROVE  /\ Fit(verdict) \in {"correct", "wrong", "unclear"}
         /\ Fit(verdict) = "unclear" <=> verdict \notin CorrectLabels \cup WrongLabels
BY DEF Fit, CorrectLabels, WrongLabels

(* The lines by the way they fit. *)
Amiss(lines, fit) == {i \in lines : fit[i] # "correct"}

(* What fits, what does not and what is unclear divide the lines. *)
LEMMA FitsDivide ==
  ASSUME NEW lines, IsFiniteSet(lines), NEW fit,
         \A i \in lines : fit[i] \in {"correct", "wrong", "unclear"}
  PROVE  /\ Cardinality(lines) \in Nat
         /\ \A f \in {"correct", "wrong", "unclear"} : Cardinality(Bearing(lines, fit, {f})) \in Nat
         /\ Cardinality(Bearing(lines, fit, {"correct"})) + Cardinality(Bearing(lines, fit, {"wrong"}))
                + Cardinality(Bearing(lines, fit, {"unclear"})) = Cardinality(lines)
         /\ Cardinality(Bearing(lines, fit, {"wrong"})) + Cardinality(Bearing(lines, fit, {"unclear"}))
                = Cardinality(Amiss(lines, fit))
<1> DEFINE two == {"wrong", "unclear"}
           all == {"correct", "wrong", "unclear"}
<1>1. ASSUME NEW labels PROVE IsFiniteSet(Bearing(lines, fit, labels))
                              /\ Cardinality(Bearing(lines, fit, labels)) \in Nat
  BY FS_Subset, FS_CardinalityType DEF Bearing
<1>2. Cardinality(Bearing(lines, fit, all))
         = Cardinality(Bearing(lines, fit, {"correct"})) + Cardinality(Bearing(lines, fit, two))
  <2>1. all \ {"correct"} = two
    OBVIOUS
  <2> QED
    BY <2>1, BearingOneMore
<1>3. Cardinality(Bearing(lines, fit, two))
         = Cardinality(Bearing(lines, fit, {"wrong"})) + Cardinality(Bearing(lines, fit, {"unclear"}))
  <2>1. two \ {"wrong"} = {"unclear"}
    OBVIOUS
  <2> QED
    BY <2>1, BearingOneMore
<1>4. Bearing(lines, fit, all) = lines /\ Bearing(lines, fit, two) = Amiss(lines, fit)
  BY DEF Bearing, Amiss
<1>5. Cardinality(lines) \in Nat
  BY FS_CardinalityType
<1>6. /\ Cardinality(Bearing(lines, fit, {"correct"})) \in Nat
      /\ Cardinality(Bearing(lines, fit, {"wrong"})) \in Nat
      /\ Cardinality(Bearing(lines, fit, {"unclear"})) \in Nat
  BY <1>1
<1>7. Cardinality(Bearing(lines, fit, {"correct"})) + Cardinality(Bearing(lines, fit, {"wrong"}))
         + Cardinality(Bearing(lines, fit, {"unclear"})) = Cardinality(lines)
  <2> HIDE DEF two, all
  <2> QED
    BY <1>2, <1>3, <1>4, <1>6
<1>8. Cardinality(Bearing(lines, fit, {"wrong"})) + Cardinality(Bearing(lines, fit, {"unclear"}))
         = Cardinality(Amiss(lines, fit))
  BY <1>3, <1>4
<1> QED
  BY <1>1, <1>5, <1>7, <1>8

Says(report, shown, lines, fit) ==
    /\ report.summary.correct = Cardinality(Bearing(lines, fit, {"correct"}))
    /\ report.summary.wrong = Cardinality(Bearing(lines, fit, {"wrong"}))
    /\ report.summary.unclear = Cardinality(Bearing(lines, fit, {"unclear"}))
    /\ DOMAIN report.zones = {shown[i].zone : i \in lines}
    /\ \A z \in DOMAIN report.zones : report.zones[z].unclear =
          Cardinality({i \in {k \in lines : shown[k].zone = z} : Fit(shown[i].verdict) = "unclear"})
    /\ DOMAIN report.by_verdict = {shown[i].verdict : i \in lines}
    /\ \A v \in DOMAIN report.by_verdict :
          report.by_verdict[v] = Cardinality({i \in lines : shown[i].verdict = v})

LEMMA ReportSays ==
  ASSUME NEW shown, NEW building, NEW lines, lines = DOMAIN shown,
         NEW fit, fit = [i \in lines |-> Fit(shown[i].verdict)]
  PROVE  Says(ZoneFitReport(shown, building), shown, lines, fit)
<1>1. \A f : Bearing(lines, fit, {f}) = {i \in lines : Fit(shown[i].verdict) = f}
  BY DEF Bearing
<1> QED
  BY <1>1 DEF Says, ZoneFitReport, Totals, ZoneCodes

(* Every report adds up, whatever the lines of its result carry. *)
LEMMA ReportsAddUp ==
  ASSUME NEW shown, NEW n \in Nat, DOMAIN shown = 1..n, NEW building
  PROVE  AddsUp(shown, building)
<1>1. PICK report : report = ZoneFitReport(shown, building)
  OBVIOUS
<1>2. PICK lines : lines = 1..n
  OBVIOUS
<1>3. PICK fit : fit = [i \in lines |-> Fit(shown[i].verdict)]
  OBVIOUS
<1>4. lines = DOMAIN shown /\ IsFiniteSet(lines) /\ Cardinality(lines) = n /\ Len(shown) = n
      /\ lines \subseteq Nat
  BY <1>2, FS_Interval, SizeIs
<1>5. \A i \in lines : fit[i] = Fit(shown[i].verdict)
                        /\ fit[i] \in {"correct", "wrong", "unclear"}
  BY <1>3, FitIsOneOf
<1>6. /\ report.summary.correct = Cardinality(Bearing(lines, fit, {"correct"}))
      /\ report.summary.wrong = Cardinality(Bearing(lines, fit, {"wrong"}))
      /\ report.summary.unclear = Cardinality(Bearing(lines, fit, {"unclear"}))
      /\ DOMAIN report.zones = {shown[i].zone : i \in lines}
      /\ \A z \in DOMAIN report.zones : report.zones[z].unclear =
            Cardinality({i \in {k \in lines : shown[k].zone = z} : Fit(shown[i].verdict) = "unclear"})
      /\ DOMAIN report.by_verdict = {shown[i].verdict : i \in lines}
      /\ \A v \in DOMAIN report.by_verdict :
            report.by_verdict[v] = Cardinality({i \in lines : shown[i].verdict = v})
  <2>1. Says(report, shown, lines, fit)
    BY <1>1, <1>3, <1>4, ReportSays
  <2> QED
    BY <2>1 DEF Says
<1>7. /\ report.summary.correct + report.summary.wrong + report.summary.unclear = Len(shown)
      /\ report.summary.wrong + report.summary.unclear = Cardinality(Amiss(lines, fit))
  BY <1>4, <1>5, <1>6, FitsDivide
<1>8. PICK unclear : unclear = Bearing(lines, fit, {"unclear"})
  OBVIOUS
<1>9. unclear \subseteq lines /\ IsFiniteSet(unclear) /\ report.summary.unclear = Cardinality(unclear)
      /\ unclear = {i \in lines : Fit(shown[i].verdict) = "unclear"}
  <2>1. unclear = {i \in lines : Fit(shown[i].verdict) = "unclear"}
    BY <1>5, <1>8 DEF Bearing
  <2> QED
    BY <1>4, <1>6, <1>8, <2>1, FS_Subset
<1>10. ASSUME NEW f, f = [z \in DOMAIN report.zones |-> report.zones[z].unclear]
       PROVE  SumOf(f, DOMAIN f) = report.summary.unclear
  <2>1. PICK zone : zone = [i \in lines |-> shown[i].zone]
    OBVIOUS
  <2>2. PICK codes : codes = {shown[i].zone : i \in lines}
    OBVIOUS
  <2>3. IsFiniteSet(codes) /\ DOMAIN f = codes
    <3>1. codes = Values(lines, zone)
      BY <2>1, <2>2 DEF Values
    <3>2. IsFiniteSet(Values(lines, zone))
      BY <1>4, ValuesAreFinite
    <3> QED
      BY <1>6, <1>10, <2>2, <3>1, <3>2
  <2>4. ASSUME NEW z \in codes PROVE f[z] = Cardinality(Bearing(unclear, zone, {z}))
    <3>1. {i \in {k \in lines : shown[k].zone = z} : Fit(shown[i].verdict) = "unclear"}
             = Bearing(unclear, zone, {z})
      BY <1>9, <2>1 DEF Bearing
    <3> QED
      BY <1>6, <1>10, <2>2, <2>4, <3>1
  <2>5. Bearing(unclear, zone, codes) = unclear
    BY <1>9, <2>1, <2>2 DEF Bearing
  <2>6. Counts(f, unclear, zone, codes)
    BY <2>4 DEF Counts
  <2>7. SumOf(f, codes) = Cardinality(Bearing(unclear, zone, codes))
    BY <1>9, <2>3, <2>6, CountsAddUp
  <2> QED
    BY <1>9, <2>3, <2>5, <2>7
<1>11. ASSUME NEW f, f = [v \in ReviewReasons(report) |-> report.by_verdict[v]]
       PROVE  SumOf(f, DOMAIN f) = report.summary.unclear
  <2>1. PICK verdict : verdict = [i \in lines |-> shown[i].verdict]
    OBVIOUS
  <2>2. PICK reasons : reasons = ReviewReasons(report)
    OBVIOUS
  <2>3. reasons \subseteq {shown[i].verdict : i \in lines} /\ DOMAIN f = reasons
    BY <1>6, <1>11, <2>2 DEF ReviewReasons
  <2>4. IsFiniteSet(reasons)
    <3>1. reasons \subseteq Values(lines, verdict)
      BY <2>1, <2>3 DEF Values
    <3>2. IsFiniteSet(Values(lines, verdict))
      BY <1>4, ValuesAreFinite
    <3> QED
      BY <3>1, <3>2, FS_Subset
  <2>5. ASSUME NEW v \in reasons PROVE f[v] = Cardinality(Bearing(lines, verdict, {v}))
    <3>1. {i \in lines : shown[i].verdict = v} = Bearing(lines, verdict, {v})
      BY <2>1 DEF Bearing
    <3> QED
      BY <1>6, <1>11, <2>2, <2>3, <2>5, <3>1
  <2>6. Bearing(lines, verdict, reasons) = unclear
    <3>1. \A i \in lines : shown[i].verdict \in reasons <=> Fit(shown[i].verdict) = "unclear"
      BY <1>6, <2>2, FitIsOneOf DEF ReviewReasons
    <3> QED
      BY <1>9, <2>1, <3>1 DEF Bearing
  <2>7. Counts(f, lines, verdict, reasons)
    BY <2>5 DEF Counts
  <2>8. SumOf(f, reasons) = Cardinality(Bearing(lines, verdict, reasons))
    BY <1>4, <2>4, <2>7, CountsAddUp
  <2> QED
    BY <1>9, <2>3, <2>6, <2>8
<1>12. ASSUME NEW cap \in 0..Len(shown)
       PROVE  Cardinality(GroundingRows(shown, FALSE, cap))
                 = Min({cap, report.summary.wrong + report.summary.unclear})
  <2>1. PICK problem : problem = Amiss(lines, fit)
    OBVIOUS
  <2>2. problem = {i \in DOMAIN shown : Fit(shown[i].verdict) # "correct"}
    BY <1>4, <1>5, <2>1 DEF Amiss
  <2>3. GroundingRows(shown, FALSE, cap) = FirstOnes(problem, cap)
    BY <2>2, Zenon DEF GroundingRows, FirstOnes, Rank
  <2>4. problem \subseteq Nat /\ IsFiniteSet(problem) /\ Cardinality(problem) \in Nat /\ cap \in Nat
    BY <1>4, <2>1, FS_Subset, FS_CardinalityType DEF Amiss
  <2>5. Cardinality(FirstOnes(problem, cap))
           = IF cap <= Cardinality(problem) THEN cap ELSE Cardinality(problem)
    BY <2>4, FirstOnesAre
  <2>6. PICK size : size = Cardinality(problem)
    OBVIOUS
  <2>7. Min({cap, size}) = IF cap <= size THEN cap ELSE size
    <3>1. Min({cap, size}) \in {cap, size} /\ \A other \in {cap, size} : Min({cap, size}) <= other
      <4>1. {cap, size} \subseteq Nat /\ {cap, size} # {}
        BY <2>4, <2>6
      <4> QED
        BY <4>1, MinIsLeast
    <3> QED
      BY <2>4, <2>6, <3>1
  <2> QED
    BY <1>7, <2>1, <2>3, <2>5, <2>6, <2>7
<1>13. ASSUME report.by_category # <<>>, NEW c \in {"building", "service"}
       PROVE  report.by_category[c]
                 = Cardinality(SplitLayer(shown, IF c = "service" THEN "result_services"
                                                    ELSE "result_buildings"))
  <2>1. SplitLayer(shown, IF c = "service" THEN "result_services" ELSE "result_buildings")
           = {i \in DOMAIN shown : Category(shown[i]) = c}
    BY DEF SplitLayer
  <2>2. report.by_category = IF building
          THEN [d \in {"building", "service"} |->
                  Cardinality({i \in DOMAIN shown : Category(shown[i]) = d})]
          ELSE <<>>
    BY <1>1 DEF ZoneFitReport
  <2>3. building
    BY <1>13, <2>2
  <2> QED
    BY <2>1, <2>2, <2>3
<1> QED
  BY <1>1, <1>7, <1>10, <1>11, <1>12, <1>13 DEF AddsUp, SumOf
-----------------------------------------------------------------------------
(* Overlaps and links.                                                     *)

(* The overlaps of parcels, as the summary and the columns count them. *)
Counted(o) ==
    LET parcelsWhere(Which(_)) == Cardinality({i \in DOMAIN o.notes : Which(o.notes[i])})
    IN  /\ o.summary.parcels_with_overlaps = parcelsWhere(LAMBDA n : n.parcels # {})
        /\ o.summary.parcels_in_multiple_zones = parcelsWhere(LAMBDA n : n.zones # {})
        /\ o.summary.parcels_in_multiple_mo = parcelsWhere(LAMBDA n : n.straddles)
        /\ o.summary.parcels_outside_mo = parcelsWhere(LAMBDA n : n.outside)

LEMMA PairIs == ASSUME NEW S, NEW T, NEW p \in S \X T
                PROVE  p[1] \in S /\ p[2] \in T /\ p = <<p[1], p[2]>>
OBVIOUS

LEMMA PairsAreOfLayer ==
  ASSUME NEW layer, NEW pair \in LayerOverlaps(layer)
  PROVE  \E a \in DOMAIN layer, b \in DOMAIN layer :
            pair = <<a, b>> /\ pair[1] = a /\ pair[2] = b
<1>1. pair \in Polygons(layer) \X Polygons(layer)
  BY Zenon DEF LayerOverlaps
<1>2. pair[1] \in Polygons(layer) /\ pair[2] \in Polygons(layer) /\ pair = <<pair[1], pair[2]>>
  BY <1>1, PairIs
<1>3. pair[1] \in DOMAIN layer /\ pair[2] \in DOMAIN layer
  BY <1>2 DEF Polygons
<1> QED
  BY <1>2, <1>3, Zenon

(* A parcel is noted to overlap another where it is in a pair, and so on. *)
LEMMA OverlapsCounted ==
  ASSUME NEW parcels, NEW zones, NEW mo, NEW o,
         o = [summary |-> Summary(parcels, zones, mo),
              notes |-> [i \in DOMAIN parcels |-> Notes(parcels, i, zones, mo)]]
  PROVE  Counted(o)
<1>1. PICK notes : notes = [i \in DOMAIN parcels |-> Notes(parcels, i, zones, mo)]
  OBVIOUS
<1>2. PICK summary : summary = Summary(parcels, zones, mo)
  OBVIOUS
<1>3. o.notes = notes /\ o.summary = summary /\ DOMAIN notes = DOMAIN parcels
  BY <1>1, <1>2
<1>4. PICK pairs : pairs = LayerOverlaps(parcels)
  OBVIOUS
<1>5. ASSUME NEW i \in DOMAIN parcels
      PROVE  /\ notes[i].parcels = {j \in DOMAIN parcels : <<i, j>> \in pairs \/ <<j, i>> \in pairs}
             /\ notes[i].zones = IF Cardinality(Shares(parcels[i], zones)) > 1
                                 THEN Shares(parcels[i], zones) ELSE {}
             /\ notes[i].straddles = Straddles(parcels[i], mo)
             /\ notes[i].outside = Outside(parcels[i], mo)
  BY <1>1, <1>4 DEF Notes
<1>6. /\ summary.parcels_with_overlaps = Cardinality(UNION {{pair[1], pair[2]} : pair \in pairs})
      /\ summary.parcels_in_multiple_zones =
            Cardinality({i \in DOMAIN parcels : Cardinality(Shares(parcels[i], zones)) > 1})
      /\ summary.parcels_in_multiple_mo = Cardinality({i \in DOMAIN parcels : Straddles(parcels[i], mo)})
      /\ summary.parcels_outside_mo = Cardinality({i \in DOMAIN parcels : Outside(parcels[i], mo)})
  BY <1>2, <1>4 DEF Summary
<1>7. UNION {{pair[1], pair[2]} : pair \in pairs} = {i \in DOMAIN notes : notes[i].parcels # {}}
  <2>2. ASSUME NEW pair \in pairs, NEW i \in {pair[1], pair[2]}
        PROVE  i \in DOMAIN notes /\ notes[i].parcels # {}
    <3>1. PICK a \in DOMAIN parcels, b \in DOMAIN parcels :
             pair = <<a, b>> /\ pair[1] = a /\ pair[2] = b
      BY <1>4, PairsAreOfLayer
    <3>2. CASE i = pair[1]
      <4>1. b \in notes[i].parcels
        BY <1>5, <3>1, <3>2
      <4> QED
        BY <1>3, <3>1, <3>2, <4>1
    <3>3. CASE i = pair[2]
      <4>1. a \in notes[i].parcels
        BY <1>5, <3>1, <3>3
      <4> QED
        BY <1>3, <3>1, <3>3, <4>1
    <3> QED
      BY <3>2, <3>3
  <2>3. ASSUME NEW i \in DOMAIN notes, notes[i].parcels # {}
        PROVE  \E pair \in pairs : i \in {pair[1], pair[2]}
    <3>1. PICK j \in DOMAIN parcels : <<i, j>> \in pairs \/ <<j, i>> \in pairs
      BY <1>3, <1>5, <2>3
    <3> QED
      BY <3>1
  <2> QED
    BY <2>2, <2>3
<1>8. {i \in DOMAIN parcels : Cardinality(Shares(parcels[i], zones)) > 1}
         = {i \in DOMAIN notes : notes[i].zones # {}}
  <2>1. ASSUME NEW i \in DOMAIN parcels
        PROVE  Cardinality(Shares(parcels[i], zones)) > 1 <=> notes[i].zones # {}
    <3>1. Shares(parcels[i], zones) = {} => Cardinality(Shares(parcels[i], zones)) = 0
      BY FS_EmptySet
    <3> QED
      BY <1>5, <3>1
  <2> QED
    BY <1>3, <2>1
<1>9. {i \in DOMAIN parcels : Straddles(parcels[i], mo)} = {i \in DOMAIN notes : notes[i].straddles}
  BY <1>3, <1>5
<1>10. {i \in DOMAIN parcels : Outside(parcels[i], mo)} = {i \in DOMAIN notes : notes[i].outside}
  BY <1>3, <1>5
<1>11. /\ o.summary.parcels_with_overlaps = Cardinality({i \in DOMAIN notes : notes[i].parcels # {}})
       /\ o.summary.parcels_in_multiple_zones = Cardinality({i \in DOMAIN notes : notes[i].zones # {}})
       /\ o.summary.parcels_in_multiple_mo = Cardinality({i \in DOMAIN notes : notes[i].straddles})
       /\ o.summary.parcels_outside_mo = Cardinality({i \in DOMAIN notes : notes[i].outside})
  BY <1>3, <1>6, <1>7, <1>8, <1>9, <1>10
<1> QED
  BY <1>3, <1>11 DEF Counted

(* By the kind of the task, each slot is one its file endpoint answers. *)
LEMMA LinksLeadThere ==
  ASSUME NEW t, NEW kind \in TaskKinds, NEW slots, NEW code, t = View(kind, slots, code),
         NEW slot,
         slot \in ResultLinks(t, IsScenario(t))
                    \cup (IF IsScenario(t) THEN ScenarioLinks(t) ELSE InputLinks(t))
  PROVE  FileAnswer(t, slot, "finished") = 200
<1>1. t.kind = kind /\ t.result = "local"
  BY DEF View
<1>2. CASE slot \in ResultLinks(t, IsScenario(t))
  <2>1. CASE IsPlacement(t)
    <3>1. slot \in PlacementLayers
      <4>1. PICK slotted : slotted = PlacementSlots(t)
        OBVIOUS
      <4>2. ResultLinks(t, IsScenario(t)) = slotted
        BY <1>1, <2>1, <4>1 DEF ResultLinks
      <4>3. slotted \subseteq PlacementLayers
        BY <4>1 DEF PlacementSlots
      <4> QED
        BY <1>2, <4>2, <4>3
    <3> QED
      BY <1>1, <2>1, <3>1 DEF FileAnswer, PlacementLayers, SplitSlots, InputSlots
  <2>2. CASE ~IsPlacement(t) /\ (IsBuilding(t) \/ IsScenario(t))
    <3>1. slot \in SplitSlots
      BY <1>1, <1>2, <2>2 DEF ResultLinks
    <3> QED
      BY <1>1, <2>2, <3>1 DEF FileAnswer, PlacementLayers, SplitSlots, InputSlots
  <2>3. CASE ~IsPlacement(t) /\ ~(IsBuilding(t) \/ IsScenario(t))
    <3>1. slot = "result"
      BY <1>1, <1>2, <2>3 DEF ResultLinks
    <3> QED
      BY <1>1, <3>1 DEF FileAnswer, PlacementLayers, SplitSlots, InputSlots
  <2> QED
    BY <2>1, <2>2, <2>3
<1>3. CASE slot \in ScenarioLinks(t)
  BY <1>3 DEF ScenarioLinks, FileAnswer, PlacementLayers, SplitSlots, InputSlots
<1>4. CASE slot \in InputLinks(t)
  BY <1>4 DEF InputLinks, FileAnswer, PlacementLayers, SplitSlots, InputSlots
<1> QED
  BY <1>2, <1>3, <1>4
-----------------------------------------------------------------------------
(* What is shown of a result.                                              *)

(* A list, whatever is in it. *)
Listed(s) == \E n \in Nat : DOMAIN s = 1..n

LEMMA SeqIsListed == ASSUME NEW S, NEW s \in Seq(S) PROVE Listed(s)
BY DEF Listed

LEMMA JoinIsListed ==
  ASSUME NEW S, NEW T, NEW s \in Seq(S), NEW t \in Seq(T)
  PROVE  s \o t \in Seq(S \cup T)
<1>1. s \in Seq(S \cup T) /\ t \in Seq(S \cup T)
  OBVIOUS
<1> QED
  BY <1>1

LEMMA SameListed == ASSUME NEW s, NEW t, DOMAIN t = DOMAIN s, Listed(s) PROVE Listed(t)
BY DEF Listed

(* The layers a row of a scenario holds are read as lists. *)
LEMMA ObjectsAreListed ==
  ASSUME NEW made, made.objects \in DOMAIN Contents,
         made.services # NotFetched => made.services \in DOMAIN Contents
  PROVE  Listed(ObjectsOf(made))
<1>1. PICK houses : houses = Contents[made.objects].houses
  OBVIOUS
<1>2. PICK others : others = Contents[made.objects].others
  OBVIOUS
<1>3. PICK services : services = Contents[made.services].services
  OBVIOUS
<1>4. houses \in Seq(Range(houses)) /\ others \in Seq(Range(others))
  BY <1>1, <1>2, LayersAssumption
<1>5. PICK S : S = Range(houses) \cup Range(others)
  OBVIOUS
<1>6. PICK client : client = [ask |-> made.ask, objects |-> made.objects, others |-> made.others]
  OBVIOUS
<1>7. BuildingsOf(client) = IF made.ask.kind = "place" THEN houses \o others
                            ELSE IF made.ask.house /\ ~made.others THEN houses ELSE others
  BY <1>1, <1>2, <1>6 DEF BuildingsOf
<1>8. BuildingsOf(client) \in Seq(S)
  <2>1. houses \o others \in Seq(S)
    BY <1>4, <1>5, JoinIsListed
  <2>2. houses \in Seq(S) /\ others \in Seq(S)
    BY <1>4, <1>5
  <2> QED
    BY <1>7, <2>1, <2>2
<1>9. PICK T : ServicesOf([services |-> made.services]) \in Seq(T)
  <2>1. CASE made.services = NotFetched
    <3>1. ServicesOf([services |-> made.services]) = <<>>
      BY <2>1 DEF ServicesOf
    <3>2. <<>> \in Seq({})
      OBVIOUS
    <3> QED
      BY <3>1, <3>2
  <2>2. CASE made.services # NotFetched
    <3>1. ServicesOf([services |-> made.services]) = services
      BY <1>3, <2>2 DEF ServicesOf
    <3>2. services \in Seq(Range(services))
      BY <1>3, <2>2, LayersAssumption
    <3> QED
      BY <3>1, <3>2
  <2> QED
    BY <2>1, <2>2
<1>10. PICK buildings : buildings = BuildingsOf(client)
  OBVIOUS
<1>11. PICK tail : tail = ServicesOf([services |-> made.services])
  OBVIOUS
<1>12. ObjectsOf(made) = buildings \o tail
  BY <1>6, <1>10, <1>11 DEF ObjectsOf
<1>13. buildings \o tail \in Seq(S \cup T)
  BY <1>8, <1>9, <1>10, <1>11, JoinIsListed
<1> QED
  BY <1>12, <1>13, SeqIsListed

(* What the pipeline leaves. *)
LeftByPipeline == Listed(features) /\ \A o \in overlaps : Counted(o)

LEMMA WriteLeaves ==
  ASSUME InputFits, NEW failed, WriteResult(failed)
  PROVE  LeftByPipeline'
<1>1. PICK parcels : parcels = input.parcels
  OBVIOUS
<1>2. Listed(parcels)
  BY <1>1, SeqIsListed DEF InputFits
<1>3. features' = [i \in DOMAIN parcels |-> ResultRow(i)]
  BY <1>1 DEF WriteResult
<1>4. Listed(features')
  BY <1>2, <1>3, SameListed
<1>5. PICK o : o = [summary |-> Summary(parcels, input.zones, input.mo),
                    notes |-> [i \in DOMAIN parcels |-> Notes(parcels, i, input.zones, input.mo)]]
  OBVIOUS
<1>6. Counted(o)
  BY <1>5, OverlapsCounted
<1>7. overlaps' \subseteq {o}
  BY <1>1, <1>5 DEF WriteResult
<1> QED
  BY <1>4, <1>6, <1>7 DEF LeftByPipeline

LEMMA PipelineLeaves ==
  ASSUME FlowInv, LeftByPipeline, [Next]_vars
  PROVE  LeftByPipeline'
<1>1. CASE UNCHANGED <<features, overlaps>>
  BY <1>1 DEF LeftByPipeline
<1>2. CASE StartPipeline
  BY <1>1, <1>2 DEF StartPipeline
<1>3. CASE CheckStep
  <2>1. ASSUME NEW failed, WriteResult(failed) PROVE LeftByPipeline'
    <3>1. InputFits
      BY <2>1 DEF WriteResult, FlowInv, CheckInv
    <3> QED
      BY <2>1, <3>1, WriteLeaves
  <2>2. ASSUME NEW w \in Workers,
               Take(w) \/ Look(w) \/ LookUp(w) \/ AskFails(w) \/ Crash(w)
        PROVE  UNCHANGED <<features, overlaps>>
    BY <2>2 DEF Take, Look, LookUp, AskFails, Crash
  <2>3. ASSUME NEW w \in Workers, NEW reply, Answer(w, reply)
        PROVE  UNCHANGED <<features, overlaps>>
    BY <2>3 DEF Answer
  <2>4. ASSUME NEW w \in Workers, NEW attempt, NEW reply, RankedBy(w, attempt, reply)
        PROVE  UNCHANGED <<features, overlaps>>
    BY <2>4 DEF RankedBy
  <2>5. ASSUME NEW canon, NEW attempt, NEW reply, RerankFails(canon) \/ Rerank(canon, attempt, reply)
        PROVE  UNCHANGED <<features, overlaps>>
    BY <2>5 DEF RerankFails, Rerank
  <2>6. CASE Load \/ Break \/ AllDecided
    BY <1>1, <2>6 DEF Load, Break, AllDecided
  <2> QED
    BY <1>1, <1>3, <2>1, <2>2, <2>3, <2>4, <2>5, <2>6 DEF CheckStep
<1>4. CASE UNCHANGED checkVars
  BY <1>1, <1>4 DEF checkVars
<1> QED
  BY <1>2, <1>3, <1>4, PipelineCases

(* What is shown of a finished task. *)
Seen(t) == \E kind \in TaskKinds : \E slots, code : t = View(kind, slots, code)

ShownFits ==
    /\ phase \in {"queued", "running", "finished"} => Seen(task)
    /\ IsChecked => Listed(result)

ViewInv == FlowInv /\ PlacedInv /\ LeftByPipeline /\ ShownFits

LEMMA ScenarioShown ==
  ASSUME ScenarioInv, NEW c \in Clients, RunScenario(c)
  PROVE  ShownFits'
<1> DEFINE made == Answers(c)
           kind == IF IsPlacing(c) THEN "scenario_placement" ELSE "scenario"
<1>1. Served(c) /\ branch = "scenario" /\ task' = View(kind, ScenarioSlots(made), made.code)
  BY ScenarioRuns
<1>2. kind \in TaskKinds
  BY DEF TaskKinds
<1>3. task'.kind = kind
  BY <1>1, ViewedKind
<1>4. Seen(task')
  <2> HIDE DEF kind, made
  <2> QED
    BY <1>1, <1>2 DEF Seen
<1>5. /\ ClientFits(clients[c], version, DOMAIN kept)
      /\ \A key \in DOMAIN kept : RowFits(key, kept[key])
  BY <1>1 DEF ScenarioInv
<1>6. made = kept[clients[c].answer[2]] /\ clients[c].answer[2] \in DOMAIN kept
  BY <1>1, <1>5 DEF ClientFits, Served, Answers
<1>7. /\ made.objects \in DOMAIN Contents
      /\ made.services # NotFetched => made.services \in DOMAIN Contents
  BY <1>5, <1>6 DEF RowFits
<1>8. CASE RunnerOf(ScenarioRowMade(made), Deterministic) = "scenario"
  <2>1. DOMAIN result' = DOMAIN ObjectsOf(made)
    BY <1>8 DEF RunScenario, RowOf
  <2>2. Listed(result')
    <3> HIDE DEF made
    <3> QED
      BY <1>7, <2>1, ObjectsAreListed, SameListed
  <2> QED
    BY <1>4, <2>2 DEF ShownFits
<1>9. CASE RunnerOf(ScenarioRowMade(made), Deterministic) = "placement"
  <2>1. IsPlacing(c)
    BY <1>1, <1>9, ServedCode DEF RunnerOf, ScenarioRowMade
  <2>2. ~IsChecked'
    BY <1>3, <2>1 DEF IsChecked, IsPlacement
  <2> QED
    BY <1>4, <2>2 DEF ShownFits
<1>10. CASE phase' = "left to the pipeline"
  BY <1>10 DEF ShownFits, IsChecked
<1> QED
  BY <1>8, <1>9, <1>10, ScenarioRuns

(* Only a placement has a code. *)
LEMMA CodeIsOfPlacement ==
  ASSUME RowIsAccepted, branch = "file", row # NoRow,
         RunnerOf(row.made, Deterministic) = "placement"
  PROVE  KindOf(request) = "placement"
<1>1. PICK model, offers \in BOOLEAN, query \in Queries :
        AcceptedAs(model, offers, ServiceCodeOf(query))
  BY DEF RowIsAccepted
<1>2. row.made = Created(request, model, ServiceCodeOf(query))
  BY <1>1 DEF AcceptedAs
<1>3. row.made.code # NoVri
  BY DEF RunnerOf
<1>4. request.mode = "placement"
  BY <1>2, <1>3 DEF Created
<1> QED
  BY <1>4 DEF KindOf

LEMMA SubmitShown ==
  ASSUME ViewInv, branch = "file", Submit
  PROVE  ShownFits'
<1>1. PICK model \in BOOLEAN, offers \in BOOLEAN, query \in Queries :
        LET code == ServiceCodeOf(query)
            made == Created(request, model, code)
            answer == AnswerOf(request, model, offers, code)
        IN  IF answer # "created" THEN phase' = answer /\ UNCHANGED <<row, task>>
            ELSE /\ phase' = "queued"
                 /\ row' = [made |-> made, labels |-> LabelsOf(request, model)]
                 /\ task' = View(KindOf(request), made.slots, made.code)
  BY DEF Submit
<1>2. PICK code : code = ServiceCodeOf(query)
  OBVIOUS
<1>3. PICK answer : answer = AnswerOf(request, model, offers, code)
  OBVIOUS
<1>4. CASE answer # "created"
  <2>1. request.mode \in Modes /\ (request.mode = "placement" => request.auto)
    BY RequestsAssumption DEF ViewInv, PlacedInv, RowIsAccepted
  <2>2. answer \notin {"finished", "queued", "running"}
    BY <1>3, <1>4, <2>1, AnswersAreKnown DEF KnownAnswers, Refusals
  <2>3. phase' = answer
    BY <1>1, <1>2, <1>3, <1>4
  <2> QED
    BY <2>2, <2>3 DEF ShownFits, IsChecked
<1>5. CASE answer = "created"
  <2>1. PICK made : made = Created(request, model, code)
    OBVIOUS
  <2>2. phase' = "queued" /\ task' = View(KindOf(request), made.slots, made.code)
    BY <1>1, <1>2, <1>3, <1>5, <2>1
  <2>3. KindOf(request) \in TaskKinds
    BY DEF KindOf, TaskKinds
  <2> QED
    BY <2>2, <2>3 DEF ShownFits, Seen, IsChecked
<1> QED
  BY <1>4, <1>5

LEMMA FileShown ==
  ASSUME ViewInv, branch = "file", [Next]_vars
  PROVE  ShownFits'
<1>0. branch' = branch /\ request' = request /\ request \in Requests
  BY PipelineCases DEF ViewInv, FlowInv
<1>1. ASSUME task' = task, phase \in {"queued", "running"}
      PROVE  Seen(task')
  BY <1>1 DEF ViewInv, ShownFits
<1>2. CASE StartPipeline
  <2>1. phase = "queued" /\ phase' = "running" /\ task' = task
    BY <1>2 DEF StartPipeline, Runs
  <2> QED
    BY <1>1, <2>1 DEF ShownFits, IsChecked
<1>3. CASE EndPipeline
  <2>1. phase = "running" /\ task' = task /\ DOMAIN result' = DOMAIN features
    BY <1>3 DEF EndPipeline
  <2>2. Listed(features)
    BY DEF ViewInv, LeftByPipeline
  <2>3. Listed(result')
    BY <2>1, <2>2, SameListed
  <2> QED
    BY <1>1, <2>1, <2>3 DEF ShownFits
<1>4. CASE RunBuildings
  <2>1. phase = "queued" /\ task' = task /\ DOMAIN result' = DOMAIN request.objects
    BY <1>4 DEF RunBuildings, Runs
  <2>2. request.objects \in Seq(Range(request.objects))
    BY <1>0, RequestsAssumption
  <2>3. Listed(result')
    BY <2>1, <2>2, SameListed, SeqIsListed
  <2> QED
    BY <1>1, <2>1, <2>3 DEF ShownFits
<1>5. CASE RunPlacement
  <2>1. /\ phase = "queued" /\ task' = task
        /\ RunnerOf(row.made, Deterministic) = "placement"
    BY <1>5 DEF RunPlacement, Runs
  <2>2. row # NoRow /\ task.kind = KindOf(request)
    BY <2>1 DEF ViewInv, PlacedInv, TaskFits
  <2>3. task'.kind = "placement"
    BY <2>1, <2>2, CodeIsOfPlacement DEF ViewInv, PlacedInv
  <2> QED
    BY <1>1, <2>1, <2>3 DEF ShownFits, IsChecked, IsPlacement
<1>6. CASE UNCHANGED flowVars
  BY <1>6 DEF flowVars, ViewInv, ShownFits, IsChecked, IsPlacement
<1>7. ASSUME NEW c \in Clients, RunScenario(c) PROVE FALSE
  BY <1>7, ScenarioRuns
<1>8. CASE RunPipeline \/ ScenarioMoves \/ RegulationMoves \/ Done \/ UNCHANGED vars
  BY <1>6, <1>8 DEF RunPipeline, ScenarioMoves, RegulationMoves, Done, vars
<1> QED
  BY <1>2, <1>3, <1>4, <1>5, <1>7, <1>8, SubmitShown DEF Next

LEMMA ViewInvStep == ViewInv /\ PlacedInv' /\ [Next]_vars => ViewInv'
<1> SUFFICES ASSUME ViewInv, PlacedInv', [Next]_vars PROVE ViewInv'
  OBVIOUS
<1>1. FlowInv' /\ LeftByPipeline'
  BY FlowInvStep, PipelineLeaves DEF ViewInv
<1>2. ShownFits'
  <2>1. CASE branch = "file"
    BY <2>1, FileShown
  <2>2. CASE branch # "file"
    <3>1. UNCHANGED flowVars \/ \E c \in Clients : RunScenario(c)
      BY <2>2, MovesOutsideFiles
    <3>2. CASE UNCHANGED flowVars
      BY <3>2 DEF flowVars, ViewInv, ShownFits, IsChecked, IsPlacement
    <3> QED
      BY <3>1, <3>2, ScenarioShown DEF ViewInv, PlacedInv
  <2> QED
    BY <2>1, <2>2
<1> QED
  BY <1>1, <1>2 DEF ViewInv

LEMMA ViewInvInit == Init => ViewInv
<1> SUFFICES ASSUME Init PROVE ViewInv
  OBVIOUS
<1>1. LeftByPipeline
  <2>1. features = <<>> /\ overlaps = {}
    BY DEF Init, CheckInit
  <2>2. Listed(<<>>)
    <3>1. <<>> \in Seq({})
      OBVIOUS
    <3> QED
      BY <3>1, SeqIsListed
  <2> QED
    BY <2>1, <2>2 DEF LeftByPipeline
<1>2. ShownFits
  BY DEF Init, ShownFits, IsChecked
<1> QED
  BY <1>1, <1>2, FlowInvInit, PlacedInvInit DEF ViewInv

(* Whatever was asked, however the parcels were checked and whatever the      *)
(* features carry: every link of a finished task leads to a layer that is      *)
(* served, the counters of its report add up, bucket by bucket and line by      *)
(* line, and the overlaps are summed up as they are listed (tasks.py            *)
(* build_result_geo_layers, get_task_file, build_object_zone_fit_response,       *)
(* overlap_layer.py run_overlap_checks).                                         *)
THEOREM ViewsFitTogether == Spec => []ViewsAgree
<1>1. ViewInv => ViewsAgree
  <2> SUFFICES ASSUME ViewInv PROVE ViewsAgree
    OBVIOUS
  <2>1. LinksAreServed
    <3> SUFFICES ASSUME phase = "finished",
                        NEW slot \in ResultLinks(task, IsScenario(task))
                                        \cup (IF IsScenario(task) THEN ScenarioLinks(task)
                                              ELSE InputLinks(task))
                 PROVE  FileAnswer(task, slot, "finished") = 200
      BY Zenon DEF LinksAreServed
    <3>1. PICK kind \in TaskKinds : \E slots, code : task = View(kind, slots, code)
      BY DEF ViewInv, ShownFits, Seen
    <3>2. PICK slots, code : task = View(kind, slots, code)
      BY <3>1
    <3> QED
      BY <3>2, LinksLeadThere
  <2>2. ReportAddsUp
    <3>1. CASE IsChecked
      <4>1. PICK n \in Nat : DOMAIN result = 1..n
        BY <3>1 DEF ViewInv, ShownFits, Listed
      <4>2. AddsUp(result, IsBuilding(task) \/ IsScenario(task))
        BY <4>1, ReportsAddUp
      <4> QED
        BY <4>2, Zenon DEF ReportAddsUp, AddsUp
    <3>2. CASE ~IsChecked
      BY <3>2, Zenon DEF ReportAddsUp
    <3> QED
      BY <3>1, <3>2
  <2>3. OverlapsAgree
    BY Zenon DEF ViewInv, LeftByPipeline, OverlapsAgree, Counted
  <2> QED
    BY <2>1, <2>2, <2>3 DEF ViewsAgree
<1> QED
  BY <1>1, ViewInvInit, ViewInvStep, PlacedInvInit, PlacedInvStep, PTL DEF Spec
=============================================================================
