------------------------ MODULE TrackerDetailProofs ------------------------
(***************************************************************************)
(* Safety of TrackerDetail for any trackers, reads, milestones, deadlines  *)
(* and submissions: what the summary computes from what a read has seen,   *)
(* and how the details of one tracker follow each other.                   *)
(***************************************************************************)
EXTENDS TrackerDetail, DreamTrackerProofs, FiniteSetTheorems, WellFoundedInduction

-----------------------------------------------------------------------------
(* Induction, and functions defined step by step.  The library's theorems   *)
(* take the induction hypothesis as an operator; here it is a set.          *)

LEMMA LeastElement ==
  ASSUME NEW T, T \subseteq Nat, T # {}
  PROVE  \E n \in T : \A m \in T : n <= m
<1> DEFINE R == OpToRel(<, Nat)
<1>1. \A x, y \in Nat : y < x => <<y, x>> \in R
  BY DEF OpToRel
<1>2. IsWellFoundedOn(R, Nat)
  BY NatLessThanWellFounded
<1> HIDE DEF R
<1>3. PICK n \in T : \A m \in T : ~(<<m, n>> \in R)
  BY <1>2, WFMin
<1>4. \A m \in T : ~(m < n)
  BY <1>1, <1>3
<1>5. \A m \in T : n <= m
  BY <1>4
<1> QED
  BY <1>5

\* A set with 0 that is closed under successor contains every natural number.
LEMMA SetInduction ==
  ASSUME NEW S, 0 \in S, \A n \in Nat : n \in S => n + 1 \in S
  PROVE  Nat \subseteq S
<1> SUFFICES ASSUME Nat \ S # {} PROVE FALSE
  OBVIOUS
<1>1. PICK n \in Nat \ S : \A m \in Nat \ S : n <= m
  BY LeastElement
<1>2. n # 0 /\ n - 1 \in Nat /\ n - 1 \in S
  BY <1>1
<1> QED
  BY <1>1, <1>2

\* f starts with base and takes the first n steps.
Stepwise(f, n, base, step) == f[0] = base /\ \A i \in 1..n : f[i] = step[<<i, f[i - 1]>>]

LEMMA StepsExist ==
  ASSUME NEW n \in Nat, NEW S, NEW base \in S, NEW step \in [(1..n) \X S -> S]
  PROVE  \E f : f \in [0..n -> S] /\ Stepwise(f, n, base, step)
<1> DEFINE Good(f, k) == f[0] = base /\ \A i \in 1..k : f[i] = step[<<i, f[i - 1]>>]
           Ks == {k \in Nat : k <= n => \E f \in [0..k -> S] : Good(f, k)}
<1>1. 0 \in Ks
  <2>1. Good([i \in 0..0 |-> base], 0)
    OBVIOUS
  <2> QED
    BY <2>1
<1>2. ASSUME NEW k \in Nat, k \in Ks PROVE k + 1 \in Ks
  <2> SUFFICES ASSUME k + 1 <= n PROVE \E f \in [0..(k + 1) -> S] : Good(f, k + 1)
    OBVIOUS
  <2>1. PICK f \in [0..k -> S] : Good(f, k)
    BY <1>2
  <2> DEFINE g == [i \in 0..(k + 1) |-> IF i = k + 1 THEN step[<<k + 1, f[k]>>] ELSE f[i]]
  <2>2. g \in [0..(k + 1) -> S]
    OBVIOUS
  <2>3. g[0] = base
    BY <2>1
  <2>4. ASSUME NEW i \in 1..(k + 1) PROVE g[i] = step[<<i, g[i - 1]>>]
    <3>1. CASE i = k + 1
      <4>1. g[k + 1] = step[<<k + 1, f[k]>>] /\ g[k] = f[k]
        OBVIOUS
      <4>2. i - 1 = k
        BY <3>1
      <4> QED
        BY <3>1, <4>1, <4>2
    <3>2. CASE i # k + 1
      <4>1. i \in 1..k /\ i - 1 \in 0..k
        BY <3>2
      <4>2. g[i] = f[i] /\ g[i - 1] = f[i - 1]
        BY <4>1
      <4> QED
        BY <2>1, <4>1, <4>2
    <3> QED
      BY <3>1, <3>2
  <2> QED
    BY <2>2, <2>3, <2>4
<1> HIDE DEF Ks
<1>3. n \in Ks
  BY <1>1, <1>2, SetInduction
<1> QED
  BY <1>3 DEF Ks, Stepwise
-----------------------------------------------------------------------------
(* The summary. *)

\* g is the loop of NextUpcomingDeadline.
Loop(g, n, p, t) == g = [i \in 0..n |-> IF i = 0 THEN None ELSE Sooner(g[i - 1], p[i], t)]

LEMMA LoopExists ==
  ASSUME NEW n \in Nat, NEW S, None \in S, NEW t \in Times, NEW p, \A i \in 1..n : p[i] \in S
  PROVE  \E g : Loop(g, n, p, t)
<1> DEFINE step == [x \in (1..n) \X S |-> Sooner(x[2], p[x[1]], t)]
<1>1. step \in [(1..n) \X S -> S]
  BY DEF Sooner
<1> HIDE DEF step
<1>2. PICK f : f \in [0..n -> S] /\ Stepwise(f, n, None, step)
  BY <1>1, StepsExist
<1>3. ASSUME NEW i \in 0..n, i # 0 PROVE f[i] = Sooner(f[i - 1], p[i], t)
  <2>1. i \in 1..n /\ i - 1 \in 0..n
    BY <1>3
  <2>2. <<i, f[i - 1]>> \in (1..n) \X S
    BY <1>2, <2>1
  <2>3. step[<<i, f[i - 1]>>] = Sooner(f[i - 1], p[i], t)
    BY <2>2 DEF step
  <2> QED
    BY <1>2, <2>1, <2>3 DEF Stepwise
<1>4. f[0] = None
  BY <1>2 DEF Stepwise
<1> DEFINE g == [i \in 0..n |-> IF i = 0 THEN None ELSE Sooner(f[i - 1], p[i], t)]
<1>5. f = g
  BY <1>2, <1>3, <1>4
<1> QED
  BY <1>5 DEF Loop

\* The loop over the milestones finds the earliest one that is not before t.
LEMMA NextIsEarliest ==
  ASSUME NEW p \in Seq(Times \cup {None}), NEW t \in Times
  PROVE  LET ahead == {m \in Range(p) \ {None} : m >= t}
             next  == NextUpcomingDeadline(p, t)
         IN /\ ahead # {} => next \in ahead /\ \A m \in ahead : next <= m
            /\ ahead = {} => next = None
<1> DEFINE n == Len(p)
           S == Times \cup {None}
           Ahead(k) == {m \in {p[i] : i \in 1..k} \ {None} : m >= t}
<1>1. n \in Nat /\ (\A i \in 1..n : p[i] \in S) /\ None \in S
  OBVIOUS
<1>4. \E g : Loop(g, n, p, t)
  <2> HIDE DEF n, S
  <2> QED
    BY <1>1, LoopExists
<1> DEFINE g == CHOOSE g_ : Loop(g_, n, p, t)
<1>5. g = [i \in 0..n |-> IF i = 0 THEN None ELSE Sooner(g[i - 1], p[i], t)]
  BY <1>4 DEF Loop
<1>6. NextUpcomingDeadline(p, t) = g[n]
  BY DEF NextUpcomingDeadline, Loop
<1> HIDE DEF g, n
<1> DEFINE Right(k) == /\ Ahead(k) # {} => g[k] \in Ahead(k) /\ \A m \in Ahead(k) : g[k] <= m
                       /\ Ahead(k) = {} => g[k] = None
           Ks == {k \in Nat : k <= n => Right(k)}
<1>7. 0 \in Ks
  BY <1>1, <1>5
<1>8. ASSUME NEW k \in Nat, k \in Ks PROVE k + 1 \in Ks
  <2> SUFFICES ASSUME k + 1 <= n PROVE Right(k + 1)
    OBVIOUS
  <2>1. g[k + 1] = Sooner(g[k], p[k + 1], t) /\ p[k + 1] \in S
    BY <1>1, <1>5
  <2>2. Right(k)
    BY <1>8, <1>1
  <2>3. Ahead(k + 1) = Ahead(k) \cup (IF IsUpcoming(p[k + 1], t) THEN {p[k + 1]} ELSE {})
    <3>1. 1..(k + 1) = (1..k) \cup {k + 1}
      OBVIOUS
    <3>2. IsUpcoming(p[k + 1], t) <=> p[k + 1] # None /\ p[k + 1] >= t
      BY <2>1, AdmissionData DEF IsUpcoming, Times
    <3> QED
      BY <3>1, <3>2
  <2>4. Ahead(k) \subseteq Int
    BY <1>1 DEF Times
  <2>5. IsUpcoming(p[k + 1], t) => p[k + 1] \in Int
    BY <2>1 DEF IsUpcoming, Times
  <2>6. None \notin Int
    BY AdmissionData DEF Times
  <2> HIDE DEF Ahead
  <2> QED
    BY <2>1, <2>2, <2>3, <2>4, <2>5, <2>6 DEF Sooner
<1> HIDE DEF Ks
<1>9. n \in Ks
  BY <1>1, <1>7, <1>8, SetInduction
<1>10. Right(n)
  BY <1>1, <1>9 DEF Ks
<1>11. Ahead(n) = {m \in Range(p) \ {None} : m >= t}
  BY DEF Range, n
<1> QED
  BY <1>6, <1>10, <1>11

\* The percentage rounds down.
LEMMA PercentageRounds ==
  ASSUME NEW c \in Nat, NEW n \in Nat, c <= n
  PROVE  LET p == CompletionPercentage(c, n)
         IN /\ p \in 0..100
            /\ p = 100 <=> n > 0 /\ c = n
            /\ p = 0 <=> c * 100 < n \/ n = 0
<1>1. CASE n = 0
  BY <1>1 DEF CompletionPercentage
<1>2. CASE n # 0
  <2> DEFINE a == c * 100
             p == a \div n
  <2>1. a \in Nat /\ a <= 100 * n /\ (a = 100 * n <=> c = n)
    OBVIOUS
  <2>2. p \in Nat /\ p * n <= a /\ a < (p + 1) * n
    BY <1>2, <2>1
  <2> HIDE DEF p, a
  <2>3. p <= 100
    BY <1>2, <2>1, <2>2
  <2>4. p = 100 <=> c = n
    BY <1>2, <2>1, <2>2
  <2>5. p = 0 <=> a < n
    BY <1>2, <2>1, <2>2
  <2> QED
    BY <1>2, <2>2, <2>3, <2>4, <2>5 DEF CompletionPercentage, p, a
<1> QED
  BY <1>1, <1>2

\* The second query of a read: what may be done about each requirement.
ActionsOf(reqs) == {<<c, CanUpload(reqs[c]), NeedsReupload(reqs[c])>> : c \in DOMAIN reqs}

\* Every requirement is complete, may be uploaded, or has a status the program
\* does not know, and only one of these.
LEMMA RequirementsCount ==
  ASSUME NEW C, IsFiniteSet(C), NEW reqs \in [C -> ReqStatuses]
  PROVE  LET completed == Cardinality({c \in C : Completed(reqs[c])})
             offered   == Cardinality({x \in ActionsOf(reqs) : x[2]})
             unknown   == Cardinality({c \in C : reqs[c] = "OTHER"})
         IN /\ completed \in Nat /\ Cardinality(C) \in Nat /\ completed <= Cardinality(C)
            /\ completed + offered + unknown = Cardinality(C)
<1> DEFINE Complete == {c \in C : Completed(reqs[c])}
           Open     == {c \in C : CanUpload(reqs[c])}
           Unknown  == {c \in C : reqs[c] = "OTHER"}
           Offered  == {x \in ActionsOf(reqs) : x[2]}
           f        == [c \in Open |-> <<c, CanUpload(reqs[c]), NeedsReupload(reqs[c])>>]
<1>1. /\ C = Complete \cup (Open \cup Unknown)
      /\ Complete \cap (Open \cup Unknown) = {} /\ Open \cap Unknown = {}
  BY DEF Completed, CanUpload, ReqStatuses
<1>2. IsFiniteSet(Complete) /\ IsFiniteSet(Open) /\ IsFiniteSet(Unknown)
  BY FS_Subset
<1>3. IsFiniteSet(Open \cup Unknown)
  BY <1>2, FS_Union
<1>4. /\ Cardinality(C) \in Nat /\ Cardinality(Complete) \in Nat
      /\ Cardinality(Open) \in Nat /\ Cardinality(Unknown) \in Nat
  BY <1>2, FS_CardinalityType
<1> HIDE DEF Complete, Unknown
<1>5. Cardinality(Open \cup Unknown) = Cardinality(Open) + Cardinality(Unknown)
  <2>1. Cardinality({}) = 0
    BY FS_EmptySet
  <2> HIDE DEF Open
  <2>2. Cardinality(Open \cup Unknown) = Cardinality(Open) + Cardinality(Unknown) - Cardinality({})
    BY <1>1, <1>2, FS_Union
  <2> QED
    BY <1>4, <2>1, <2>2
<1>6. Cardinality(C) = Cardinality(Complete) + Cardinality(Open) + Cardinality(Unknown)
  <2>1. Cardinality({}) = 0
    BY FS_EmptySet
  <2> HIDE DEF Open
  <2>2. Cardinality(Complete \cup (Open \cup Unknown))
          = Cardinality(Complete) + Cardinality(Open \cup Unknown) - Cardinality({})
    BY <1>1, <1>2, <1>3, FS_Union
  <2> QED
    BY <1>1, <1>4, <1>5, <2>1, <2>2
<1>7. Cardinality(Offered) = Cardinality(Open)
  <2>1. \A x : x \in Offered <=> \E c \in C : CanUpload(reqs[c])
                 /\ x = <<c, CanUpload(reqs[c]), NeedsReupload(reqs[c])>>
    BY DEF ActionsOf
  <2> HIDE DEF Offered
  <2>2. f \in [Open -> Offered]
    BY <2>1
  <2>3. \A c, b \in Open : f[c] = f[b] => c = b
    OBVIOUS
  <2>4. \A x \in Offered : \E c \in Open : f[c] = x
    BY <2>1
  <2> HIDE DEF f, Open
  <2>5. f \in Surjection(Open, Offered) /\ f \in Injection(Open, Offered)
    BY <2>2, <2>3, <2>4 DEF Surjection, Injection, IsInjective
  <2> QED
    BY <1>2, <2>5, FS_Surjection
<1> QED
  BY <1>4, <1>6, <1>7 DEF Complete, Unknown

\* The fundings listed.
LEMMA FundingsListed ==
  ASSUME NEW tracker, tracker.funding \in Fundings \cup {None},
         tracker.admission \in Admissions \cup {None}
  PROVE  LET selected == {x \in FundingList(tracker) : x[2] = "SELECTED"}
             hidden   == /\ tracker.admission # None /\ Offers[tracker.admission] # {}
                         /\ tracker.funding \notin Offers[tracker.admission]
         IN selected = IF tracker.funding = None \/ hidden THEN {}
                       ELSE {<<tracker.funding, "SELECTED">>}
<1> DEFINE offered == IF tracker.admission = None THEN {} ELSE Offers[tracker.admission]
           listed  == IF offered = {} /\ tracker.funding # None THEN {tracker.funding} ELSE offered
           selected == {x \in FundingList(tracker) : x[2] = "SELECTED"}
<1>1. offered \subseteq Fundings /\ None \notin Fundings
  BY CatalogData, AdmissionData
<1>2. \A x : x \in selected <=> tracker.funding \in listed /\ x = <<tracker.funding, "SELECTED">>
  BY DEF FundingList, FundingStatus
<1> HIDE DEF selected
<1>3. selected = IF tracker.funding \in listed THEN {<<tracker.funding, "SELECTED">>} ELSE {}
  BY <1>2
<1> QED
  BY <1>1, <1>3 DEF selected
-----------------------------------------------------------------------------
(* The inductive invariant. *)

\* The answer of a read that saw the requirements with the statuses reqs and the
\* documents docs, and the clock at time.
DetailOf(t, time, reqs, docs) ==
  [tracker  |-> t, time |-> time, reqs |-> reqs, docs |-> docs, actions |-> ActionsOf(reqs),
   plan     |-> plan[t], deadline |-> AdmissionDeadline(trackers[t]),
   fundings |-> FundingList(trackers[t]),
   summary  |-> Summary(reqs, plan[t], AdmissionDeadline(trackers[t]), time)]

\* reqs and docs are what the requirements of a tracker that exists are or were: they
\* name all of them; one without a document then was NOT_UPLOADED; one with a document
\* has one now, and its status was UPLOADED or a verdict on that document.
SeenOf(t, reqs, docs) ==
  /\ t \in Trackers /\ Exists(t)
  /\ reqs \in [{c \in Catalog : rows[<<t, c>>] # NoRow} -> ReqStatuses]
  /\ docs \in [DOMAIN reqs -> Docs \cup {None}]
  /\ \A c \in DOMAIN reqs :
       IF docs[c] = None THEN reqs[c] = "NOT_UPLOADED"
       ELSE /\ rows[<<t, c>>].doc # None
            /\ reqs[c] = "UPLOADED" \/ <<docs[c], reqs[c]>> \in verdicts

\* Of two such sets of documents of one tracker, the second may be the later.
Follows(old, new) ==
  /\ DOMAIN old = DOMAIN new
  /\ \A c \in DOMAIN old : old[c] # None => new[c] # None

PartType ==
  /\ DOMAIN part = Reads /\ DOMAIN shown = Reads
  /\ \A d \in Reads : DOMAIN part[d] = {"tracker", "reqs", "docs", "actions"}

\* What a read knows at each of its stages, and what it has answered.
ReadInv ==
  \A d \in Reads :
    /\ at[d] \in {"tracker", "requirements", "program"} => part[d].tracker \in Trackers
    /\ at[d] \in {"requirements", "program"} => Exists(part[d].tracker)
    /\ at[d] = "program" => /\ SeenOf(part[d].tracker, part[d].reqs, part[d].docs)
                            /\ part[d].actions = ActionsOf(part[d].reqs)
    /\ shown[d] # NoDetail =>
         /\ at[d] = "done"
         /\ \E t \in Trackers, time \in 0..now : \E reqs, docs :
              SeenOf(t, reqs, docs) /\ shown[d] = DetailOf(t, time, reqs, docs)
    /\ \A e \in earlier[d] : at[e] = "done"
    /\ at[d] = "idle" => earlier[d] = {}

\* What a read has seen follows what the reads answered before it have shown.
OrderInv ==
  \A d \in Reads : \A e \in earlier[d] :
    shown[e] # NoDetail =>
      /\ at[d] = "program" /\ part[d].tracker = shown[e].tracker =>
           Follows(shown[e].docs, part[d].docs)
      /\ shown[d] # NoDetail /\ shown[d].tracker = shown[e].tracker =>
           Follows(shown[e].docs, shown[d].docs) /\ shown[e].time <= shown[d].time

DetailInv == DetailTypeOK /\ PartType /\ ReadInv /\ OrderInv
-----------------------------------------------------------------------------
(* The steps of the submissions, and of creation. *)

\* A read changes nothing that the submissions see.
LEMMA ReadsAreReads == DetailSpec => Spec
<1>1. DetailInit => Init
  BY DEF DetailInit
<1>2. [DetailNext]_allVars => [Next]_vars
  BY DEF DetailNext, allVars
<1> QED
  BY <1>1, <1>2, PTL DEF DetailSpec, Spec

\* No step changes a tracker that exists, adds a requirement to it or takes one
\* away, takes a requirement's document away or takes a verdict back.
LEMMA TablesStay ==
  ASSUME IndInv, [Next]_vars
  PROVE  /\ \A t \in Trackers : Exists(t) =>
              /\ trackers'[t] = trackers[t]
              /\ \A c \in Catalog : rows'[<<t, c>>] = NoRow <=> rows[<<t, c>>] = NoRow
         /\ \A q \in Requirements : rows[q].doc # None => rows'[q].doc # None
         /\ verdicts \subseteq verdicts'
<1> USE DEF IndInv
<1>0. \A t \in Trackers, c \in Catalog : <<t, c>> \in Requirements /\ <<t, c>>[1] = t
  BY DEF Requirements
<1>1. ASSUME NEW s \in Submits, Receive(s) \/ HandlerStep(s)
      PROVE  /\ trackers' = trackers /\ verdicts \subseteq verdicts'
             /\ \A q \in Requirements :
                  /\ rows'[q] = NoRow <=> rows[q] = NoRow
                  /\ rows'[q] = rows[q] \/ rows'[q].doc # None
  <2>1. pc[s] \in Prepares => local[s].doc # None
    BY CatalogData DEF SubmitInv, Prepares
  <2> QED
    BY <1>1, <2>1, StepFrame
<1>2. ASSUME NEW t \in Trackers, CreateDreamTracker(t)
      PROVE  /\ ~Exists(t) /\ \A k \in Trackers \ {t} : trackers'[k] = trackers[k]
             /\ \A q \in Requirements : IF q[1] = t THEN rows[q] = NoRow ELSE rows'[q] = rows[q]
             /\ verdicts' = verdicts
  BY <1>2, Created DEF CreateDreamTracker, history
<1>3. ASSUME (\E s \in Submits : Disconnect(s)) \/ Crash \/ UNCHANGED vars
      PROVE  UNCHANGED <<trackers, rows, verdicts>>
  BY <1>3 DEF Disconnect, Crash, vars, tables, history
<1>4. \A t \in Trackers : Exists(t) =>
        /\ trackers'[t] = trackers[t]
        /\ \A c \in Catalog : rows'[<<t, c>>] = NoRow <=> rows[<<t, c>>] = NoRow
  BY <1>0, <1>1, <1>2, <1>3 DEF Next
<1>5. \A q \in Requirements : rows[q].doc # None => rows'[q].doc # None
  BY <1>1, <1>2, <1>3 DEF Next, NoRow
<1>6. verdicts \subseteq verdicts'
  BY <1>1, <1>2, <1>3 DEF Next
<1> QED
  BY <1>4, <1>5, <1>6

\* What was seen of a tracker remains what was seen of it.
LEMMA SeenStays ==
  ASSUME IndInv, [Next]_vars, NEW t, NEW reqs, NEW docs, SeenOf(t, reqs, docs)
  PROVE  SeenOf(t, reqs, docs)' /\ trackers'[t] = trackers[t]
<1>1. /\ t \in Trackers /\ Exists(t) /\ trackers'[t] = trackers[t]
      /\ \A c \in Catalog : <<t, c>> \in Requirements
      /\ \A c \in Catalog : rows'[<<t, c>>] = NoRow <=> rows[<<t, c>>] = NoRow
  BY TablesStay DEF SeenOf, Requirements
<1>2. {c \in Catalog : rows'[<<t, c>>] # NoRow} = {c \in Catalog : rows[<<t, c>>] # NoRow}
  BY <1>1
<1>3. \A c \in DOMAIN reqs : c \in Catalog
  BY DEF SeenOf
<1>4. \A c \in DOMAIN reqs :
        IF docs[c] = None THEN reqs[c] = "NOT_UPLOADED"
        ELSE /\ rows'[<<t, c>>].doc # None
             /\ reqs[c] = "UPLOADED" \/ <<docs[c], reqs[c]>> \in verdicts'
  BY <1>1, <1>3, TablesStay DEF SeenOf
<1> QED
  BY <1>1, <1>2, <1>4 DEF SeenOf, Exists

\* The steps of the submissions leave what the reads have read and answered true.
LEMMA StepTables ==
  ASSUME IndInv, DetailInv, [Next]_vars, UNCHANGED detailVars
  PROVE  DetailInv'
<1> USE DEF DetailInv, detailVars
<1>1. DetailTypeOK' /\ PartType'
  BY DEF DetailTypeOK, PartType
<1>2. ReadInv'
  <2> SUFFICES ASSUME NEW d \in Reads
               PROVE  /\ at[d] \in {"tracker", "requirements", "program"} => part[d].tracker \in Trackers
                      /\ at[d] \in {"requirements", "program"} => Exists(part[d].tracker)'
                      /\ at[d] = "program" => /\ SeenOf(part[d].tracker, part[d].reqs, part[d].docs)'
                                              /\ part[d].actions = ActionsOf(part[d].reqs)
                      /\ shown[d] # NoDetail =>
                           /\ at[d] = "done"
                           /\ \E t \in Trackers, time \in 0..now : \E reqs, docs :
                                SeenOf(t, reqs, docs)' /\ shown[d] = DetailOf(t, time, reqs, docs)'
                      /\ \A e \in earlier[d] : at[e] = "done"
                      /\ at[d] = "idle" => earlier[d] = {}
    BY DEF ReadInv
  <2>1. ASSUME at[d] \in {"requirements", "program"} PROVE Exists(part[d].tracker)'
    BY <2>1, TablesStay DEF ReadInv, Exists
  <2>2. ASSUME at[d] = "program" PROVE SeenOf(part[d].tracker, part[d].reqs, part[d].docs)'
    BY <2>2, SeenStays DEF ReadInv
  <2>3. ASSUME shown[d] # NoDetail
        PROVE  \E t \in Trackers, time \in 0..now : \E reqs, docs :
                 SeenOf(t, reqs, docs)' /\ shown[d] = DetailOf(t, time, reqs, docs)'
    <3>1. PICK t \in Trackers, time \in 0..now : \E reqs, docs :
            SeenOf(t, reqs, docs) /\ shown[d] = DetailOf(t, time, reqs, docs)
      BY <2>3 DEF ReadInv
    <3>2. PICK reqs, docs : SeenOf(t, reqs, docs) /\ shown[d] = DetailOf(t, time, reqs, docs)
      BY <3>1
    <3>3. SeenOf(t, reqs, docs)' /\ trackers'[t] = trackers[t]
      BY <3>2, SeenStays
    <3>4. DetailOf(t, time, reqs, docs)' = DetailOf(t, time, reqs, docs)
      BY <3>3 DEF DetailOf
    <3> QED
      BY <3>2, <3>3, <3>4
  <2> QED
    BY <2>1, <2>2, <2>3 DEF ReadInv
<1>3. OrderInv'
  BY DEF OrderInv, Follows
<1> QED
  BY <1>1, <1>2, <1>3
-----------------------------------------------------------------------------
(* The steps of the reads. *)

LEMMA DetailInitial == IndInv /\ DetailInit => DetailInv
<1> SUFFICES ASSUME IndInv, DetailInit PROVE DetailInv
  OBVIOUS
<1>1. DetailTypeOK /\ PartType
  BY AdmissionData DEF DetailInit, DetailTypeOK, PartType, NoPart, Stages
<1>2. ReadInv /\ OrderInv
  BY DEF DetailInit, ReadInv, OrderInv
<1> QED
  BY <1>1, <1>2 DEF DetailInv

\* What the query of the requirements returns.
LEMMA StatusesSeen ==
  ASSUME IndInv, NEW t \in Trackers, Exists(t)
  PROVE  SeenOf(t, StatusesOf(t), DocumentsOf(t))
<1>1. ASSUME NEW c \in Catalog, rows[<<t, c>>] # NoRow
      PROVE  LET row == rows[<<t, c>>]
             IN /\ row.status \in ReqStatuses /\ row.doc \in Docs \cup {None}
                /\ IF row.doc = None THEN row.status = "NOT_UPLOADED"
                   ELSE row.status = "UPLOADED" \/ <<row.doc, row.status>> \in verdicts
  <2>1. <<t, c>> \in Requirements
    BY DEF Requirements
  <2>2. rows[<<t, c>>] \in Row /\ verdicts \subseteq Docs \X Verdicts
    BY <2>1 DEF IndInv, TypeOK
  <2>3. rows[<<t, c>>].doc = None => rows[<<t, c>>] = Seeded
    BY <1>1, <2>1 DEF IndInv, RowsInv, VerdictIsOfDocument
  <2>4. rows[<<t, c>>].doc # None =>
          \/ rows[<<t, c>>].status = "UPLOADED"
          \/ <<rows[<<t, c>>].doc, rows[<<t, c>>].status>> \in verdicts
    BY <2>1 DEF IndInv, RowsInv, VerdictIsOfDocument
  <2> QED
    BY <2>2, <2>3, <2>4 DEF Seeded, Row, Verdicts, ReqStatuses
<1> QED
  BY <1>1 DEF SeenOf, StatusesOf, DocumentsOf

\* A read changes nothing of another read.
LEMMA ReadFrame ==
  ASSUME DetailTypeOK, PartType, NEW d \in Reads, ReadStep(d)
  PROVE  /\ \A o \in Reads \ {d} : /\ at'[o] = at[o] /\ part'[o] = part[o]
                                   /\ shown'[o] = shown[o] /\ earlier'[o] = earlier[o]
         /\ plan' = plan /\ now' \in now..MaxNow
         /\ at[d] # "done" /\ at'[d] # "idle"
<1> USE DEF To, Finish
<1>0. /\ DOMAIN at = Reads /\ DOMAIN earlier = Reads /\ DOMAIN part = Reads /\ DOMAIN shown = Reads
      /\ now \in now..MaxNow
  BY AdmissionData DEF DetailTypeOK, PartType
<1>1. CASE GetDreamTrackerDetail(d)
  BY <1>0, <1>1 DEF GetDreamTrackerDetail
<1>2. CASE FindDreamTracker(d)
  BY <1>0, <1>2 DEF FindDreamTracker
<1>3. CASE FindDreamRequirementDetails(d)
  BY <1>0, <1>3 DEF FindDreamRequirementDetails
<1>4. CASE FindProgram(d)
  BY <1>0, <1>4 DEF FindProgram
<1>5. CASE FindFails(d)
  BY <1>0, <1>5 DEF FindFails
<1> QED
  BY <1>1, <1>2, <1>3, <1>4, <1>5 DEF ReadStep

\* What each step of a read does to the read itself.
LEMMA ReadDoes ==
  ASSUME IndInv, DetailInv, NEW d \in Reads, ReadStep(d)
  PROVE  /\ DOMAIN part' = Reads /\ DOMAIN shown' = Reads
         /\ DOMAIN part'[d] = {"tracker", "reqs", "docs", "actions"}
         /\ part'[d].tracker \in Trackers \cup {None}
         /\ \/ /\ at[d] = "idle" /\ at'[d] = "tracker" /\ part'[d].tracker \in Trackers
               /\ earlier'[d] = {e \in Reads : at[e] = "done"} /\ shown'[d] = shown[d]
               /\ part'[d].reqs = part[d].reqs /\ part'[d].docs = part[d].docs
            \/ /\ at[d] = "tracker" /\ at'[d] = "requirements" /\ part'[d] = part[d]
               /\ Exists(part[d].tracker) /\ shown'[d] = shown[d] /\ earlier'[d] = earlier[d]
            \/ /\ at[d] = "requirements" /\ at'[d] = "program" /\ part'[d].tracker = part[d].tracker
               /\ part'[d].reqs = StatusesOf(part[d].tracker)
               /\ part'[d].docs = DocumentsOf(part[d].tracker)
               /\ part'[d].actions = ActionsOf(part'[d].reqs)
               /\ shown'[d] = shown[d] /\ earlier'[d] = earlier[d]
            \/ /\ at[d] = "program" /\ at'[d] = "done" /\ part'[d] = NoPart
               /\ shown'[d] = DetailOf(part[d].tracker, now', part[d].reqs, part[d].docs)
               /\ earlier'[d] = earlier[d]
            \/ /\ at[d] \in {"tracker", "requirements", "program"} /\ at'[d] = "done"
               /\ part'[d] = part[d] /\ shown'[d] = shown[d] /\ earlier'[d] = earlier[d]
<1> USE DEF To, Finish, DetailInv
<1>0. /\ DOMAIN at = Reads /\ DOMAIN earlier = Reads /\ DOMAIN part = Reads /\ DOMAIN shown = Reads
      /\ DOMAIN part[d] = {"tracker", "reqs", "docs", "actions"}
      /\ part[d].tracker \in Trackers \cup {None}
  BY DEF DetailTypeOK, PartType
<1>1. CASE GetDreamTrackerDetail(d)
  <2>1. PICK t \in Trackers : part' = [part EXCEPT ![d].tracker = t]
    BY <1>1 DEF GetDreamTrackerDetail
  <2>2. /\ part'[d].tracker = t /\ part'[d].reqs = part[d].reqs /\ part'[d].docs = part[d].docs
        /\ DOMAIN part' = Reads
        /\ DOMAIN part'[d] = {"tracker", "reqs", "docs", "actions"}
    BY <1>0, <2>1
  <2> QED
    BY <1>0, <1>1, <2>2 DEF GetDreamTrackerDetail
<1>2. CASE FindDreamTracker(d)
  <2>1. UNCHANGED <<part, shown, earlier>> /\ at[d] = "tracker"
    BY <1>2 DEF FindDreamTracker
  <2>2. PICK u \in Users : IF trackers[part[d].tracker].user = u THEN To(d, "requirements")
                           ELSE Finish(d, "notfound")
    BY <1>2 DEF FindDreamTracker
  <2>3. u # None
    BY CatalogData
  <2>4. CASE trackers[part[d].tracker].user = u
    BY <1>0, <2>1, <2>2, <2>3, <2>4 DEF Exists
  <2>5. CASE trackers[part[d].tracker].user # u
    BY <1>0, <2>1, <2>2, <2>5
  <2> QED
    BY <2>4, <2>5
<1>3. CASE FindDreamRequirementDetails(d)
  <2> DEFINE reqs == StatusesOf(part[d].tracker)
             docs == DocumentsOf(part[d].tracker)
             actions == {<<c, CanUpload(reqs[c]), NeedsReupload(reqs[c])>> : c \in DOMAIN reqs}
  <2>1. part' = [part EXCEPT ![d].reqs = reqs, ![d].docs = docs, ![d].actions = actions]
    BY <1>3 DEF FindDreamRequirementDetails
  <2>2. actions = ActionsOf(reqs)
    BY DEF ActionsOf
  <2> HIDE DEF reqs, docs, actions
  <2>3. /\ part'[d].reqs = reqs /\ part'[d].docs = docs /\ part'[d].actions = actions
        /\ part'[d].tracker = part[d].tracker
        /\ DOMAIN part' = Reads /\ DOMAIN part'[d] = {"tracker", "reqs", "docs", "actions"}
    BY <1>0, <2>1
  <2>4. /\ at[d] = "requirements" /\ at'[d] = "program" /\ UNCHANGED <<shown, earlier>>
    BY <1>0, <1>3 DEF FindDreamRequirementDetails
  <2> QED
    BY <1>0, <2>2, <2>3, <2>4 DEF reqs, docs
<1>4. CASE FindProgram(d)
  <2>1. /\ at[d] = "program" /\ at'[d] = "done" /\ part'[d] = NoPart /\ earlier' = earlier
        /\ DOMAIN part' = Reads /\ DOMAIN shown' = Reads
    BY <1>0, <1>4 DEF FindProgram
  <2>2. part[d].actions = ActionsOf(part[d].reqs)
    BY <2>1 DEF ReadInv
  <2>3. shown'[d] = DetailOf(part[d].tracker, now', part[d].reqs, part[d].docs)
    BY <1>0, <1>4, <2>2 DEF FindProgram, DetailOf
  <2> QED
    BY <2>1, <2>3 DEF NoPart
<1>5. CASE FindFails(d)
  BY <1>0, <1>5 DEF FindFails
<1> QED
  BY <1>1, <1>2, <1>3, <1>4, <1>5 DEF ReadStep

LEMMA TypeRead ==
  ASSUME IndInv, DetailInv, NEW d \in Reads, ReadStep(d), UNCHANGED vars
  PROVE  DetailTypeOK' /\ PartType'
<1> USE DEF DetailInv
<1>1. PartType'
  BY ReadDoes, ReadFrame DEF PartType
<1>2. /\ plan' \in [Trackers -> Plans] /\ now' \in 0..MaxNow
      /\ at' \in [Reads -> Stages] /\ earlier' \in [Reads -> SUBSET Reads]
      /\ answer' \in [Reads -> {"none", "ok", "notfound", "internal"}]
  <2> USE DEF DetailTypeOK, To, Finish, Stages
  <2>1. plan' = plan /\ now' \in 0..MaxNow
    BY ReadFrame, AdmissionData
  <2>2. at' \in [Reads -> Stages] /\ answer' \in [Reads -> {"none", "ok", "notfound", "internal"}]
    BY DEF ReadStep, GetDreamTrackerDetail, FindDreamTracker, FindDreamRequirementDetails,
           FindProgram, FindFails
  <2>3. earlier' \in [Reads -> SUBSET Reads]
    BY DEF ReadStep, GetDreamTrackerDetail, FindDreamTracker, FindDreamRequirementDetails,
           FindProgram, FindFails
  <2> QED
    BY <2>1, <2>2, <2>3
<1>3. ASSUME NEW o \in Reads
      PROVE  /\ part'[o].tracker \in Trackers \cup {None}
             /\ \A c \in DOMAIN part'[o].reqs : part'[o].reqs[c] \in ReqStatuses
             /\ \A c \in DOMAIN part'[o].docs : part'[o].docs[c] \in Docs \cup {None}
  <2>1. CASE o # d
    BY <2>1, ReadFrame DEF DetailTypeOK
  <2>2. CASE o = d
    <3>1. /\ \A c \in DOMAIN part[d].reqs : part[d].reqs[c] \in ReqStatuses
          /\ \A c \in DOMAIN part[d].docs : part[d].docs[c] \in Docs \cup {None}
      BY DEF DetailTypeOK
    <3> DEFINE reqs == StatusesOf(part[d].tracker)
               docs == DocumentsOf(part[d].tracker)
    <3>2. at[d] = "requirements" => SeenOf(part[d].tracker, reqs, docs)
      BY StatusesSeen DEF ReadInv
    <3>3. at[d] = "requirements" => /\ \A c \in DOMAIN reqs : reqs[c] \in ReqStatuses
                                    /\ \A c \in DOMAIN docs : docs[c] \in Docs \cup {None}
      <4> HIDE DEF reqs, docs
      <4> QED
        BY <3>2 DEF SeenOf
    <3>4. /\ \A c \in DOMAIN NoPart.reqs : NoPart.reqs[c] \in ReqStatuses
          /\ \A c \in DOMAIN NoPart.docs : NoPart.docs[c] \in Docs \cup {None}
      BY DEF NoPart
    <3> QED
      BY <2>2, <3>1, <3>3, <3>4, ReadDoes
  <2> QED
    BY <2>1, <2>2
<1>4. DetailTypeOK'
  BY <1>2, <1>3 DEF DetailTypeOK
<1> QED
  BY <1>1, <1>4

LEMMA ReadRead ==
  ASSUME IndInv, DetailInv, NEW d \in Reads, ReadStep(d), UNCHANGED vars
  PROVE  ReadInv'
<1> USE DEF DetailInv
<1>1. /\ \A t, reqs, docs : SeenOf(t, reqs, docs)' <=> SeenOf(t, reqs, docs)
      /\ \A t, time, reqs, docs : DetailOf(t, time, reqs, docs)' = DetailOf(t, time, reqs, docs)
      /\ \A t : Exists(t)' <=> Exists(t)
  BY ReadFrame DEF vars, tables, history, SeenOf, Exists, DetailOf
<1>2. /\ \A o \in Reads \ {d} : /\ at'[o] = at[o] /\ part'[o] = part[o]
                                /\ shown'[o] = shown[o] /\ earlier'[o] = earlier[o]
      /\ now' \in now..MaxNow /\ now \in Nat /\ at[d] # "done" /\ at'[d] # "idle"
  BY ReadFrame DEF DetailTypeOK
<1>3. \A o \in Reads : \A e \in earlier[o] : at'[e] = "done"
  BY <1>2 DEF ReadInv, DetailTypeOK
<1>4. ASSUME NEW o \in Reads, shown[o] # NoDetail, shown'[o] = shown[o]
      PROVE  \E t \in Trackers, time \in 0..now' : \E reqs, docs :
               SeenOf(t, reqs, docs)' /\ shown'[o] = DetailOf(t, time, reqs, docs)'
  <2>1. PICK t \in Trackers, time \in 0..now : \E reqs, docs :
          SeenOf(t, reqs, docs) /\ shown[o] = DetailOf(t, time, reqs, docs)
    BY <1>4 DEF ReadInv
  <2>2. time \in 0..now'
    BY <1>2
  <2> QED
    BY <1>1, <1>4, <2>1, <2>2
<1>5. ASSUME NEW o \in Reads
      PROVE  /\ at'[o] \in {"tracker", "requirements", "program"} => part'[o].tracker \in Trackers
             /\ at'[o] \in {"requirements", "program"} => Exists(part[o].tracker)'
             /\ at'[o] = "program" => /\ SeenOf(part[o].tracker, part[o].reqs, part[o].docs)'
                                      /\ part'[o].actions = ActionsOf(part'[o].reqs)
             /\ shown'[o] # NoDetail =>
                  /\ at'[o] = "done"
                  /\ \E t \in Trackers, time \in 0..now' : \E reqs, docs :
                       SeenOf(t, reqs, docs)' /\ shown'[o] = DetailOf(t, time, reqs, docs)'
             /\ \A e \in earlier'[o] : at'[e] = "done"
             /\ at'[o] = "idle" => earlier'[o] = {}
  <2>1. CASE o # d
    BY <1>1, <1>2, <1>3, <1>4, <2>1 DEF ReadInv
  <2>2. CASE o = d
    <3>1. shown[d] = NoDetail
      BY <1>2 DEF ReadInv
    <3>2. CASE at'[d] = "tracker"
      BY <1>2, <1>3, <2>2, <3>1, <3>2, ReadDoes
    <3>3. CASE at'[d] = "requirements"
      BY <1>1, <1>3, <2>2, <3>1, <3>3, ReadDoes DEF ReadInv
    <3>4. CASE at'[d] = "program"
      <4>1. at[d] = "requirements" /\ part'[d].tracker = part[d].tracker
            /\ part'[d].reqs = StatusesOf(part[d].tracker)
            /\ part'[d].docs = DocumentsOf(part[d].tracker)
            /\ part'[d].actions = ActionsOf(part'[d].reqs)
            /\ shown'[d] = NoDetail /\ earlier'[d] = earlier[d]
        BY <3>1, <3>4, ReadDoes
      <4>2. part[d].tracker \in Trackers /\ Exists(part[d].tracker)
        BY <4>1 DEF ReadInv
      <4>3. SeenOf(part[d].tracker, StatusesOf(part[d].tracker), DocumentsOf(part[d].tracker))
        BY <4>2, StatusesSeen
      <4> QED
        BY <1>1, <1>3, <2>2, <3>4, <4>1, <4>2, <4>3
    <3>5. CASE at'[d] = "done"
      <4>1. earlier'[d] = earlier[d]
        BY <3>5, ReadDoes
      <4>2. shown'[d] # NoDetail => /\ at[d] = "program"
                                    /\ shown'[d] = DetailOf(part[d].tracker, now', part[d].reqs, part[d].docs)
        BY <3>1, <3>5, ReadDoes
      <4>3. at[d] = "program" => SeenOf(part[d].tracker, part[d].reqs, part[d].docs)
        BY DEF ReadInv
      <4>4. now' \in 0..now' /\ (at[d] = "program" => part[d].tracker \in Trackers)
        BY <1>2, <4>3 DEF SeenOf
      <4> QED
        BY <1>1, <1>3, <2>2, <3>5, <4>1, <4>2, <4>3, <4>4
    <3> QED
      BY <3>2, <3>3, <3>4, <3>5, ReadDoes
  <2> QED
    BY <2>1, <2>2
<1> QED
  BY <1>5 DEF ReadInv

LEMMA OrderRead ==
  ASSUME IndInv, DetailInv, NEW d \in Reads, ReadStep(d), UNCHANGED vars
  PROVE  OrderInv'
<1> USE DEF DetailInv
<1>1. /\ \A o \in Reads \ {d} : /\ at'[o] = at[o] /\ part'[o] = part[o]
                                /\ shown'[o] = shown[o] /\ earlier'[o] = earlier[o]
      /\ now' \in now..MaxNow /\ now \in Nat /\ at[d] # "done"
  BY ReadFrame DEF DetailTypeOK
<1>2. \A o \in Reads : \A e \in earlier'[o] : e \in Reads /\ e # d /\ shown'[e] = shown[e]
  <2>1. \A o \in Reads : \A e \in earlier'[o] : e \in Reads /\ at[e] = "done"
    BY <1>1, ReadDoes DEF ReadInv, DetailTypeOK
  <2> QED
    BY <1>1, <2>1
<1>3. ASSUME NEW o \in Reads, NEW e \in earlier'[o], shown[e] # NoDetail
      PROVE  /\ at'[o] = "program" /\ part'[o].tracker = shown[e].tracker =>
                  Follows(shown[e].docs, part'[o].docs)
             /\ shown'[o] # NoDetail /\ shown'[o].tracker = shown[e].tracker =>
                  Follows(shown[e].docs, shown'[o].docs) /\ shown[e].time <= shown'[o].time
  <2>1. CASE o # d
    BY <1>1, <1>3, <2>1 DEF OrderInv
  <2>2. CASE o = d
    <3>1. shown[d] = NoDetail
      BY <1>1 DEF ReadInv
    <3>2. PICK t \in Trackers, time \in 0..now : \E reqs, docs :
            SeenOf(t, reqs, docs) /\ shown[e] = DetailOf(t, time, reqs, docs)
      BY <1>2, <1>3 DEF ReadInv
    <3>3. PICK reqs, docs : SeenOf(t, reqs, docs) /\ shown[e] = DetailOf(t, time, reqs, docs)
      BY <3>2
    <3>4. shown[e].tracker = t /\ shown[e].docs = docs /\ shown[e].time = time
      BY <3>3 DEF DetailOf
    <3>5. ASSUME at'[d] = "program", part'[d].tracker = t PROVE Follows(docs, part'[d].docs)
      <4>1. part'[d].docs = DocumentsOf(t)
        BY <3>5, ReadDoes
      <4> QED
        BY <3>3, <4>1 DEF Follows, SeenOf, DocumentsOf
    <3>6. ASSUME shown'[d] # NoDetail, shown'[d].tracker = t
          PROVE  Follows(docs, shown'[d].docs) /\ time <= shown'[d].time
      <4>1. at[d] = "program" /\ earlier'[d] = earlier[d]
            /\ shown'[d] = DetailOf(part[d].tracker, now', part[d].reqs, part[d].docs)
        BY <3>1, <3>6, ReadDoes
      <4>2. shown'[d].tracker = part[d].tracker /\ shown'[d].docs = part[d].docs
            /\ shown'[d].time = now'
        BY <4>1 DEF DetailOf
      <4>3. Follows(docs, part[d].docs)
        BY <1>3, <2>2, <3>4, <3>6, <4>1, <4>2 DEF OrderInv
      <4> QED
        BY <1>1, <4>2, <4>3
    <3> QED
      BY <2>2, <3>4, <3>5, <3>6
  <2> QED
    BY <2>1, <2>2
<1> QED
  BY <1>2, <1>3 DEF OrderInv

LEMMA DetailInvariant == DetailSpec => []DetailInv
<1>1. ASSUME IndInv, DetailInv, NEW d \in Reads, ReadStep(d), UNCHANGED vars PROVE DetailInv'
  BY <1>1, TypeRead, ReadRead, OrderRead DEF DetailInv
<1>2. IndInv /\ DetailInv /\ [DetailNext]_allVars => DetailInv'
  BY <1>1, StepTables DEF DetailNext, allVars
<1> QED
  BY <1>2, DetailInitial, ReadsAreReads, IndInvariant, PTL DEF DetailSpec
-----------------------------------------------------------------------------
(* What an answer shows. *)

\* An answer is the detail of a tracker that exists.
LEMMA Answer ==
  ASSUME IndInv, DetailInv, NEW d \in Reads, shown[d] # NoDetail
  PROVE  LET v == shown[d]
         IN /\ v = DetailOf(v.tracker, v.time, v.reqs, v.docs) /\ SeenOf(v.tracker, v.reqs, v.docs)
            /\ v.time \in Nat /\ v.plan \in Seq(Times \cup {None})
            /\ v.deadline \in Times \cup {None}
            /\ trackers[v.tracker].funding \in Fundings \cup {None}
            /\ trackers[v.tracker].admission \in Admissions \cup {None}
            /\ IsFiniteSet(DOMAIN v.reqs)
<1> USE DEF DetailInv
<1>1. PICK t \in Trackers, time \in 0..now : \E reqs, docs :
        SeenOf(t, reqs, docs) /\ shown[d] = DetailOf(t, time, reqs, docs)
  BY DEF ReadInv
<1>2. PICK reqs, docs : SeenOf(t, reqs, docs) /\ shown[d] = DetailOf(t, time, reqs, docs)
  BY <1>1
<1>3. /\ shown[d].tracker = t /\ shown[d].time = time /\ shown[d].reqs = reqs
      /\ shown[d].docs = docs
      /\ shown[d].plan = plan[t] /\ shown[d].deadline = AdmissionDeadline(trackers[t])
  BY <1>2 DEF DetailOf
<1>4. /\ trackers[t].funding \in Fundings \cup {None}
      /\ trackers[t].admission \in Admissions \cup {None}
  BY DEF IndInv, TypeOK
<1>5. AdmissionDeadline(trackers[t]) \in Times \cup {None}
  BY <1>4, AdmissionData DEF AdmissionDeadline
<1>6. plan[t] \in Seq(Times \cup {None}) /\ time \in Nat
  BY AdmissionData DEF DetailTypeOK
<1>7. IsFiniteSet(DOMAIN reqs)
  <2>1. DOMAIN reqs \subseteq Catalog
    BY <1>2 DEF SeenOf
  <2> QED
    BY <2>1, AdmissionData, FS_Subset
<1> QED
  BY <1>2, <1>3, <1>4, <1>5, <1>6, <1>7

LEMMA DetailParts ==
  ASSUME NEW t, NEW time, NEW reqs, NEW docs
  PROVE  LET v == DetailOf(t, time, reqs, docs)
         IN /\ v.actions = ActionsOf(reqs) /\ v.deadline = AdmissionDeadline(trackers[t])
            /\ v.summary.completed = Cardinality({c \in DOMAIN reqs : Completed(reqs[c])})
            /\ v.summary.total = Cardinality(DOMAIN reqs)
            /\ v.summary.percent = CompletionPercentage(v.summary.completed, v.summary.total)
  BY DEF DetailOf, Summary

LEMMA CompletionRight ==
  ASSUME IndInv, DetailInv, NEW d \in Reads, shown[d] # NoDetail
  PROVE  CompletionIsRight(shown[d])
<1> DEFINE v == shown[d]
           C == DOMAIN v.reqs
<1>1. /\ v = DetailOf(v.tracker, v.time, v.reqs, v.docs) /\ SeenOf(v.tracker, v.reqs, v.docs)
      /\ IsFiniteSet(C)
  BY Answer
<1>2. v.reqs \in [C -> ReqStatuses]
  BY <1>1 DEF SeenOf
<1>3. /\ v.actions = ActionsOf(v.reqs)
      /\ v.summary.completed = Cardinality({c \in C : Completed(v.reqs[c])})
      /\ v.summary.total = Cardinality(C)
      /\ v.summary.percent = CompletionPercentage(v.summary.completed, v.summary.total)
  <2> HIDE DEF v
  <2> QED
    BY <1>1, DetailParts
<1> HIDE DEF v
<1>4. /\ v.summary.completed \in Nat /\ v.summary.total \in Nat
      /\ v.summary.completed <= v.summary.total
      /\ v.summary.completed + Cardinality({x \in v.actions : x[2]})
           + Cardinality({c \in C : v.reqs[c] = "OTHER"}) = v.summary.total
  BY <1>1, <1>2, <1>3, RequirementsCount
<1>5. /\ v.summary.percent \in 0..100
      /\ v.summary.percent = 100 <=> v.summary.total > 0 /\ v.summary.completed = v.summary.total
      /\ v.summary.percent = 0 <=> v.summary.completed * 100 < v.summary.total \/ v.summary.total = 0
  BY <1>3, <1>4, PercentageRounds
<1> QED
  BY <1>4, <1>5 DEF CompletionIsRight, v

LEMMA DeadlinesRight ==
  ASSUME IndInv, DetailInv, NEW d \in Reads, shown[d] # NoDetail
  PROVE  DeadlinesAreRight(shown[d])
<1> DEFINE v        == shown[d]
           ahead    == {m \in Range(v.plan) \ {None} : m >= v.time}
           upcoming == NextUpcomingDeadline(v.plan, v.time)
<1>1. /\ v = DetailOf(v.tracker, v.time, v.reqs, v.docs) /\ v.time \in Nat
      /\ v.plan \in Seq(Times \cup {None}) /\ v.deadline \in Times \cup {None}
  BY Answer
<1>2. v.summary = Summary(v.reqs, v.plan, v.deadline, v.time)
  BY <1>1 DEF DetailOf
<1> DEFINE next == IF upcoming = None THEN v.deadline ELSE upcoming
<1>3. /\ v.summary.next = next
      /\ v.summary.near <=> next # None /\ ~(next < v.time) /\ next - v.time <= NearSpan
      /\ v.summary.overdue <=> (next # None /\ next < v.time)
                               \/ (v.deadline # None /\ v.deadline < v.time)
  <2> HIDE DEF v
  <2>1. /\ v.summary.next = next
        /\ v.summary.near = (next # None /\ ~(next # None /\ next < v.time) /\ next - v.time <= NearSpan)
        /\ v.summary.overdue = ((next # None /\ next < v.time)
                                \/ (v.deadline # None /\ v.deadline < v.time))
    BY <1>2 DEF Summary
  <2> QED
    BY <2>1
<1>4. /\ ahead # {} => upcoming \in ahead /\ \A m \in ahead : upcoming <= m
      /\ ahead = {} => upcoming = None
  <2> HIDE DEF v
  <2>1. v.time \in Times
    BY <1>1 DEF Times
  <2> QED
    BY <1>1, <2>1, NextIsEarliest
<1>5. ahead \subseteq Int /\ None \notin Int /\ NearSpan \in Nat
  BY <1>1, AdmissionData DEF Times, Range
<1>6. \A m \in ahead : m >= v.time
  OBVIOUS
<1> HIDE DEF v, ahead, upcoming
<1>7. /\ ahead # {} => next = upcoming /\ next \in ahead /\ ~(next < v.time)
      /\ ahead = {} => next = v.deadline
  <2>1. CASE ahead = {}
    BY <1>4, <2>1
  <2>2. CASE ahead # {}
    <3>1. upcoming \in ahead /\ upcoming \in Int /\ upcoming >= v.time /\ upcoming # None
      BY <1>4, <1>5, <1>6, <2>2
    <3> QED
      BY <1>1, <2>2, <3>1
  <2> QED
    BY <2>1, <2>2
<1>8. next \in Int \cup {None}
  BY <1>1, <1>5, <1>7 DEF Times
<1> HIDE DEF next
<1>9. v.summary.near <=> next # None /\ next \in v.time..(v.time + NearSpan)
  BY <1>1, <1>3, <1>5, <1>8
<1>10. v.summary.overdue <=> v.deadline # None /\ v.deadline < v.time
  BY <1>3, <1>7
<1>11. /\ ahead # {} => v.summary.next \in ahead /\ \A m \in ahead : v.summary.next <= m
       /\ ahead = {} => v.summary.next = v.deadline
  BY <1>3, <1>4, <1>7
<1>12. v.summary.near <=> v.summary.next # None /\ v.summary.next \in v.time..(v.time + NearSpan)
  BY <1>3, <1>9
<1> QED
  BY <1>10, <1>11, <1>12 DEF DeadlinesAreRight, v, ahead

LEMMA FundingsRight ==
  ASSUME IndInv, DetailInv, NEW d \in Reads, shown[d] # NoDetail
  PROVE  FundingsAreRight(shown[d])
<1> DEFINE v == shown[d]
<1>1. /\ v = DetailOf(v.tracker, v.time, v.reqs, v.docs)
      /\ trackers[v.tracker].funding \in Fundings \cup {None}
      /\ trackers[v.tracker].admission \in Admissions \cup {None}
  BY Answer
<1>2. v.fundings = FundingList(trackers[v.tracker])
  BY <1>1 DEF DetailOf
<1> HIDE DEF v
<1> QED
  BY <1>1, <1>2, FundingsListed DEF FundingsAreRight, v

\* Fewer requirements are complete only if one is no more.
LEMMA CountFalls ==
  ASSUME NEW C, IsFiniteSet(C), NEW old, NEW new,
         \A c \in C : Completed(old[c]) => Completed(new[c])
  PROVE  Cardinality({c \in C : Completed(old[c])}) <= Cardinality({c \in C : Completed(new[c])})
<1>1. {c \in C : Completed(old[c])} \subseteq {c \in C : Completed(new[c])}
  OBVIOUS
<1>2. IsFiniteSet({c \in C : Completed(new[c])})
  BY FS_Subset
<1> QED
  BY <1>1, <1>2, FS_Subset

LEMMA ProgressRight == IndInv /\ DetailInv => ProgressFallsOnlyByVerdict
<1> SUFFICES ASSUME IndInv, DetailInv, NEW e \in Reads, NEW d \in Reads, e \in earlier[d],
                    shown[e] # NoDetail, shown[d] # NoDetail, shown[e].tracker = shown[d].tracker
             PROVE  /\ DOMAIN shown[e].reqs = DOMAIN shown[d].reqs
                    /\ \A c \in DOMAIN shown[e].docs :
                         shown[e].docs[c] # None => shown[d].docs[c] # None
                    /\ shown[d].summary.completed < shown[e].summary.completed =>
                         \E c \in DOMAIN shown[d].reqs :
                           /\ shown[e].reqs[c] \in {"UPLOADED", "VERIFIED"}
                           /\ shown[d].reqs[c] \notin {"UPLOADED", "VERIFIED"}
                           /\ <<shown[d].docs[c], shown[d].reqs[c]>> \in verdicts
                    /\ shown[e].summary.overdue => shown[d].summary.overdue
  BY DEF ProgressFallsOnlyByVerdict
<1> DEFINE v == shown[e]
           w == shown[d]
           C == DOMAIN w.reqs
<1>1. Follows(v.docs, w.docs) /\ v.time <= w.time
  BY DEF DetailInv, OrderInv
<1>2. /\ v = DetailOf(v.tracker, v.time, v.reqs, v.docs) /\ v.time \in Nat
      /\ w = DetailOf(w.tracker, w.time, w.reqs, w.docs) /\ w.time \in Nat
      /\ v.deadline \in Times \cup {None} /\ IsFiniteSet(C)
      /\ SeenOf(v.tracker, v.reqs, v.docs) /\ SeenOf(w.tracker, w.reqs, w.docs)
  BY Answer
<1>3. /\ v.deadline = AdmissionDeadline(trackers[v.tracker])
      /\ w.deadline = AdmissionDeadline(trackers[w.tracker])
      /\ v.summary.completed = Cardinality({c \in DOMAIN v.reqs : Completed(v.reqs[c])})
      /\ w.summary.completed = Cardinality({c \in C : Completed(w.reqs[c])})
  <2> HIDE DEF v, w
  <2>1. /\ v.deadline = AdmissionDeadline(trackers[v.tracker])
        /\ v.summary.completed = Cardinality({c \in DOMAIN v.reqs : Completed(v.reqs[c])})
    BY <1>2, DetailParts
  <2>2. /\ w.deadline = AdmissionDeadline(trackers[w.tracker])
        /\ w.summary.completed = Cardinality({c \in C : Completed(w.reqs[c])})
    BY <1>2, DetailParts
  <2> QED
    BY <2>1, <2>2
<1>4. /\ v.summary.overdue <=> v.deadline # None /\ v.deadline < v.time
      /\ w.summary.overdue <=> w.deadline # None /\ w.deadline < w.time
  BY DeadlinesRight DEF DeadlinesAreRight
<1>5. v.tracker = w.tracker
  OBVIOUS
<1> HIDE DEF v, w
<1>6. /\ DOMAIN v.reqs = C /\ DOMAIN v.docs = C /\ DOMAIN w.docs = C
      /\ v.reqs \in [C -> ReqStatuses] /\ w.reqs \in [C -> ReqStatuses]
  BY <1>1, <1>2 DEF Follows, SeenOf
<1>7. \A c \in C : v.docs[c] # None => w.docs[c] # None
  BY <1>1, <1>6 DEF Follows
<1>8. v.summary.completed \in Nat /\ w.summary.completed \in Nat
  <2>1. /\ Cardinality({c \in C : Completed(v.reqs[c])}) \in Nat
        /\ Cardinality({c \in C : Completed(w.reqs[c])}) \in Nat
    BY <1>2, <1>6, RequirementsCount
  <2> QED
    BY <1>3, <1>6, <2>1
<1>9. ASSUME NEW c \in C, Completed(v.reqs[c]), ~Completed(w.reqs[c])
      PROVE  <<w.docs[c], w.reqs[c]>> \in verdicts
  <2>1. v.docs[c] # None
    BY <1>2, <1>6, <1>9 DEF SeenOf, Completed
  <2>2. w.docs[c] # None
    BY <1>7, <2>1
  <2> QED
    BY <1>2, <1>9, <2>2 DEF SeenOf, Completed
<1>10. ASSUME \A c \in C : Completed(v.reqs[c]) => Completed(w.reqs[c])
       PROVE  v.summary.completed <= w.summary.completed
  BY <1>2, <1>3, <1>6, <1>10, CountFalls
<1>11. w.summary.completed < v.summary.completed =>
         \E c \in C : /\ v.reqs[c] \in {"UPLOADED", "VERIFIED"}
                      /\ w.reqs[c] \notin {"UPLOADED", "VERIFIED"}
                      /\ <<w.docs[c], w.reqs[c]>> \in verdicts
  BY <1>8, <1>9, <1>10 DEF Completed
<1>12. v.summary.overdue => w.summary.overdue
  BY <1>2, <1>3, <1>4, <1>1, <1>5 DEF Times
<1> QED
  BY <1>6, <1>7, <1>11, <1>12 DEF v, w
-----------------------------------------------------------------------------
(* Theorems. *)

\* GetDreamTrackerDetail keeps the types of its stages, its answers and the clock.
THEOREM DetailTypeCorrect == DetailSpec => []DetailTypeOK
<1>1. DetailInv => DetailTypeOK
  BY DEF DetailInv
<1> QED
  BY <1>1, DetailInvariant, PTL

\* Whatever submissions come between the queries of a read, its percentage, next
\* deadline, warnings and fundings are those of the requirements it shows.
THEOREM DetailsAreRight == DetailSpec => []DetailIsRight
<1>1. IndInv /\ DetailInv => DetailIsRight
  BY CompletionRight, DeadlinesRight, FundingsRight DEF DetailIsRight
<1>2. DetailSpec => []IndInv
  BY ReadsAreReads, IndInvariant, PTL
<1> QED
  BY <1>1, <1>2, DetailInvariant, PTL

\* Of two details of one tracker, the later shows the same requirements and a document
\* wherever the earlier does; fewer are complete only where the AI answered so of the
\* document it shows; and it is overdue if the earlier is.
THEOREM ProgressFalls == DetailSpec => []ProgressFallsOnlyByVerdict
<1>1. DetailSpec => []IndInv
  BY ReadsAreReads, IndInvariant, PTL
<1> QED
  BY <1>1, ProgressRight, DetailInvariant, PTL
=============================================================================
