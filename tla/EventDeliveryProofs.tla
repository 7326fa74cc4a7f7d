-------------------------- MODULE EventDeliveryProofs --------------------------
(***************************************************************************)
(* EventDelivery, proved for any number of outputs and every capacity:     *)
(* structure events are delivered in order and none is skipped.            *)
(*                                                                         *)
(* An output covers the events up to n when it has acted on each of them   *)
(* or the worker gave it up.  Acknowledgements, wherever they are on their *)
(* way (processed, published, acknowledged), are covered numbers.  What    *)
(* holds them together is that an audio snapshot has no holes: an event    *)
(* below one that it holds is in it too, or is covered already.            *)
(***************************************************************************)
EXTENDS EventDelivery, FiniteSetTheorems, TLAPS

-----------------------------------------------------------------------------
(* The invariant.                                                          *)

\* Acknowledgements acks of events up to top, where output o acted on sn[o] and g was given up.
Covered(sn, g, acks, top) ==
  \A o \in Outputs : acks[o] <= top /\ 1..acks[o] \subseteq sn[o] \union g

\* The events of a snapshot exist, and those before them are there or covered.
NoHoles(sn, g, snap, top) ==
  \A o \in Outputs : \A e \in snap[o] : e <= top /\ 1..e \subseteq snap[o] \union sn[o] \union g

CoverOK ==
  /\ \A o \in Outputs : 1..trimmed \subseteq seen[o] \union given
  /\ Covered(seen, given, processed, structureSequence)
  /\ published # <<>> => Covered(seen, given, published, structureSequence)
  /\ acknowledged # <<>> => Covered(seen, given, acknowledged, structureSequence)
  /\ NoHoles(seen, given, snapshot, structureSequence)

Inv == TypeOK /\ CoverOK

-----------------------------------------------------------------------------
(* Greatest and least numbers, and ranges.                                 *)

\* A finite set of numbers that is not empty has a greatest one: the elements from one of
\* them on are fewest for that one.
LEMMA GreatestExists ==
  ASSUME NEW S \in SUBSET Nat, IsFiniteSet(S), S # {}
  PROVE  \E m \in S : \A n \in S : m >= n
<1> DEFINE From(x) == {y \in S : y >= x}
           F == {From(x) : x \in S}
<1>1. IsWellFoundedOn(StrictSubsetOrdering(S), FiniteSubsetsOf(S))
  BY FS_StrictSubsetOrderingWellFounded
<1>2. F \subseteq FiniteSubsetsOf(S) /\ F # {}
  <2>1. FiniteSubsetsOf(S) = SUBSET S
    BY FS_FiniteSubsetsOfFinite
  <2>2. F \subseteq SUBSET S
    OBVIOUS
  <2>3. PICK x \in S : TRUE
    OBVIOUS
  <2>4. From(x) \in F
    OBVIOUS
  <2> HIDE DEF F
  <2> QED
    BY <2>1, <2>2, <2>4
<1>3. PICK T \in F : \A U \in F : ~(<<U, T>> \in StrictSubsetOrdering(S))
  <2> HIDE DEF F
  <2> QED
    BY <1>1, <1>2, WFMin
<1>4. PICK m \in S : T = From(m)
  OBVIOUS
<1>5. ASSUME NEW n \in S, ~(m >= n) PROVE FALSE
  <2>1. n \in Nat /\ m \in Nat /\ m < n
    BY <1>5
  <2>2. From(n) \subseteq From(m) /\ m \in From(m) /\ m \notin From(n)
    <3>1. \A y \in S : y \in Nat
      OBVIOUS
    <3>2. \A y : y \in From(n) => y \in S /\ y >= n
      OBVIOUS
    <3>3. \A y \in S : y >= m => y \in From(m)
      OBVIOUS
    <3>4. m \in S /\ m >= m /\ ~(m >= n)
      BY <2>1
    <3> HIDE DEF From
    <3>5. \A y \in From(n) : y \in From(m)
      <4> SUFFICES ASSUME NEW y \in From(n) PROVE y \in From(m)
        OBVIOUS
      <4>1. y \in S /\ y \in Nat /\ y >= n
        BY <3>1, <3>2
      <4>2. y >= m
        BY <2>1, <4>1
      <4> QED
        BY <3>3, <4>1, <4>2
    <3> QED
      BY <3>2, <3>3, <3>4, <3>5
  <2>3. From(n) \in SUBSET S /\ From(m) \in SUBSET S /\ From(n) \in F
    OBVIOUS
  <2>4. <<From(n), T>> \in StrictSubsetOrdering(S)
    <3> HIDE DEF From, F
    <3> QED
      BY <1>4, <2>2, <2>3 DEF StrictSubsetOrdering
  <2> QED
    BY <1>3, <2>3, <2>4
<1> QED
  BY <1>5

\* So Max is one of them, and no other is greater; a set of numbers up to a limit is finite.
LEMMA MaxIsGreatest ==
  ASSUME NEW N \in Nat, NEW S \in SUBSET (0..N), S # {}
  PROVE  Max(S) \in S /\ \A n \in S : n <= Max(S)
<1>1. IsFiniteSet(S) /\ S \in SUBSET Nat
  <2>1. IsFiniteSet(0..N)
    BY FS_Interval
  <2>2. IsFiniteSet(S)
    BY <2>1, FS_Subset
  <2>3. \A x \in S : x \in Nat
    OBVIOUS
  <2> QED
    BY <2>2, <2>3
<1>2. \E m \in S : \A n \in S : m >= n
  BY <1>1, GreatestExists
<1>3. Max(S) \in S /\ \A n \in S : Max(S) >= n
  BY <1>2 DEF Max
<1> QED
  BY <1>1, <1>3

\* Min is one of them, and no other is less: what is farthest below the limit.
LEMMA MinIsLeast ==
  ASSUME NEW N \in Nat, NEW S \in SUBSET (0..N), S # {}
  PROVE  Min(S) \in S /\ \A n \in S : Min(S) <= n
<1> DEFINE D == {N - x : x \in S}
<1>1. D \in SUBSET (0..N) /\ D # {}
  <2>1. \A x \in S : N - x \in 0..N
    OBVIOUS
  <2>2. PICK x : x \in S
    OBVIOUS
  <2>3. N - x \in D
    BY <2>2
  <2> QED
    BY <2>1, <2>3
<1>2. Max(D) \in D /\ \A n \in D : n <= Max(D)
  BY <1>1, MaxIsGreatest
<1>3. PICK m \in S : Max(D) = N - m
  BY <1>2
<1>4. \A n \in S : m <= n
  <2> SUFFICES ASSUME NEW n \in S PROVE m <= n
    OBVIOUS
  <2>1. N - n <= N - m
    BY <1>2, <1>3
  <2> QED
    BY <2>1
<1> QED
  BY <1>4 DEF Min

\* As many events are pending as lie between the trimmed and the newest one.
LEMMA RangeSize == \A a, b \in Nat : a <= b => Cardinality((a + 1)..b) = b - a
<1> SUFFICES ASSUME NEW a \in Nat, NEW b \in Nat, a <= b PROVE Cardinality((a + 1)..b) = b - a
  OBVIOUS
<1>1. Cardinality((a + 1)..b) = IF a + 1 > b THEN 0 ELSE b - (a + 1) + 1
  BY FS_Interval
<1> QED
  BY <1>1

\* Budget and outputs are what they are assumed to be.
LEMMA Facts ==
  /\ OutputCount \in Nat /\ OutputCount > 0 /\ History \in Nat /\ History > 0 /\ Budget \in Nat /\ MaxEvents \in Nat
  /\ 1 \in Outputs /\ \A o \in Outputs : o \in Nat
BY EventDeliveryAssumption DEF Outputs

-----------------------------------------------------------------------------
(* The operators of the model.                                             *)

\* What is covered and without holes stays so when more is acted on, given up or known.
LEMMA Grows ==
  ASSUME NEW sn, NEW sn2, NEW g, NEW g2, NEW top \in Nat, NEW top2 \in Nat, top <= top2, g \subseteq g2,
         \A o \in Outputs : sn[o] \subseteq sn2[o]
  PROVE  /\ \A acks \in [Outputs -> 0..MaxEvents] : Covered(sn, g, acks, top) => Covered(sn2, g2, acks, top2)
         /\ \A snap \in [Outputs -> SUBSET Events] : NoHoles(sn, g, snap, top) => NoHoles(sn2, g2, snap, top2)
<1>1. ASSUME NEW acks \in [Outputs -> 0..MaxEvents], Covered(sn, g, acks, top) PROVE Covered(sn2, g2, acks, top2)
  <2> SUFFICES ASSUME NEW o \in Outputs PROVE acks[o] <= top2 /\ 1..acks[o] \subseteq sn2[o] \union g2
    BY DEF Covered
  <2>1. acks[o] \in Nat /\ acks[o] <= top /\ 1..acks[o] \subseteq sn[o] \union g
    BY <1>1, Facts DEF Covered
  <2> QED
    BY <2>1
<1>2. ASSUME NEW snap \in [Outputs -> SUBSET Events], NoHoles(sn, g, snap, top) PROVE NoHoles(sn2, g2, snap, top2)
  <2> SUFFICES ASSUME NEW o \in Outputs, NEW e \in snap[o]
               PROVE  e <= top2 /\ 1..e \subseteq snap[o] \union sn2[o] \union g2
    BY DEF NoHoles
  <2>1. e \in Nat /\ e <= top /\ 1..e \subseteq snap[o] \union sn[o] \union g
    BY <1>2, Facts DEF NoHoles, Events
  <2> QED
    BY <2>1
<1> QED
  BY <1>1, <1>2

\* What every output acknowledged leaves the history, and nothing else does.
LEMMA TrimCovers ==
  ASSUME TypeOK, CoverOK
  PROVE  /\ TrimByAllOutputs \in 0..structureSequence /\ trimmed <= TrimByAllOutputs
         /\ \A o \in Outputs : 1..TrimByAllOutputs \subseteq seen[o] \union given
<1>0. /\ structureSequence \in Nat /\ trimmed \in Nat /\ trimmed <= structureSequence /\ structureSequence <= MaxEvents
      /\ \A o \in Outputs : 1..trimmed \subseteq seen[o] \union given
  BY Facts DEF TypeOK, CoverOK
<1>1. CASE acknowledged = <<>>
  BY <1>0, <1>1 DEF TrimByAllOutputs
<1>2. CASE acknowledged # <<>>
  <2> DEFINE A == {acknowledged[o] : o \in Outputs}
             least == Min(A)
             B == {trimmed, least}
  <2>1. acknowledged \in [Outputs -> 0..MaxEvents] /\ Covered(seen, given, acknowledged, structureSequence)
    BY <1>2 DEF TypeOK, CoverOK
  <2>2. \A o \in Outputs : acknowledged[o] \in 0..structureSequence
    BY <1>0, <2>1, Facts DEF Covered
  <2>3. A \in SUBSET (0..structureSequence) /\ A # {}
    BY <2>2, Facts
  <2>4. least \in A /\ \A n \in A : least <= n
    BY <1>0, <2>3, MinIsLeast
  <2>5. \A o \in Outputs : least <= acknowledged[o]
    BY <2>4
  <2>6. least \in 0..structureSequence
    BY <2>3, <2>4
  <2> HIDE DEF A, least
  <2>7. B \in SUBSET (0..structureSequence) /\ B # {}
    BY <1>0, <2>6
  <2>8. Max(B) \in B /\ \A n \in B : n <= Max(B)
    BY <1>0, <2>7, MaxIsGreatest
  <2>9. TrimByAllOutputs = Max(B)
    BY <1>2 DEF TrimByAllOutputs, A, least
  <2>10. Max(B) \in 0..structureSequence /\ trimmed <= Max(B) /\ (Max(B) = trimmed \/ Max(B) = least)
    BY <2>7, <2>8
  <2>11. ASSUME NEW o \in Outputs PROVE 1..Max(B) \subseteq seen[o] \union given
    <3>1. CASE Max(B) = trimmed
      BY <1>0, <3>1
    <3>2. CASE Max(B) = least
      <4>1. least <= acknowledged[o] /\ 1..acknowledged[o] \subseteq seen[o] \union given /\ acknowledged[o] \in Nat /\ least \in Nat
        BY <2>1, <2>2, <2>5, <2>6 DEF Covered
      <4>2. 1..least \subseteq 1..acknowledged[o]
        BY <4>1
      <4> QED
        BY <3>2, <4>1, <4>2
    <3> QED
      BY <2>10, <3>1, <3>2
  <2> HIDE DEF B
  <2> QED
    BY <2>9, <2>10, <2>11
<1> QED
  BY <1>1, <1>2

\* Each output is served the pending events from the oldest one on.
LEMMA ServesFromOldest ==
  ASSUME NEW from \in 0..structureSequence, structureSequence \in 0..MaxEvents, NEW o \in Outputs
  PROVE  /\ Serve(from)[o] \subseteq (from + 1)..structureSequence
         /\ \A e \in Serve(from)[o] : (from + 1)..e \subseteq Serve(from)[o]
<1> DEFINE n == structureSequence - from
           limit == (Budget \div OutputCount) * OutputCount
           p == (o - 1) * n
<1>0. structureSequence \in Nat /\ from \in Nat /\ n \in Int /\ o \in Nat
  BY Facts
<1>1. p \in Int /\ limit \in Int
  <2>1. Budget \div OutputCount \in Int
    BY Facts
  <2> QED
    BY <1>0, <2>1, Facts
<1>2. Serve(from)[o] = {e \in (from + 1)..structureSequence : p + (e - from) <= limit}
  BY DEF Serve, Limit
<1> HIDE DEF n, limit, p
<1>3. ASSUME NEW e \in (from + 1)..structureSequence, p + (e - from) <= limit, NEW d \in (from + 1)..e
      PROVE  d \in (from + 1)..structureSequence /\ p + (d - from) <= limit
  BY <1>0, <1>1, <1>3
<1> QED
  BY <1>2, <1>3

\* A snapshot that serves from a covered number on has no holes.
LEMMA ServeHasNoHoles ==
  ASSUME NEW from \in 0..structureSequence, structureSequence \in 0..MaxEvents, NEW sn, NEW g,
         \A o \in Outputs : 1..from \subseteq sn[o] \union g
  PROVE  Serve(from) \in [Outputs -> SUBSET Events] /\ NoHoles(sn, g, Serve(from), structureSequence)
<1>0. structureSequence \in Nat /\ from \in Nat
  BY Facts
<1>1. ASSUME NEW o \in Outputs, NEW e \in Serve(from)[o]
      PROVE  e \in Events /\ e <= structureSequence /\ 1..e \subseteq Serve(from)[o] \union sn[o] \union g
  <2>1. e \in (from + 1)..structureSequence /\ (from + 1)..e \subseteq Serve(from)[o]
    BY <1>1, ServesFromOldest
  <2>2. e \in Events /\ e <= structureSequence
    BY <1>0, <2>1, Facts DEF Events
  <2>3. 1..e \subseteq (1..from) \union ((from + 1)..e)
    BY <1>0, <2>1
  <2> QED
    BY <2>1, <2>2, <2>3
<1>2. Serve(from) \in [Outputs -> SUBSET Events]
  <2>1. \A o \in Outputs : Serve(from)[o] \subseteq Events
    BY <1>1
  <2>2. Serve(from) = [o \in Outputs |-> Serve(from)[o]]
    BY DEF Serve
  <2> QED
    BY <2>1, <2>2
<1> QED
  BY <1>1, <1>2 DEF NoHoles

\* A render that acts on the fresh events of a snapshot without holes covers what it says.
LEMMA RenderCovers ==
  ASSUME TypeOK, CoverOK, NEW due \in 0..MaxEvents, NEW o \in Outputs,
         NEW m, m = Max({processed[o]} \union Fresh(o, due))
  PROVE  m \in 0..MaxEvents /\ m <= structureSequence /\ 1..m \subseteq seen[o] \union Fresh(o, due) \union given
<1> DEFINE p == processed[o]
           F == Fresh(o, due)
           S == {p} \union F
<1>0. /\ structureSequence \in Nat /\ structureSequence <= MaxEvents /\ MaxEvents \in Nat
      /\ p \in 0..MaxEvents /\ p <= structureSequence /\ 1..p \subseteq seen[o] \union given
      /\ snapshot[o] \subseteq Events
      /\ \A e \in snapshot[o] : e <= structureSequence /\ 1..e \subseteq snapshot[o] \union seen[o] \union given
  BY Facts DEF TypeOK, CoverOK, Covered, NoHoles
<1>1. F = {e \in snapshot[o] : e > p /\ e <= due}
  BY DEF Fresh
<1> HIDE DEF p, F
<1>2. S \in SUBSET (0..structureSequence) /\ S # {}
  BY <1>0, <1>1 DEF Events
<1>3. Max(S) \in S /\ \A n \in S : n <= Max(S)
  BY <1>0, <1>2, MaxIsGreatest
<1>4. m = Max(S) /\ m \in 0..structureSequence /\ (m = p \/ m \in F)
  BY <1>2, <1>3 DEF p, F
<1>5. CASE m = p
  BY <1>0, <1>5
<1>6. CASE m \in F
  <2>1. m \in snapshot[o] /\ m <= due /\ m \in Nat /\ due \in Nat /\ p \in Nat
    BY <1>0, <1>1, <1>4, <1>6
  <2>2. ASSUME NEW d \in 1..m PROVE d \in seen[o] \union F \union given
    <3>1. d \in snapshot[o] \union seen[o] \union given /\ d <= due /\ d \in Nat
      BY <1>0, <2>1
    <3>2. CASE d \in snapshot[o] /\ d > p
      BY <1>1, <3>1, <3>2
    <3>3. CASE ~(d > p)
      <4>1. d \in 1..p
        BY <2>1, <3>1, <3>3
      <4> QED
        BY <1>0, <4>1
    <3> QED
      BY <3>1, <3>2, <3>3
  <2> QED
    BY <1>0, <1>4, <2>2 DEF F
<1> QED
  BY <1>0, <1>4, <1>5, <1>6

-----------------------------------------------------------------------------
(* The steps of the audio worker and of the output worker.                 *)

\* The ranges, and as many events pending as the history holds.
Ranges ==
  /\ pc \in {"idle", "frame", "submit"}
  /\ structureSequence \in 0..MaxEvents /\ trimmed \in 0..structureSequence
  /\ structureSequence - trimmed <= History
  /\ acknowledged \in {<<>>} \union [Outputs -> 0..MaxEvents]
  /\ scheduled \in BOOLEAN /\ rendering \in {"no", "current", "stale"}
  /\ snapshot \in [Outputs -> SUBSET Events] /\ seen \in [Outputs -> SUBSET Events]
  /\ processed \in [Outputs -> 0..MaxEvents]
  /\ published \in {<<>>} \union [Outputs -> 0..MaxEvents]
  /\ given \subseteq Events

\* They are the type invariant, also after a step.
LEMMA TypeRanges == (TypeOK <=> Ranges) /\ (TypeOK' <=> Ranges')
<1>1. ASSUME NEW a, NEW b \in 0..MaxEvents, a \in 0..b PROVE Cardinality((a + 1)..b) = b - a
  BY <1>1, RangeSize, Facts
<1>2. TypeOK <=> Ranges
  BY <1>1 DEF TypeOK, Ranges, Pending
<1>3. TypeOK' <=> Ranges'
  BY <1>1 DEF TypeOK, Ranges, Pending
<1> QED
  BY <1>2, <1>3

\* A new event, which may push the oldest out of the history.
LEMMA EdgeStep == Inv /\ StructureEdge => Inv'
<1> SUFFICES ASSUME Inv, StructureEdge PROVE Inv'
  OBVIOUS
<1>0. Ranges /\ CoverOK
  BY TypeRanges DEF Inv
<1> DEFINE top == structureSequence + 1
<1>1. structureSequence' = top /\ structureSequence < MaxEvents /\ pc' = "frame"
      /\ UNCHANGED <<acknowledged, scheduled, snapshot, processed, rendering, published, seen>>
  BY DEF StructureEdge, output
<1>2. structureSequence \in Nat /\ trimmed \in Nat /\ trimmed <= structureSequence /\ top \in 0..MaxEvents
      /\ top \in Nat /\ structureSequence <= top
  BY <1>0, <1>1, Facts DEF Ranges
<1>3. /\ trimmed' \in 0..top /\ top - trimmed' <= History /\ given' \subseteq Events /\ given \subseteq given'
      /\ \A e \in 1..trimmed' : e \in 1..trimmed \/ e \in given'
  <2>1. Cardinality(Pending) = structureSequence - trimmed
    BY <1>2, RangeSize DEF Pending
  <2>2. CASE Full
    <3>1. trimmed' = trimmed + 1 /\ given' = given \union {trimmed + 1} /\ structureSequence - trimmed = History
      BY <2>1, <2>2 DEF StructureEdge, Full
    <3>2. trimmed + 1 \in Events
      BY <1>2, <1>1, <3>1, Facts DEF Events
    <3> QED
      BY <1>0, <1>2, <3>1, <3>2, Facts DEF Ranges
  <2>3. CASE ~Full
    <3>1. trimmed' = trimmed /\ given' = given /\ structureSequence - trimmed # History
      BY <2>1, <2>3 DEF StructureEdge, Full
    <3> QED
      BY <1>0, <1>2, <3>1, Facts DEF Ranges
  <2> QED
    BY <2>2, <2>3
<1> HIDE DEF top
<1>4. Ranges'
  BY <1>0, <1>1, <1>2, <1>3 DEF Ranges
<1>5. CoverOK'
  <2>1. \A o \in Outputs : 1..trimmed' \subseteq seen[o] \union given'
    BY <1>0, <1>3 DEF CoverOK
  <2>2. /\ \A acks \in [Outputs -> 0..MaxEvents] : Covered(seen, given, acks, structureSequence) => Covered(seen, given', acks, top)
        /\ \A snap \in [Outputs -> SUBSET Events] : NoHoles(seen, given, snap, structureSequence) => NoHoles(seen, given', snap, top)
    BY <1>2, <1>3, Grows
  <2>3. /\ Covered(seen, given', processed, top) /\ NoHoles(seen, given', snapshot, top)
        /\ published # <<>> => Covered(seen, given', published, top)
        /\ acknowledged # <<>> => Covered(seen, given', acknowledged, top)
    BY <1>0, <2>2 DEF CoverOK, Ranges
  <2> QED
    BY <1>1, <2>1, <2>3 DEF CoverOK
<1> QED
  BY <1>4, <1>5, TypeRanges DEF Inv

\* A submission trims by the acknowledgements, and serves what is left.
LEMMA SubmitStep == Inv /\ Submit => Inv'
<1> SUFFICES ASSUME Inv, Submit PROVE Inv'
  OBVIOUS
<1>0. Ranges /\ CoverOK /\ TypeOK
  BY TypeRanges DEF Inv
<1> DEFINE t == TrimByAllOutputs
<1>1. trimmed' = t /\ pc' = "idle" /\ rendering' \in {rendering, "stale"}
      /\ UNCHANGED <<structureSequence, acknowledged, given, scheduled, processed, published, seen>>
  BY DEF Submit
<1>2. t \in 0..structureSequence /\ trimmed <= t /\ \A o \in Outputs : 1..t \subseteq seen[o] \union given
  BY <1>0, TrimCovers
<1> HIDE DEF t
<1>3. snapshot' \in [Outputs -> SUBSET Events] /\ NoHoles(seen, given, snapshot', structureSequence)
  <2>1. CASE scheduled
    <3>1. snapshot' = Serve(t)
      BY <1>1, <2>1 DEF Submit
    <3> QED
      BY <1>0, <1>2, <3>1, ServeHasNoHoles DEF Ranges
  <2>2. CASE ~scheduled
    BY <1>0, <2>2 DEF Submit, Ranges, CoverOK
  <2> QED
    BY <2>1, <2>2
<1>4. Ranges'
  <2>1. structureSequence - t <= History
    BY <1>0, <1>2, Facts DEF Ranges
  <2> QED
    BY <1>0, <1>1, <1>2, <1>3, <2>1 DEF Ranges
<1>5. CoverOK'
  BY <1>0, <1>1, <1>2, <1>3 DEF CoverOK
<1> QED
  BY <1>4, <1>5, TypeRanges DEF Inv

\* Pending events that are cleared are given up.
LEMMA ClearStep == Inv /\ ClearAudio => Inv'
<1> SUFFICES ASSUME Inv, ClearAudio PROVE Inv'
  OBVIOUS
<1>0. Ranges /\ CoverOK
  BY TypeRanges DEF Inv
<1>1. trimmed' = structureSequence /\ given' = given \union ((trimmed + 1)..structureSequence) /\ rendering' \in {rendering, "stale"}
      /\ UNCHANGED <<pc, structureSequence, acknowledged, scheduled, processed, published, seen>>
  BY DEF ClearAudio, Pending
<1>2. structureSequence \in Nat /\ trimmed \in Nat /\ trimmed <= structureSequence /\ structureSequence <= MaxEvents
  BY <1>0, Facts DEF Ranges
<1>3. /\ given' \subseteq Events /\ given \subseteq given'
      /\ 1..structureSequence \subseteq (1..trimmed) \union given'
  BY <1>0, <1>1, <1>2, Facts DEF Ranges, Events
<1>4. /\ \A acks \in [Outputs -> 0..MaxEvents] : Covered(seen, given, acks, structureSequence) => Covered(seen, given', acks, structureSequence)
      /\ \A snap \in [Outputs -> SUBSET Events] : NoHoles(seen, given, snap, structureSequence) => NoHoles(seen, given', snap, structureSequence)
  BY <1>2, <1>3, Grows
<1>5. snapshot' \in [Outputs -> SUBSET Events] /\ NoHoles(seen, given', snapshot', structureSequence)
  <2>1. CASE scheduled
    <3>1. snapshot' = Nothing
      BY <2>1 DEF ClearAudio
    <3> QED
      BY <3>1 DEF Nothing, NoHoles
  <2>2. CASE ~scheduled
    BY <1>0, <1>4, <2>2 DEF ClearAudio, Ranges, CoverOK
  <2> QED
    BY <2>1, <2>2
<1>6. Ranges'
  BY <1>0, <1>1, <1>2, <1>3, <1>5, Facts DEF Ranges
<1>7. CoverOK'
  <2>1. \A o \in Outputs : 1..structureSequence \subseteq seen[o] \union given'
    BY <1>0, <1>3 DEF CoverOK
  <2>2. /\ Covered(seen, given', processed, structureSequence)
        /\ published # <<>> => Covered(seen, given', published, structureSequence)
        /\ acknowledged # <<>> => Covered(seen, given', acknowledged, structureSequence)
    BY <1>0, <1>4 DEF CoverOK, Ranges
  <2> QED
    BY <1>1, <1>5, <2>1, <2>2 DEF CoverOK
<1> QED
  BY <1>6, <1>7, TypeRanges DEF Inv

\* A scene that is installed keeps the progress, or starts with none.
LEMMA InstallStep == Inv /\ InstallScene => Inv'
<1> SUFFICES ASSUME Inv, InstallScene PROVE Inv'
  OBVIOUS
<1>0. Ranges /\ CoverOK
  BY TypeRanges DEF Inv
<1>1. scheduled' = TRUE /\ rendering' \in {rendering, "stale"} /\ UNCHANGED <<worker, published, seen>>
  BY DEF InstallScene
<1>2. /\ snapshot' \in [Outputs -> SUBSET Events] /\ processed' \in [Outputs -> 0..MaxEvents]
      /\ NoHoles(seen, given, snapshot', structureSequence) /\ Covered(seen, given, processed', structureSequence)
  <2>1. CASE scheduled
    BY <1>0, <2>1 DEF InstallScene, Ranges, CoverOK
  <2>2. CASE ~scheduled
    <3>1. snapshot' = [o \in Outputs |-> {}] /\ processed' = [o \in Outputs |-> 0]
      BY <2>2 DEF InstallScene, Nothing
    <3>2. structureSequence \in Nat /\ MaxEvents \in Nat
      BY <1>0, Facts DEF Ranges
    <3> QED
      BY <3>1, <3>2 DEF NoHoles, Covered
  <2> QED
    BY <2>1, <2>2
<1> QED
  <2>1. Ranges'
    BY <1>0, <1>1, <1>2 DEF Ranges, worker
  <2>2. CoverOK'
    BY <1>0, <1>1, <1>2 DEF CoverOK, worker
  <2> QED
    BY <2>1, <2>2, TypeRanges DEF Inv

\* A render acts on the fresh events, and acknowledges as far as there are no holes.
LEMMA RenderStep == ASSUME Inv, NEW due \in 0..MaxEvents, Rendered(due) PROVE Inv'
<1>0. Ranges /\ CoverOK /\ TypeOK
  BY TypeRanges DEF Inv
<1> DEFINE s == [o \in Outputs |-> seen[o] \union Fresh(o, due)]
           p == [o \in Outputs |-> Max({processed[o]} \union Fresh(o, due))]
<1>1. rendering' = "no" /\ processed' = p /\ seen' = s /\ published' = p /\ UNCHANGED <<worker, scheduled, snapshot>>
  BY DEF Rendered
<1>2. \A o \in Outputs : p[o] \in 0..MaxEvents /\ p[o] <= structureSequence /\ 1..p[o] \subseteq s[o] \union given
  BY <1>0, RenderCovers
<1>3. \A o \in Outputs : seen[o] \subseteq s[o] /\ s[o] \subseteq Events
  <2>1. \A o \in Outputs : Fresh(o, due) \subseteq Events /\ seen[o] \subseteq Events
    BY <1>0 DEF Fresh, Ranges
  <2> QED
    BY <2>1
<1>4. p \in [Outputs -> 0..MaxEvents] /\ s \in [Outputs -> SUBSET Events]
  BY <1>2, <1>3
<1> HIDE DEF s, p
<1>5. structureSequence \in Nat
  BY <1>0, Facts DEF Ranges
<1>6. /\ \A acks \in [Outputs -> 0..MaxEvents] : Covered(seen, given, acks, structureSequence) => Covered(s, given, acks, structureSequence)
      /\ \A snap \in [Outputs -> SUBSET Events] : NoHoles(seen, given, snap, structureSequence) => NoHoles(s, given, snap, structureSequence)
  <2>1. given \subseteq given /\ structureSequence <= structureSequence /\ \A o \in Outputs : seen[o] \subseteq s[o]
    BY <1>3, <1>5
  <2> QED
    BY <1>5, <2>1, Grows
<1>7. Ranges'
  BY <1>0, <1>1, <1>4 DEF Ranges, worker
<1>8. CoverOK'
  <2>1. \A o \in Outputs : 1..trimmed \subseteq s[o] \union given
    BY <1>0, <1>3 DEF CoverOK
  <2>2. Covered(s, given, p, structureSequence)
    BY <1>2 DEF Covered
  <2>3. NoHoles(s, given, snapshot, structureSequence) /\ (acknowledged # <<>> => Covered(s, given, acknowledged, structureSequence))
    BY <1>0, <1>6 DEF CoverOK, Ranges
  <2> QED
    BY <1>1, <2>1, <2>2, <2>3 DEF CoverOK, worker
<1> QED
  BY <1>7, <1>8, TypeRanges DEF Inv

\* The other steps move acknowledgements, or only what is shown.
LEMMA OtherStep ==
  ASSUME Inv, Frame \/ ReadAcknowledgments \/ EndSchedule \/ StartRender \/ RenderedStale \/ UNCHANGED vars
  PROVE  Inv'
<1>0. Ranges /\ CoverOK
  BY TypeRanges DEF Inv
<1>1. /\ UNCHANGED <<structureSequence, trimmed, given, snapshot, processed, seen>>
      /\ pc' \in {pc, "frame", "submit"} /\ rendering' \in {rendering, "no", "current", "stale"} /\ scheduled' \in {scheduled, FALSE}
      /\ published' = published \/ published' = <<>>
      /\ acknowledged' = acknowledged \/ acknowledged' = published
  BY DEF Frame, ReadAcknowledgments, EndSchedule, StartRender, RenderedStale, vars, worker, output
<1>2. Ranges'
  BY <1>0, <1>1 DEF Ranges
<1>3. CoverOK'
  BY <1>0, <1>1 DEF CoverOK
<1> QED
  BY <1>2, <1>3, TypeRanges DEF Inv

-----------------------------------------------------------------------------
(* The theorems.                                                           *)

\* The invariant holds in every behaviour, for any outputs, history, budget and bound.
THEOREM EventInvariant == Spec => []Inv
<1>1. Init => Inv
  <2> SUFFICES ASSUME Init PROVE Inv
    OBVIOUS
  <2>1. Ranges
    <3>1. /\ pc = "idle" /\ structureSequence = 0 /\ trimmed = 0 /\ acknowledged = <<>> /\ scheduled = FALSE
          /\ rendering = "no" /\ published = <<>> /\ given = {}
      BY DEF Init
    <3>2. snapshot = [o \in Outputs |-> {}] /\ seen = [o \in Outputs |-> {}] /\ processed = [o \in Outputs |-> 0]
      BY DEF Init, Nothing
    <3>3. 0 \in 0..MaxEvents /\ 0 \in 0..0 /\ 0 - 0 <= History
      BY Facts
    <3> QED
      BY <3>1, <3>2, <3>3 DEF Ranges
  <2>2. CoverOK
    BY Facts DEF Init, CoverOK, Covered, NoHoles, Nothing
  <2> QED
    BY <2>1, <2>2, TypeRanges DEF Inv
<1>2. Inv /\ [Next]_vars => Inv'
  BY EdgeStep, SubmitStep, ClearStep, InstallStep, RenderStep, OtherStep DEF Next, AudioWorker, OutputWorker
<1> QED
  BY <1>1, <1>2, PTL DEF Spec

\* An acknowledgement covers nothing that its output has not acted on, unless it was
\* given up, and an event leaves the history only when no output waits for it.
THEOREM EventsComeInOrder == Spec => []InOrder
<1>1. Inv => InOrder
  <2> SUFFICES ASSUME Inv PROVE NothingSkipped
    BY DEF Inv, InOrder
  <2> QED
    BY DEF Inv, CoverOK, Covered, NothingSkipped
<1> QED
  BY <1>1, EventInvariant, PTL
=============================================================================
