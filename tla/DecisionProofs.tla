---------------------------- MODULE DecisionProofs ----------------------------
(***************************************************************************)
(* Proofs about what decides a campaign: its policy and experiments        *)
(* (CampaignPolicy, CampaignExperiments), for every set of runs, results,  *)
(* candidates and settings and every budget; and what admission lets a     *)
(* verdict rest on (CampaignAdmission), for any documents, inputs,         *)
(* observations, measurements and comparisons; and that the files which    *)
(* all of it is kept in are sound (CampaignFiles), for any number of       *)
(* sessions, events and temporary files.                                   *)
(***************************************************************************)
EXTENDS CampaignExperiments, CampaignAdmission, CampaignFiles, FiniteSetTheorems, SequenceTheorems, TLAPS

-----------------------------------------------------------------------------
(* The last of a set of indices. *)

(* A set of numbers up to n has a largest element.  The intervals from its
   elements to n are finite sets, and inclusion is well-founded on those. *)
LEMMA MaxOfBounded ==
  ASSUME NEW n \in Nat, NEW S \in SUBSET (0..n), S # {}
  PROVE  Max(S) \in S /\ \A y \in S : y <= Max(S)
<1> DEFINE R == StrictSubsetOrdering(Nat)
           Tails == {x..n : x \in S}
<1>1. IsWellFoundedOn(R, FiniteSubsetsOf(Nat))
  BY FS_StrictSubsetOrderingWellFounded
<1>2. Tails \subseteq FiniteSubsetsOf(Nat) /\ Tails # {}
  <2>1. \A x \in S : x..n \in SUBSET Nat /\ IsFiniteSet(x..n)
    BY FS_Interval
  <2> QED
    BY <2>1 DEF FiniteSubsetsOf
<1>3. \E t \in Tails : \A u \in Tails : ~(<<u, t>> \in R)
  <2> HIDE DEF R, Tails
  <2> QED
    BY <1>1, <1>2, WFMin
<1>4. PICK x \in S : \A y \in S : ~(<<y..n, x..n>> \in R)
  BY <1>3
<1>5. ASSUME NEW y \in S, x < y
      PROVE  FALSE
  <2>1. y..n \subseteq x..n /\ x \in x..n /\ x \notin y..n
    BY <1>5
  <2>2. <<y..n, x..n>> \in R
    BY <2>1 DEF StrictSubsetOrdering
  <2> QED
    BY <1>4, <2>2
<1>6. \A y \in S : x >= y
  BY <1>5
<1> QED
  BY <1>6 DEF Max

LEMMA LastOfBounded ==
  ASSUME NEW n \in Nat, NEW S \in SUBSET (1..n)
  PROVE  /\ LastOf(S) \in 0..n
         /\ LastOf(S) = 0 <=> S = {}
         /\ S # {} => LastOf(S) \in S
         /\ \A x \in S : x <= LastOf(S)
<1> DEFINE m == Max(S \cup {0})
<1>1. S \cup {0} \in SUBSET (0..n) /\ S \cup {0} # {}
  OBVIOUS
<1>2. m \in S \cup {0} /\ \A y \in S \cup {0} : y <= m
  BY <1>1, MaxOfBounded
<1>3. LastOf(S) = m
  BY DEF LastOf
<1> HIDE DEF m
<1>4. m \in 0..n
  BY <1>2
<1>5. ASSUME S # {}
      PROVE  m \in S
  <2>1. PICK x \in S : TRUE
    BY <1>5
  <2>2. x \in 1..n /\ x <= m
    BY <1>2
  <2>3. m # 0
    BY <1>4, <2>2
  <2> QED
    BY <1>2, <2>3
<1>6. S = {} => m = 0
  BY <1>2
<1>7. m \in S => m # 0
  OBVIOUS
<1> QED
  BY <1>2, <1>3, <1>4, <1>5, <1>6, <1>7

-----------------------------------------------------------------------------
(* What a history says. *)

LEMMA HistoryIndices ==
  ASSUME IsHistory(subs)
  PROVE  /\ Len(subs) \in Nat /\ DOMAIN subs = 1..Len(subs)
         /\ \A i \in DOMAIN subs : subs[i] \in Submission
         /\ \A c : Accepted(c) \in SUBSET (1..Len(subs))
         /\ CurrentProfiles \in SUBSET (1..Len(subs))
  BY DEF IsHistory, Accepted, CurrentProfiles

\* After the boundary nobody wrote source, planned or entitled.
LEMMA BoundaryIsLast ==
  ASSUME IsHistory(subs)
  PROVE  /\ SourceBoundary \in 0..Len(subs)
         /\ \A i \in DOMAIN subs :
              i > SourceBoundary =>
                /\ subs[i].capability \notin Writers
                /\ subs[i].accepted =>
                     subs[i].capability \notin {"parallelism_plan", "hardware_entitlement"}
<1> DEFINE S == {i \in DOMAIN subs :
                   \/ subs[i].capability \in Writers
                   \/ /\ subs[i].accepted
                      /\ subs[i].capability \in {"parallelism_plan", "hardware_entitlement"}}
<1>1. S \in SUBSET (1..Len(subs)) /\ Len(subs) \in Nat
  BY HistoryIndices
<1>2. SourceBoundary \in 0..Len(subs) /\ \A x \in S : x <= SourceBoundary
  BY <1>1, LastOfBounded DEF SourceBoundary
<1> QED
  BY <1>1, <1>2, HistoryIndices

-----------------------------------------------------------------------------
(* MET rests on the program as it is: a property of every history. *)

LEMMA HistoryCertifies ==
  ASSUME IsHistory(subs)
  PROVE  MetIsCertified
<1> SUFFICES ASSUME Verdict = "MET"
             PROVE  \E config \in {r.config : r \in Runs} : \A leg \in Legs :
      \E p \in DOMAIN subs :
        /\ subs[p].capability = "profile" /\ subs[p].accepted
        /\ subs[p].run.config = config /\ leg \in subs[p].met
        /\ \E e \in (p + 1)..Len(subs) :
             /\ subs[e].capability = "equivalence" /\ subs[e].accepted
             /\ subs[e].cites = p
        /\ \A i \in (p + 1)..Len(subs) :
             /\ subs[i].capability \notin Writers
             /\ subs[i].accepted =>
                  /\ subs[i].capability \notin {"parallelism_plan", "hardware_entitlement"}
                  /\ subs[i].capability = "profile" /\ leg \in subs[i].missed =>
                       \E j \in Accepted("profile") : j > i /\ subs[j].run = subs[i].run
  BY DEF MetIsCertified
<1> DEFINE configs == {subs[Selected(leg)].run.config : leg \in Legs}
<1>1. /\ Measured /\ ObjectivesMet /\ \A leg \in Legs : Equivalent(Selected(leg))
      /\ Cardinality(configs) = 1
  BY DEF Verdict
<1>2. \A leg \in Legs : /\ Selected(leg) \in CurrentProfiles
                        /\ \A i \in CurrentProfiles : leg \in subs[i].missed => i <= Selected(leg)
  <2> TAKE leg \in Legs
  <2> DEFINE S == {i \in CurrentProfiles : leg \in subs[i].met \cup subs[i].missed}
  <2>1. S \in SUBSET (1..Len(subs)) /\ Len(subs) \in Nat
    BY HistoryIndices
  <2>2. Selected(leg) = LastOf(S) /\ Selected(leg) > 0
    BY <1>1 DEF Measured, Selected
  <2>3. /\ S # {} => LastOf(S) \in S
        /\ S = {} => LastOf(S) = 0
        /\ \A x \in S : x <= LastOf(S)
    BY <2>1, LastOfBounded
  <2> QED
    BY <2>2, <2>3
<1>3. \A a, b \in Legs : subs[Selected(a)].run.config = subs[Selected(b)].run.config
  <2>1. IsFiniteSet(configs)
    <3>1. PICK a : a = subs[Selected("latency")].run.config
      OBVIOUS
    <3>2. PICK b : b = subs[Selected("throughput")].run.config
      OBVIOUS
    <3>3. configs = {a} \cup {b}
      BY <3>1, <3>2 DEF Legs
    <3>4. IsFiniteSet({a})
      BY FS_Singleton
    <3>5. IsFiniteSet({a} \cup {b})
      BY <3>4, FS_AddElement
    <3> QED
      BY <3>3, <3>5
  <2>2. PICK x : configs = {x}
    BY <1>1, <2>1, FS_Singleton
  <2> QED
    BY <2>2
<1> DEFINE config == subs[Selected("latency")].run.config
<1>4. config \in {r.config : r \in Runs}
  <2>1. Selected("latency") \in Accepted("profile")
    BY <1>2 DEF Legs, CurrentProfiles
  <2>2. subs[Selected("latency")].run \in Runs
    BY <2>1 DEF Accepted, IsHistory
  <2> QED
    BY <2>2
<1>5. ASSUME NEW leg \in Legs
      PROVE  \E p \in DOMAIN subs :
        /\ subs[p].capability = "profile" /\ subs[p].accepted
        /\ subs[p].run.config = config /\ leg \in subs[p].met
        /\ \E e \in (p + 1)..Len(subs) :
             /\ subs[e].capability = "equivalence" /\ subs[e].accepted
             /\ subs[e].cites = p
        /\ \A i \in (p + 1)..Len(subs) :
             /\ subs[i].capability \notin Writers
             /\ subs[i].accepted =>
                  /\ subs[i].capability \notin {"parallelism_plan", "hardware_entitlement"}
                  /\ subs[i].capability = "profile" /\ leg \in subs[i].missed =>
                       \E j \in Accepted("profile") : j > i /\ subs[j].run = subs[i].run
  <2> DEFINE p == Selected(leg)
  <2>1. /\ p \in DOMAIN subs /\ p \in Nat /\ p > SourceBoundary
        /\ subs[p].capability = "profile" /\ subs[p].accepted
    BY <1>2, HistoryIndices DEF CurrentProfiles, Accepted
  <2>2. subs[p].run.config = config /\ leg \in subs[p].met
    BY <1>1, <1>3 DEF ObjectivesMet, Legs
  <2>3. \E e \in (p + 1)..Len(subs) :
          /\ subs[e].capability = "equivalence" /\ subs[e].accepted
          /\ subs[e].cites = p
    <3>1. PICK e \in Accepted("equivalence") : subs[e].cites = p
      BY <1>1 DEF Equivalent
    <3>2. e \in 1..Len(subs) /\ p < e
      BY <3>1, HistoryIndices DEF IsHistory
    <3> QED
      BY <2>1, <3>1, <3>2, HistoryIndices DEF Accepted
  <2>4. ASSUME NEW i \in (p + 1)..Len(subs)
        PROVE  /\ subs[i].capability \notin Writers
               /\ subs[i].accepted =>
                    subs[i].capability \notin {"parallelism_plan", "hardware_entitlement"}
    <3>1. i \in DOMAIN subs /\ i > SourceBoundary
      BY <2>1, HistoryIndices, BoundaryIsLast
    <3> QED
      BY <3>1, BoundaryIsLast
  <2>5. ASSUME NEW i \in (p + 1)..Len(subs), subs[i].accepted,
               subs[i].capability = "profile", leg \in subs[i].missed
        PROVE  \E j \in Accepted("profile") : j > i /\ subs[j].run = subs[i].run
    <3>1. i \in Accepted("profile") /\ i > SourceBoundary /\ i > p
      BY <2>1, <2>5, HistoryIndices, BoundaryIsLast DEF Accepted
    <3>2. i \notin CurrentProfiles
      BY <1>2, <2>1, <2>5, <3>1
    <3> QED
      BY <3>1, <3>2 DEF CurrentProfiles
  <2> QED
    BY <2>1, <2>2, <2>3, <2>4, <2>5
<1> QED
  BY <1>4, <1>5

-----------------------------------------------------------------------------
(* Kernels go into the program that was analyzed. *)

LEMMA GroundedKernels ==
  ASSUME IsHistory(subs), IsGrounded(subs)
  PROVE  KernelWorkIsGrounded
<1> SUFFICES ASSUME NEW k \in DOMAIN subs, subs[k].capability = "nki_implementation"
             PROVE  LET analysis == subs[k].cites
                        p == subs[analysis].cites
                    IN /\ SourceBefore(k) = SourceBefore(p)
                       /\ \E e \in Accepted("equivalence") : subs[e].cites = p /\ e < analysis
                       /\ \E a \in Accepted("profile_analysis") :
                            subs[a].cites = p /\ subs[a].flag /\ a < analysis
  BY DEF KernelWorkIsGrounded
<1> DEFINE analysis == subs[k].cites
           p == subs[analysis].cites
<1>1. /\ analysis \in DOMAIN subs /\ subs[analysis].capability = "nki_analysis"
      /\ \A j \in DOMAIN subs \cap (p..(k - 1)) : subs[j].capability \notin Writers
  BY DEF IsGrounded
<1>2. ComparedBefore(subs, analysis, p) /\ SweptBefore(subs, analysis, p)
  BY <1>1 DEF IsGrounded
<1>3. subs[analysis] \in Submission
  BY <1>1, HistoryIndices
<1>4. p \in Nat
  BY <1>3 DEF Submission
<1>5. /\ k \in 1..Len(subs) /\ analysis \in 1..Len(subs) /\ Len(subs) \in Nat
      /\ analysis < k /\ p < analysis
  BY <1>1, HistoryIndices DEF IsHistory
<1> HIDE DEF analysis, p
<1>6. {j \in 1..(k - 1) : subs[j].capability \in Writers}
      = {j \in 1..(p - 1) : subs[j].capability \in Writers}
  BY <1>1, <1>4, <1>5, HistoryIndices
<1>7. SourceBefore(k) = SourceBefore(p)
  BY <1>6 DEF SourceBefore
<1>8. \A i \in 1..(analysis - 1) : i \in DOMAIN subs /\ i < analysis
  BY <1>5, HistoryIndices
<1>9. \E e \in Accepted("equivalence") : subs[e].cites = p /\ e < analysis
  BY <1>2, <1>8 DEF ComparedBefore, Accepted
<1>10. \E a \in Accepted("profile_analysis") : subs[a].cites = p /\ subs[a].flag /\ a < analysis
  BY <1>2, <1>8 DEF SweptBefore, Accepted
<1> QED
  BY <1>7, <1>9, <1>10 DEF analysis, p

-----------------------------------------------------------------------------
(* A request cites what the history holds. *)

LEMMA CitesEarlier ==
  ASSUME IsHistory(subs), NEW c \in Capabilities, NEW i \in Citable(c)
  PROVE  i \in 0..Len(subs)
<1>1. /\ Len(subs) \in Nat /\ CurrentProfiles \subseteq 0..Len(subs)
      /\ DOMAIN subs \subseteq 0..Len(subs)
      /\ \A a : Accepted(a) \subseteq 0..Len(subs)
  BY HistoryIndices
<1>2. CASE c = "profile_analysis"
  BY <1>1, <1>2 DEF Citable
<1>3. CASE c \in {"nki_triage", "nki_analysis"}
  BY <1>1, <1>3 DEF Citable, KernelProfiles, Certified
<1>4. CASE c = "nki_implementation"
  BY <1>1, <1>4 DEF Citable, About
<1>5. CASE c = "compiler_debug"
  BY <1>1, <1>5 DEF Citable, FailureSources
<1>6. CASE c = "equivalence"
  BY <1>1, <1>6 DEF Citable
<1>7. CASE c \notin {"profile_analysis", "nki_triage", "nki_analysis", "nki_implementation",
                     "compiler_debug", "equivalence"}
  BY <1>1, <1>7 DEF Citable
<1> QED
  BY <1>2, <1>3, <1>4, <1>5, <1>6, <1>7

LEMMA CitesComparedAndSwept ==
  ASSUME IsHistory(subs), NEW i \in Citable("nki_analysis")
  PROVE  ComparedBefore(subs, Len(subs) + 1, i) /\ SweptBefore(subs, Len(subs) + 1, i)
<1>1. Equivalent(i) /\ Swept(i)
  BY DEF Citable, KernelProfiles, Certified
<1>2. Len(subs) \in Nat /\ (Len(subs) + 1) - 1 = Len(subs) /\ DOMAIN subs = 1..Len(subs)
  BY HistoryIndices
<1> QED
  BY <1>1, <1>2 DEF Equivalent, Swept, Accepted, ComparedBefore, SweptBefore

LEMMA CitesUnwritten ==
  ASSUME IsHistory(subs), NEW i \in Citable("nki_implementation")
  PROVE  /\ i \in DOMAIN subs /\ subs[i].capability = "nki_analysis"
         /\ \A j \in DOMAIN subs :
              j >= subs[i].cites => subs[j].capability \notin Writers
<1>1. i \in Accepted("nki_analysis") /\ subs[i].cites \in CurrentProfiles
  BY DEF Citable, About
<1>2. i \in DOMAIN subs /\ subs[i].capability = "nki_analysis"
  BY <1>1 DEF Accepted
<1>3. /\ subs[i].cites > SourceBoundary /\ subs[i].cites \in 1..Len(subs)
      /\ SourceBoundary \in Nat /\ Len(subs) \in Nat
  BY <1>1, HistoryIndices, BoundaryIsLast DEF CurrentProfiles
<1>4. ASSUME NEW j \in DOMAIN subs, j >= subs[i].cites
      PROVE  subs[j].capability \notin Writers
  <2>1. j \in DOMAIN subs /\ j > SourceBoundary
    BY <1>3, <1>4, HistoryIndices
  <2> QED
    BY <2>1, BoundaryIsLast
<1> QED
  BY <1>2, <1>4

-----------------------------------------------------------------------------
(* Adding to a history. *)

LEMMA AppendKeepsHistory ==
  ASSUME NEW h, IsHistory(h),
         NEW s \in Submission, s.cites <= Len(h), s.accepted => ~s.evident,
         s.met \cap s.missed = {}, s.capability = "profile" => s.run \in Runs
  PROVE  /\ IsHistory(Append(h, s))
         /\ Len(Append(h, s)) = Len(h) + 1
         /\ Append(h, s)[Len(h) + 1] = s
         /\ \A i \in 1..Len(h) : Append(h, s)[i] = h[i]
<1>1. h \in Seq(Submission) /\ Len(h) \in Nat /\ DOMAIN h = 1..Len(h)
  BY DEF IsHistory
<1> DEFINE a == Append(h, s)
<1>2. /\ a \in Seq(Submission) /\ Len(a) = Len(h) + 1 /\ DOMAIN a = 1..(Len(h) + 1)
      /\ a[Len(h) + 1] = s /\ \A i \in 1..Len(h) : a[i] = h[i]
  BY <1>1
<1>3. s.cites \in Nat
  BY DEF Submission
<1> HIDE DEF a
<1>4. ASSUME NEW i \in DOMAIN a
      PROVE  /\ a[i].cites < i
             /\ a[i].accepted => ~a[i].evident
             /\ a[i].met \cap a[i].missed = {}
             /\ a[i].capability = "profile" => a[i].run \in Runs
  <2>1. CASE i \in 1..Len(h)
    BY <1>1, <1>2, <2>1 DEF IsHistory
  <2>2. CASE i = Len(h) + 1
    BY <1>1, <1>2, <1>3, <2>2
  <2> QED
    BY <1>1, <1>2, <2>1, <2>2
<1>5. IsHistory(a)
  BY <1>2, <1>4 DEF IsHistory
<1> QED
  BY <1>2, <1>5 DEF a

LEMMA AppendKeepsGrounds ==
  ASSUME NEW h, IsHistory(h), IsGrounded(h), NEW s,
         s.capability = "nki_analysis" =>
           ComparedBefore(h, Len(h) + 1, s.cites) /\ SweptBefore(h, Len(h) + 1, s.cites),
         s.capability = "nki_implementation" =>
           /\ s.cites \in DOMAIN h /\ h[s.cites].capability = "nki_analysis"
           /\ \A j \in DOMAIN h : j >= h[s.cites].cites => h[j].capability \notin Writers
  PROVE  IsGrounded(Append(h, s))
<1>1. h \in Seq(Submission) /\ Len(h) \in Nat /\ DOMAIN h = 1..Len(h)
  BY DEF IsHistory
<1> DEFINE a == Append(h, s)
<1>2. /\ Len(a) = Len(h) + 1 /\ DOMAIN a = 1..(Len(h) + 1)
      /\ a[Len(h) + 1] = s /\ \A i \in 1..Len(h) : a[i] = h[i]
  BY <1>1
<1> HIDE DEF a
<1>3. \A i \in 1..(Len(h) + 1) : \A p :
        /\ ComparedBefore(h, i, p) => ComparedBefore(a, i, p)
        /\ SweptBefore(h, i, p) => SweptBefore(a, i, p)
  <2>1. \A i \in 1..(Len(h) + 1) : \A j \in 1..(i - 1) : j \in 1..Len(h)
    BY <1>1
  <2> QED
    BY <1>2, <2>1 DEF ComparedBefore, SweptBefore
<1>4. ASSUME NEW i \in DOMAIN a
      PROVE  /\ a[i].capability = "nki_analysis" =>
                  ComparedBefore(a, i, a[i].cites) /\ SweptBefore(a, i, a[i].cites)
             /\ a[i].capability = "nki_implementation" =>
                  LET analysis == a[i].cites
                  IN /\ analysis \in DOMAIN a /\ a[analysis].capability = "nki_analysis"
                     /\ \A j \in DOMAIN a \cap (a[analysis].cites..(i - 1)) :
                          a[j].capability \notin Writers
  <2>1. CASE i \in 1..Len(h)
    <3>1. a[i].capability = "nki_analysis" =>
            ComparedBefore(h, i, a[i].cites) /\ SweptBefore(h, i, a[i].cites)
      BY <1>1, <1>2, <2>1 DEF IsGrounded
    <3>2. ASSUME a[i].capability = "nki_implementation"
          PROVE  /\ a[i].cites \in DOMAIN a /\ a[a[i].cites].capability = "nki_analysis"
                 /\ \A j \in DOMAIN a \cap (a[a[i].cites].cites..(i - 1)) :
                      a[j].capability \notin Writers
      <4>1. a[i] = h[i] /\ i \in DOMAIN h
        BY <1>1, <1>2, <2>1
      <4>2. /\ h[i].cites \in DOMAIN h /\ h[h[i].cites].capability = "nki_analysis"
            /\ \A j \in DOMAIN h \cap (h[h[i].cites].cites..(i - 1)) :
                 h[j].capability \notin Writers
        BY <3>2, <4>1 DEF IsGrounded
      <4>3. a[i].cites = h[i].cites /\ a[a[i].cites] = h[h[i].cites] /\ a[i].cites \in DOMAIN a
        BY <1>1, <1>2, <4>1, <4>2
      <4>4. \A j \in DOMAIN a : \A c : j \in c..(i - 1) => j \in DOMAIN h /\ a[j] = h[j]
        BY <1>1, <1>2, <2>1
      <4> QED
        BY <4>2, <4>3, <4>4
    <3> QED
      BY <1>1, <1>2, <1>3, <2>1, <3>1, <3>2
  <2>2. CASE i = Len(h) + 1
    <3>1. a[i] = s
      BY <1>2, <2>2
    <3>2. s.capability = "nki_analysis" =>
            ComparedBefore(a, i, s.cites) /\ SweptBefore(a, i, s.cites)
      BY <1>1, <1>3, <2>2
    <3>3. ASSUME s.capability = "nki_implementation"
          PROVE  /\ s.cites \in DOMAIN a /\ a[s.cites].capability = "nki_analysis"
                 /\ \A j \in DOMAIN a \cap (a[s.cites].cites..(i - 1)) :
                      a[j].capability \notin Writers
      <4>1. /\ s.cites \in DOMAIN h /\ h[s.cites].capability = "nki_analysis"
            /\ \A j \in DOMAIN h : j >= h[s.cites].cites => h[j].capability \notin Writers
        BY <3>3
      <4>2. a[s.cites] = h[s.cites] /\ s.cites \in DOMAIN a
        BY <1>1, <1>2, <4>1
      <4>3. \A j \in DOMAIN a : \A c : j \in c..(i - 1) =>
              j \in DOMAIN h /\ j >= c /\ a[j] = h[j]
        BY <1>1, <1>2, <2>2
      <4> QED
        BY <4>1, <4>2, <4>3
    <3> QED
      BY <3>1, <3>2, <3>3
  <2> QED
    BY <1>1, <1>2, <2>1, <2>2
<1>5. IsGrounded(a)
  BY <1>4 DEF IsGrounded
<1> QED
  BY <1>5 DEF a

-----------------------------------------------------------------------------
(* The invariant.  A task keeps to the history it was prepared from, since   *)
(* nothing is submitted before it is over.                                   *)

WritersWereAllowed == \A i \in DOMAIN subs : subs[i].capability \in Writers => writable

TaskIsLegal ==
  task # Nothing =>
    /\ task.cites \in Citable(task.capability)
    /\ task.capability \in Writers => writable
    /\ task.capability = "profile" => task.run \in Runs
    /\ Len(subs) < attempts

PolicyInv == PolicyTypeOK /\ IsGrounded(subs) /\ WritersWereAllowed /\ TaskIsLegal

PolicyStep == PrepareTask \/ SubmitProfile \/ Submit \/ SubmitUnsuccessful \/ Cancel

LEMMA HistoryIsShort ==
  ASSUME NEW h, IsHistory(h)
  PROVE  Cardinality(Devices(h)) \in 0..Len(h)
<1>1. h \in Seq(Submission) /\ Len(h) \in Nat /\ DOMAIN h = 1..Len(h)
  BY DEF IsHistory
<1>2. IsFiniteSet(1..Len(h)) /\ Cardinality(1..Len(h)) = Len(h)
  BY <1>1, FS_Interval
<1>3. Devices(h) \subseteq 1..Len(h)
  BY <1>1 DEF Devices
<1>4. IsFiniteSet(Devices(h)) /\ Cardinality(Devices(h)) <= Len(h)
  BY <1>2, <1>3, FS_Subset
<1>5. Cardinality(Devices(h)) \in Nat
  BY <1>4, FS_CardinalityType
<1> QED
  BY <1>1, <1>4, <1>5

LEMMA StartOfPolicy ==
  ASSUME NEW Histories, \A h \in Histories : MayStart(h), StartsFrom(Histories)
  PROVE  PolicyInv
<1>1. MayStart(subs)
  BY DEF StartsFrom
<1>2. IsHistory(subs) /\ IsGrounded(subs) /\ Len(subs) \in Nat
  BY <1>1, HistoryIndices DEF MayStart
<1>3. Cardinality(Devices(subs)) \in 0..Len(subs)
  BY <1>2, HistoryIsShort
<1>4. attempts = Len(subs) /\ hardware = Cardinality(Devices(subs)) /\ task = Nothing
  BY DEF StartsFrom
<1>5. attempts \in 0..MaxAttempts /\ hardware \in 0..MaxHardwareAttempts /\ hardware <= attempts
  BY <1>1, <1>2, <1>3, <1>4, BoundsAssumption DEF MayStart
<1>6. PolicyTypeOK
  BY <1>2, <1>4, <1>5 DEF PolicyTypeOK, StartsFrom
<1>7. WritersWereAllowed
  BY DEF WritersWereAllowed, StartsFrom
<1>8. TaskIsLegal
  BY <1>4 DEF TaskIsLegal
<1> QED
  BY <1>2, <1>6, <1>7, <1>8 DEF PolicyInv

\* What a result adds to the history.
LEMMA RecordKeepsInv ==
  ASSUME PolicyInv, NEW accepted \in BOOLEAN, NEW evident \in BOOLEAN, NEW flag \in BOOLEAN,
         NEW met \in SUBSET Legs, NEW missed \in SUBSET Legs, met \cap missed = {},
         accepted => ~evident,
         Record(accepted, evident, flag, met, missed)
  PROVE  PolicyInv'
<1> DEFINE s == [capability |-> task.capability, cites |-> task.cites,
                 run |-> task.run, accepted |-> accepted, evident |-> evident,
                 flag |-> flag, met |-> met, missed |-> missed]
<1>1. /\ task # Nothing /\ subs' = Append(subs, s) /\ task' = Nothing
      /\ UNCHANGED <<writable, attempts, hardware>>
  BY DEF Record
<1>2. task \in Task /\ IsHistory(subs) /\ IsGrounded(subs)
  BY <1>1 DEF PolicyInv, PolicyTypeOK
<1>3. task.capability \in Capabilities /\ task.cites \in Nat /\ task.run \in Runs \cup {Nothing}
  BY <1>2 DEF Task
<1>4. s \in Submission
  BY <1>3 DEF Submission
<1>5. /\ task.cites \in Citable(task.capability)
      /\ task.capability \in Writers => writable
      /\ task.capability = "profile" => task.run \in Runs
      /\ Len(subs) < attempts
  BY <1>1 DEF PolicyInv, TaskIsLegal
<1>6. /\ s.capability = task.capability /\ s.cites = task.cites /\ s.run = task.run
      /\ s.accepted = accepted /\ s.evident = evident /\ s.met = met /\ s.missed = missed
  OBVIOUS
<1>7. s.cites <= Len(subs) /\ Len(subs) \in Nat
  BY <1>2, <1>3, <1>5, <1>6, CitesEarlier, HistoryIndices
<1>8. s.capability = "nki_analysis" =>
        ComparedBefore(subs, Len(subs) + 1, s.cites) /\ SweptBefore(subs, Len(subs) + 1, s.cites)
  BY <1>2, <1>5, <1>6, CitesComparedAndSwept
<1>9. s.capability = "nki_implementation" =>
        /\ s.cites \in DOMAIN subs /\ subs[s.cites].capability = "nki_analysis"
        /\ \A j \in DOMAIN subs : j >= subs[s.cites].cites => subs[j].capability \notin Writers
  BY <1>2, <1>5, <1>6, CitesUnwritten
<1> HIDE DEF s
<1>10. /\ IsHistory(subs') /\ Len(subs') = Len(subs) + 1 /\ subs'[Len(subs) + 1] = s
       /\ \A i \in 1..Len(subs) : subs'[i] = subs[i]
  BY <1>1, <1>2, <1>4, <1>5, <1>6, <1>7, AppendKeepsHistory
<1>11. IsGrounded(subs')
  BY <1>1, <1>2, <1>8, <1>9, AppendKeepsGrounds
<1>12. DOMAIN subs' = 1..(Len(subs) + 1) /\ DOMAIN subs = 1..Len(subs)
  BY <1>2, <1>10 DEF IsHistory
<1>13. PolicyTypeOK'
  <2>1. /\ writable \in BOOLEAN /\ attempts \in 0..MaxAttempts
        /\ hardware \in 0..MaxHardwareAttempts /\ hardware <= attempts
    BY DEF PolicyInv, PolicyTypeOK
  <2>2. Len(subs') <= attempts
    BY <1>5, <1>7, <1>10, <2>1, BoundsAssumption
  <2> QED
    BY <1>1, <1>10, <2>1, <2>2 DEF PolicyTypeOK
<1>14. WritersWereAllowed'
  <2>1. WritersWereAllowed
    BY DEF PolicyInv
  <2>2. ASSUME NEW i \in DOMAIN subs', subs'[i].capability \in Writers
        PROVE  writable
    <3>1. CASE i \in 1..Len(subs)
      BY <1>10, <1>12, <2>1, <2>2, <3>1 DEF WritersWereAllowed
    <3>2. CASE i = Len(subs) + 1
      BY <1>5, <1>6, <1>10, <2>2, <3>2
    <3> QED
      BY <1>7, <1>12, <3>1, <3>2
  <2> QED
    BY <1>1, <2>2 DEF WritersWereAllowed
<1>15. TaskIsLegal'
  BY <1>1 DEF TaskIsLegal
<1> QED
  BY <1>11, <1>13, <1>14, <1>15 DEF PolicyInv

LEMMA PrepareKeepsInv ==
  ASSUME PolicyInv, PrepareTask
  PROVE  PolicyInv'
<1>1. PICK c \in LegalActions :
        /\ \E i \in Citable(c), run \in IF c = "profile" THEN Runs ELSE {Nothing} :
             task' = [capability |-> c, cites |-> i, run |-> run]
        /\ hardware' = IF c \in OnHardware THEN hardware + 1 ELSE hardware
  BY DEF PrepareTask
<1>2. PICK i \in Citable(c), run \in IF c = "profile" THEN Runs ELSE {Nothing} :
        task' = [capability |-> c, cites |-> i, run |-> run]
  BY <1>1
<1>3. attempts' = attempts + 1 /\ UNCHANGED <<writable, subs>>
  BY DEF PrepareTask
<1>4. /\ IsHistory(subs) /\ Len(subs) \in Nat /\ writable \in BOOLEAN
      /\ attempts \in 0..MaxAttempts /\ Len(subs) <= attempts
      /\ hardware \in 0..MaxHardwareAttempts /\ hardware <= attempts
  BY HistoryIndices DEF PolicyInv, PolicyTypeOK
<1>5. c \in Capabilities
  BY DEF LegalActions, Stage, WithProfiles, Recovery, Capabilities, Writers, OnHardware
<1>6. (c \in Writers => writable) /\ WithinBudget(c)
  BY DEF LegalActions
<1>7. i \in Nat
  BY <1>4, <1>5, CitesEarlier
<1>8. run \in Runs \cup {Nothing} /\ (c = "profile" => run \in Runs)
  OBVIOUS
<1>9. task' \in Task
  BY <1>2, <1>5, <1>7, <1>8 DEF Task
<1>10. /\ attempts' \in 0..MaxAttempts /\ Len(subs) < attempts'
       /\ hardware' \in 0..MaxHardwareAttempts /\ hardware' <= attempts'
  BY <1>1, <1>3, <1>4, <1>6, BoundsAssumption DEF WithinBudget
<1>11. PolicyTypeOK'
  BY <1>3, <1>4, <1>9, <1>10 DEF PolicyTypeOK
<1>12. IsGrounded(subs)'
  BY <1>3 DEF PolicyInv
<1>13. WritersWereAllowed'
  BY <1>3 DEF PolicyInv, WritersWereAllowed
<1>14. Citable(c)' = Citable(c)
  BY <1>3 DEF Citable, CurrentProfiles, KernelProfiles, Certified, Equivalent, Swept, About,
              Accepted, FailureSources, SourceBoundary, Diagnosed, FailedComparisons, SourceBefore
<1>15. task'.capability = c /\ task'.cites = i /\ task'.run = run
  BY <1>2
<1>16. TaskIsLegal'
  <2>1. i \in Citable(c)'
    BY <1>14
  <2> QED
    BY <1>3, <1>6, <1>8, <1>10, <1>15, <2>1 DEF TaskIsLegal
<1> QED
  BY <1>11, <1>12, <1>13, <1>16 DEF PolicyInv

LEMMA PolicyStepKeepsInv ==
  ASSUME PolicyInv, PolicyStep
  PROVE  PolicyInv'
<1>1. CASE PrepareTask
  BY <1>1, PrepareKeepsInv
<1>2. CASE SubmitProfile
  <2>1. PICK r \in Results : Record(TRUE, FALSE, FALSE, r.met, r.missed)
    BY <1>2 DEF SubmitProfile
  <2>2. r \in [met : SUBSET Legs, missed : SUBSET Legs] /\ r.met \cap r.missed = {}
    BY ResultsAssumption
  <2> QED
    BY <2>1, <2>2, RecordKeepsInv
<1>3. CASE Submit
  <2>1. PICK flag \in BOOLEAN : Record(TRUE, FALSE, flag, {}, {})
    BY <1>3 DEF Submit
  <2>2. {} \in SUBSET Legs /\ {} \cap {} = {}
    OBVIOUS
  <2> QED
    BY <2>1, <2>2, RecordKeepsInv
<1>4. CASE SubmitUnsuccessful
  <2>1. PICK evident \in BOOLEAN : Record(FALSE, evident, FALSE, {}, {})
    BY <1>4 DEF SubmitUnsuccessful
  <2>2. {} \in SUBSET Legs /\ {} \cap {} = {}
    OBVIOUS
  <2> QED
    BY <2>1, <2>2, RecordKeepsInv
<1>5. CASE Cancel
  <2>1. task' = Nothing /\ UNCHANGED <<writable, subs, attempts, hardware>>
    BY <1>5 DEF Cancel
  <2>2. TaskIsLegal'
    BY <2>1 DEF TaskIsLegal
  <2> QED
    BY <2>1, <2>2 DEF PolicyInv, PolicyTypeOK, WritersWereAllowed
<1> QED
  BY <1>1, <1>2, <1>3, <1>4, <1>5 DEF PolicyStep

LEMMA PolicyStutterKeepsInv ==
  ASSUME PolicyInv, UNCHANGED policyVars
  PROVE  PolicyInv'
<1>1. UNCHANGED <<writable, subs, task, attempts, hardware>>
  BY DEF policyVars
<1>2. \A c : Citable(c)' = Citable(c)
  BY <1>1 DEF Citable, CurrentProfiles, KernelProfiles, Certified, Equivalent, Swept, About,
              Accepted, FailureSources, SourceBoundary, Diagnosed, FailedComparisons, SourceBefore
<1>3. TaskIsLegal'
  BY <1>1, <1>2 DEF PolicyInv, TaskIsLegal
<1> QED
  BY <1>1, <1>3 DEF PolicyInv, PolicyTypeOK, WritersWereAllowed

-----------------------------------------------------------------------------
(* There is a next step: the stages one by one. *)

LEMMA LatestIsAccepted ==
  ASSUME IsHistory(subs), NEW c
  PROVE  /\ Latest(c) \in 0..Len(subs)
         /\ Latest(c) > 0 => /\ Latest(c) \in DOMAIN subs
                             /\ subs[Latest(c)].accepted /\ subs[Latest(c)].capability = c
<1>1. Accepted(c) \in SUBSET (1..Len(subs)) /\ Len(subs) \in Nat
  BY HistoryIndices
<1>2. /\ Latest(c) \in 0..Len(subs)
      /\ Accepted(c) # {} => Latest(c) \in Accepted(c)
      /\ Accepted(c) = {} => Latest(c) = 0
  BY <1>1, LastOfBounded DEF Latest
<1> QED
  BY <1>2 DEF Accepted

\* A port that has not been compared can be compared, or ported again.
LEMMA PortMovesOn ==
  ASSUME IsHistory(subs), WritersWereAllowed, Latest("autoport") > 0,
         Stage = {"equivalence"}
  PROVE  \E c \in Stage \cup Recovery : (c \in Writers => writable) /\ Citable(c) # {}
<1> DEFINE port == Latest("autoport")
<1>1. port \in DOMAIN subs /\ subs[port].accepted /\ subs[port].capability = "autoport"
  BY LatestIsAccepted
<1>2. CASE Diagnosed(port)
  <2>1. port \in Citable("equivalence")
    BY <1>1, <1>2 DEF Citable, Writers
  <2> QED
    BY <2>1 DEF Writers
<1>3. CASE ~Diagnosed(port)
  <2>1. "autoport" \in Recovery
    BY <1>3 DEF Diagnosed, Recovery
  <2>2. writable
    BY <1>1 DEF WritersWereAllowed, Writers
  <2>3. Citable("autoport") = {0}
    BY DEF Citable
  <2> QED
    BY <2>1, <2>2, <2>3
<1> QED
  BY <1>2, <1>3

LEMMA InvMovesOn ==
  ASSUME PolicyInv
  PROVE  SomethingCanBeDone
<1> SUFFICES ASSUME task = Nothing, attempts < MaxAttempts, hardware < MaxHardwareAttempts
             PROVE  \E c \in LegalActions : Citable(c) # {}
  BY DEF SomethingCanBeDone
<1>1. SUFFICES \E c \in Stage \cup Recovery : (c \in Writers => writable) /\ Citable(c) # {}
  BY DEF LegalActions, WithinBudget
<1>2. IsHistory(subs) /\ WritersWereAllowed
  BY DEF PolicyInv, PolicyTypeOK
<1> DEFINE plan == Latest("parallelism_plan")
           entitlement == Latest("hardware_entitlement")
           port == Latest("autoport")
<1>3. plan \in Nat /\ entitlement \in Nat /\ port \in Nat
  BY <1>2, LatestIsAccepted, HistoryIndices
<1>4. \A c \in {"parallelism_plan", "hardware_entitlement", "profile"} :
        c \notin Writers /\ Citable(c) = {0}
  BY DEF Citable, Writers
<1>5. CASE plan = 0
  <2>1. Stage = {"parallelism_plan"}
    BY <1>3, <1>5 DEF Stage
  <2> QED
    BY <1>4, <2>1
<1>6. CASE plan > 0 /\ entitlement <= plan
  <2>1. Stage = {"hardware_entitlement"}
    BY <1>3, <1>6 DEF Stage
  <2> QED
    BY <1>4, <2>1
<1>7. CASE plan > 0 /\ entitlement > plan /\ ~subs[entitlement].flag
  <2>1. Stage = {"parallelism_plan"}
    BY <1>3, <1>7 DEF Stage
  <2> QED
    BY <1>4, <2>1
<1>8. CASE plan > 0 /\ entitlement > plan /\ subs[entitlement].flag
  <2>1. Stage = IF port > entitlement /\ Latest("equivalence") <= port
                THEN {"equivalence"}
                ELSE IF CurrentProfiles = {} THEN {"profile", "autoport"}
                     ELSE WithProfiles(CurrentProfiles)
    BY <1>3, <1>8 DEF Stage
  <2>2. CASE port > entitlement /\ Latest("equivalence") <= port
    <3>1. Stage = {"equivalence"} /\ port > 0
      BY <1>3, <2>1, <2>2
    <3> QED
      BY <1>2, <3>1, PortMovesOn
  <2>3. CASE ~(port > entitlement /\ Latest("equivalence") <= port)
    <3>1. "profile" \in Stage
      BY <2>1, <2>3 DEF WithProfiles
    <3> QED
      BY <1>4, <3>1
  <2> QED
    BY <2>2, <2>3
<1> QED
  BY <1>3, <1>5, <1>6, <1>7, <1>8

-----------------------------------------------------------------------------
(* Results about the policy by itself. *)

LEMMA PolicyInvariant == PolicySpec => []PolicyInv
<1>1. PolicyInit => PolicyInv
  BY OpeningsAssumption, StartOfPolicy DEF PolicyInit
<1>2. PolicyInv /\ [PolicyNext]_policyVars => PolicyInv'
  BY PolicyStepKeepsInv, PolicyStutterKeepsInv DEF PolicyNext, Prepare, PolicyStep
<1> QED
  BY <1>1, <1>2, PTL DEF PolicySpec

\* A verdict of MET rests on compared measurements of the program as it is,
\* which nothing accepted since has contradicted (verdict in policy.py).
THEOREM MetStaysCertified == PolicySpec => []MetIsCertified
<1>1. PolicyInv => MetIsCertified
  BY HistoryCertifies DEF PolicyInv, PolicyTypeOK
<1> QED
  BY <1>1, PolicyInvariant, PTL

\* Kernel work implements an analysis, made after a comparison and a sweep, of
\* the source it changes (validate_action_request in policy.py).
THEOREM KernelsStayGrounded == PolicySpec => []KernelWorkIsGrounded
<1>1. PolicyInv => KernelWorkIsGrounded
  BY GroundedKernels DEF PolicyInv, PolicyTypeOK
<1> QED
  BY <1>1, PolicyInvariant, PTL

\* Whatever failed before, a campaign within its budgets has a legal action
\* and a request for it that passes validation (legal_actions in policy.py).
THEOREM CampaignsMoveOn == PolicySpec => []SomethingCanBeDone
<1>1. PolicyInv => SomethingCanBeDone
  BY InvMovesOn
<1> QED
  BY <1>1, PolicyInvariant, PTL

-----------------------------------------------------------------------------
(* Experiments.  The print in a task, and the one of every task that was     *)
(* submitted, stand on the history as it was when the task was prepared.     *)

Prints == {Fingerprint(c) : c \in Candidates} \cup {Nothing}

PrintStands(h, r, print, k) ==
  print # Nothing =>
    /\ print.evidence \subseteq 1..(k - 1)
    /\ \A p \in print.evidence : \A i \in (p + 1)..(k - 1) :
         /\ h[i].capability \notin Writers
         /\ h[i].accepted =>
              /\ h[i].capability \notin {"parallelism_plan", "hardware_entitlement"}
              /\ h[i].capability = "profile" => h[i].run # h[p].run
    /\ \E p \in print.evidence, a \in 1..(k - 1) : h[a].accepted /\ h[a].cites = p
    /\ \A j \in 1..(k - 1) : r[j].of = print => ~r[j].negative

OffersAreFounded ==
  \A i \in DOMAIN offers :
    offers[i] # Nothing =>
      /\ subs[i].accepted /\ subs[i].capability = "profile_analysis"
      /\ subs[i].cites \in offers[i].refs

ExperimentInv ==
  /\ PolicyInv
  /\ offers \in Seq(Candidates \cup {Nothing}) /\ Len(offers) = Len(subs)
  /\ ran \in Seq([of : Prints, negative : BOOLEAN]) /\ Len(ran) = Len(subs)
  /\ trial \in Prints
  /\ OffersAreFounded
  /\ \A k \in DOMAIN ran : PrintStands(subs, ran, ran[k].of, k)
  /\ PrintStands(subs, ran, trial, Len(subs) + 1)

LEMMA StandingPrintsAreGrounded ==
  ASSUME ExperimentInv
  PROVE  ExperimentsAreGrounded
<1> DEFINE ofs == [k \in DOMAIN ran |-> ran[k].of]
           prints == ofs \o <<trial>>
<1>1. /\ Len(ran) \in Nat /\ DOMAIN ran = 1..Len(ran) /\ Len(ran) = Len(subs)
      /\ DOMAIN subs = 1..Len(subs) /\ trial \in Prints
      /\ \A k \in 1..Len(ran) : ran[k].of \in Prints
  <2>1. IsHistory(subs)
    BY DEF ExperimentInv, PolicyInv, PolicyTypeOK
  <2>2. /\ ran \in Seq([of : Prints, negative : BOOLEAN]) /\ Len(ran) = Len(subs)
        /\ trial \in Prints
    BY DEF ExperimentInv
  <2>3. DOMAIN ran = 1..Len(ran) /\ \A k \in 1..Len(ran) : ran[k] \in [of : Prints, negative : BOOLEAN]
    <3>1. \A S : ran \in Seq(S) => DOMAIN ran = 1..Len(ran) /\ \A k \in 1..Len(ran) : ran[k] \in S
      OBVIOUS
    <3> QED
      BY <2>2, <3>1
  <2>4. \A k \in 1..Len(ran) : ran[k].of \in Prints
    BY <2>3
  <2>5. Len(subs) \in Nat /\ DOMAIN subs = 1..Len(subs)
    BY <2>1, HistoryIndices
  <2> QED
    BY <2>2, <2>3, <2>4, <2>5
<1>2. ofs \in Seq(Prints) /\ Len(ofs) = Len(ran)
  BY <1>1
<1>3. <<trial>> \in Seq(Prints) /\ Len(<<trial>>) = 1 /\ <<trial>>[1] = trial
  BY <1>1
<1>4. DOMAIN prints = 1..(Len(ran) + 1)
  BY <1>1, <1>2, <1>3
<1>5. \A k \in 1..Len(ran) : prints[k] = ran[k].of
  BY <1>1, <1>2, <1>3
<1>6. prints[Len(ran) + 1] = trial
  BY <1>1, <1>2, <1>3
<1> HIDE DEF ofs, prints
<1>7. \A k \in DOMAIN prints : PrintStands(subs, ran, prints[k], k)
  <2>1. \A k \in 1..Len(ran) : PrintStands(subs, ran, prints[k], k)
    BY <1>1, <1>5 DEF ExperimentInv
  <2>2. PrintStands(subs, ran, prints[Len(ran) + 1], Len(ran) + 1)
    BY <1>1, <1>6 DEF ExperimentInv
  <2> QED
    BY <1>1, <1>4, <2>1, <2>2
<1>8. ASSUME NEW k \in DOMAIN prints, prints[k] # Nothing
      PROVE  /\ \A p \in prints[k].evidence :
                  /\ SameProgram(p, k)
                  /\ \A i \in (p + 1)..(k - 1) : i \in Accepted("profile") => subs[i].run # subs[p].run
             /\ \E p \in prints[k].evidence, a \in 1..(k - 1) : subs[a].accepted /\ subs[a].cites = p
             /\ \A j \in 1..(k - 1) : prints[j] = prints[k] => ~ran[j].negative
  <2>1. PrintStands(subs, ran, prints[k], k)
    BY <1>7
  <2>2. \A p \in prints[k].evidence :
          /\ SameProgram(p, k)
          /\ \A i \in (p + 1)..(k - 1) : i \in Accepted("profile") => subs[i].run # subs[p].run
    BY <1>8, <2>1 DEF PrintStands, SameProgram, Accepted
  <2>3. \E p \in prints[k].evidence, a \in 1..(k - 1) : subs[a].accepted /\ subs[a].cites = p
    BY <1>8, <2>1 DEF PrintStands
  <2>4. ASSUME NEW j \in 1..(k - 1), prints[j] = prints[k]
        PROVE  ~ran[j].negative
    <3>1. j \in 1..Len(ran)
      BY <1>1, <1>4
    <3> QED
      BY <1>5, <1>8, <2>1, <2>4, <3>1 DEF PrintStands
  <2> QED
    BY <2>2, <2>3, <2>4
<1> QED
  BY <1>8 DEF ExperimentsAreGrounded, prints, ofs

LEMMA StartOfExperiments == ExperimentInit => ExperimentInv
<1> SUFFICES ASSUME ExperimentInit
             PROVE  ExperimentInv
  OBVIOUS
<1>1. PolicyInv
  BY GroundsAssumption, StartOfPolicy DEF ExperimentInit
<1>2. Len(subs) \in Nat /\ DOMAIN subs = 1..Len(subs)
  BY <1>1, HistoryIndices DEF PolicyInv, PolicyTypeOK
<1>3. trial = Nothing /\ ran = [i \in 1..Len(subs) |-> [of |-> Nothing, negative |-> FALSE]]
  BY <1>2 DEF ExperimentInit
<1>4. trial \in Prints /\ [of |-> Nothing, negative |-> FALSE] \in [of : Prints, negative : BOOLEAN]
  BY <1>3 DEF Prints
<1>5. /\ ran \in Seq([of : Prints, negative : BOOLEAN])
      /\ Len(ran) = Len(subs)
      /\ \A k \in DOMAIN ran : ran[k].of = Nothing
  BY <1>2, <1>3, <1>4
<1>6. offers \in [1..Len(subs) -> Candidates \cup {Nothing}]
  BY <1>2 DEF ExperimentInit
<1>7. /\ offers \in Seq(Candidates \cup {Nothing}) /\ Len(offers) = Len(subs)
      /\ DOMAIN offers = DOMAIN subs
  BY <1>2, <1>6
<1>8. OffersAreFounded
  BY <1>7 DEF ExperimentInit, OffersAreFounded, Accepted
<1>9. \A k : PrintStands(subs, ran, Nothing, k)
  BY DEF PrintStands
<1> QED
  BY <1>1, <1>3, <1>4, <1>5, <1>7, <1>8, <1>9 DEF ExperimentInv

\* Where a candidate on offer stands.
LEMMA OfferedPrintsStand ==
  ASSUME ExperimentInv, NEW i \in Offered
  PROVE  /\ Fingerprint(offers[i]) \in Prints
         /\ PrintStands(subs, ran, Fingerprint(offers[i]), Len(subs) + 1)
<1> DEFINE c == offers[i]
           print == Fingerprint(c)
<1>1. /\ i \in Accepted("profile_analysis") /\ c # Nothing /\ Valid(c) /\ print \notin Negative
  BY DEF Offered
<1>2. /\ IsHistory(subs) /\ Len(subs) \in Nat /\ DOMAIN subs = 1..Len(subs)
      /\ Len(offers) = Len(subs) /\ DOMAIN offers = 1..Len(subs)
      /\ DOMAIN ran = 1..Len(subs)
      /\ \A j \in 1..Len(subs) : offers[j] \in Candidates \cup {Nothing}
      /\ OffersAreFounded
  BY HistoryIndices DEF ExperimentInv, PolicyInv, PolicyTypeOK
<1>3. i \in 1..Len(subs) /\ subs[i].accepted
  BY <1>1, <1>2 DEF Accepted
<1>4. c \in Candidates /\ subs[i].cites \in c.refs
  BY <1>1, <1>2, <1>3 DEF OffersAreFounded
<1>5. c.refs \subseteq CurrentProfiles
  BY <1>1 DEF Valid, StandsOnCurrent
<1>6. print.evidence = c.refs
  BY DEF Fingerprint
<1> HIDE DEF c, print
<1>7. c.refs \subseteq 1..Len(subs)
  BY <1>2, <1>5, HistoryIndices
<1>8. ASSUME NEW p \in c.refs, NEW j \in (p + 1)..Len(subs)
      PROVE  /\ subs[j].capability \notin Writers
             /\ subs[j].accepted =>
                  /\ subs[j].capability \notin {"parallelism_plan", "hardware_entitlement"}
                  /\ subs[j].capability = "profile" => subs[j].run # subs[p].run
  <2>1. p \in CurrentProfiles /\ p \in 1..Len(subs)
    BY <1>5, <1>7
  <2>2. p > SourceBoundary /\ \A q \in Accepted("profile") : q > p => subs[q].run # subs[p].run
    BY <2>1 DEF CurrentProfiles
  <2>3. SourceBoundary \in 0..Len(subs)
    BY <1>2, BoundaryIsLast
  <2>4. j \in DOMAIN subs /\ j > p /\ j > SourceBoundary
    BY <1>2, <2>1, <2>2, <2>3
  <2>5. /\ subs[j].capability \notin Writers
        /\ subs[j].accepted =>
             subs[j].capability \notin {"parallelism_plan", "hardware_entitlement"}
    BY <1>2, <2>4, BoundaryIsLast
  <2>6. subs[j].accepted /\ subs[j].capability = "profile" => subs[j].run # subs[p].run
    BY <2>2, <2>4 DEF Accepted
  <2> QED
    BY <2>5, <2>6
<1>9. \A j \in 1..Len(subs) : ran[j].of = print => ~ran[j].negative
  BY <1>1, <1>2 DEF Negative, print
<1>10. (Len(subs) + 1) - 1 = Len(subs)
  BY <1>2
<1>11. PrintStands(subs, ran, print, Len(subs) + 1)
  BY <1>3, <1>4, <1>6, <1>7, <1>8, <1>9, <1>10 DEF PrintStands
<1>12. print \in Prints
  BY <1>4 DEF print, Prints
<1> QED
  BY <1>11, <1>12 DEF print, c

\* What has been said of earlier attempts does not change.
LEMMA PrintsKeepStanding ==
  ASSUME NEW n \in Nat, NEW h, NEW r, NEW g, NEW q,
         \A i \in 1..n : g[i] = h[i] /\ q[i] = r[i],
         NEW print, NEW k \in 1..(n + 1), PrintStands(h, r, print, k)
  PROVE  PrintStands(g, q, print, k)
<1> SUFFICES ASSUME print # Nothing
             PROVE  PrintStands(g, q, print, k)
  BY DEF PrintStands
<1>1. /\ print.evidence \subseteq 1..(k - 1)
      /\ \A p \in print.evidence : \A i \in (p + 1)..(k - 1) :
           /\ h[i].capability \notin Writers
           /\ h[i].accepted =>
                /\ h[i].capability \notin {"parallelism_plan", "hardware_entitlement"}
                /\ h[i].capability = "profile" => h[i].run # h[p].run
      /\ \E p \in print.evidence, a \in 1..(k - 1) : h[a].accepted /\ h[a].cites = p
      /\ \A j \in 1..(k - 1) : r[j].of = print => ~r[j].negative
  BY DEF PrintStands
<1>2. \A i \in 1..(k - 1) : g[i] = h[i] /\ q[i] = r[i]
  OBVIOUS
<1>3. \A p \in print.evidence : g[p] = h[p] /\ \A i \in (p + 1)..(k - 1) : g[i] = h[i]
  <2>1. \A p \in 1..(k - 1) : \A i \in (p + 1)..(k - 1) : i \in 1..(k - 1)
    OBVIOUS
  <2> QED
    BY <1>1, <1>2, <2>1
<1>4. \A j \in 1..(k - 1) : q[j].of = print => ~q[j].negative
  BY <1>1, <1>2
<1>5. \E p \in print.evidence, a \in 1..(k - 1) : g[a].accepted /\ g[a].cites = p
  BY <1>1, <1>2
<1> QED
  BY <1>1, <1>3, <1>4, <1>5 DEF PrintStands

\* A submission adds one attempt, under the task.
LEMMA SubmissionsExtend ==
  ASSUME IsHistory(subs), task \in Task, SubmitProfile \/ Submit \/ SubmitUnsuccessful
  PROVE  /\ Len(subs') = Len(subs) + 1
         /\ \A i \in 1..Len(subs) : subs'[i] = subs[i]
         /\ Submit => /\ subs'[Len(subs) + 1].accepted
                      /\ subs'[Len(subs) + 1].capability = task.capability
                      /\ subs'[Len(subs) + 1].cites = task.cites
<1>1. \A accepted, evident, flag, met, missed :
        Record(accepted, evident, flag, met, missed) =>
          /\ Len(subs') = Len(subs) + 1
          /\ \A i \in 1..Len(subs) : subs'[i] = subs[i]
          /\ subs'[Len(subs) + 1].accepted = accepted
          /\ subs'[Len(subs) + 1].capability = task.capability
          /\ subs'[Len(subs) + 1].cites = task.cites
  <2> SUFFICES ASSUME NEW accepted, NEW evident, NEW flag, NEW met, NEW missed,
                      Record(accepted, evident, flag, met, missed)
               PROVE  /\ Len(subs') = Len(subs) + 1
                      /\ \A i \in 1..Len(subs) : subs'[i] = subs[i]
                      /\ subs'[Len(subs) + 1].accepted = accepted
                      /\ subs'[Len(subs) + 1].capability = task.capability
                      /\ subs'[Len(subs) + 1].cites = task.cites
    OBVIOUS
  <2> DEFINE s == [capability |-> task.capability, cites |-> task.cites,
                   run |-> task.run, accepted |-> accepted, evident |-> evident,
                   flag |-> flag, met |-> met, missed |-> missed]
  <2>1. subs' = Append(subs, s) /\ subs \in Seq(Submission)
    BY DEF Record, IsHistory
  <2>2. /\ s.accepted = accepted /\ s.capability = task.capability /\ s.cites = task.cites
    OBVIOUS
  <2> HIDE DEF s
  <2>3. Len(subs') = Len(subs) + 1 /\ subs'[Len(subs) + 1] = s
        /\ \A i \in 1..Len(subs) : subs'[i] = subs[i]
    BY <2>1
  <2> QED
    BY <2>2, <2>3
<1>2. CASE SubmitProfile
  BY <1>1, <1>2 DEF SubmitProfile, Submit
<1>3. CASE Submit
  BY <1>1, <1>3 DEF Submit
<1>4. CASE SubmitUnsuccessful /\ ~Submit
  BY <1>1, <1>4 DEF SubmitUnsuccessful
<1> QED
  BY <1>2, <1>3, <1>4

LEMMA ConcludingKeepsInv ==
  ASSUME ExperimentInv, SubmitProfile \/ Submit \/ SubmitUnsuccessful,
         NEW negative \in BOOLEAN, Conclude(negative),
         NEW o \in Candidates \cup {Nothing}, offers' = Append(offers, o),
         o # Nothing => Submit /\ task.capability = "profile_analysis" /\ task.cites \in o.refs
  PROVE  ExperimentInv'
<1>1. PolicyInv /\ IsHistory(subs) /\ task # Nothing /\ task \in Task
  <2>1. task # Nothing
    BY DEF SubmitProfile, Submit, SubmitUnsuccessful
  <2> QED
    BY <2>1 DEF ExperimentInv, PolicyInv, PolicyTypeOK
<1>2. PolicyInv'
  BY <1>1, PolicyStepKeepsInv DEF PolicyStep
<1> DEFINE n == Len(subs)
<1>3. n \in Nat /\ DOMAIN subs = 1..n
  BY <1>1, HistoryIndices
<1>4. /\ Len(subs') = n + 1
      /\ \A i \in 1..n : subs'[i] = subs[i]
      /\ Submit => /\ subs'[n + 1].accepted /\ subs'[n + 1].capability = task.capability
                   /\ subs'[n + 1].cites = task.cites
  BY <1>1, SubmissionsExtend
<1>5. offers \in Seq(Candidates \cup {Nothing}) /\ Len(offers) = n
  BY DEF ExperimentInv
<1>6. /\ offers' \in Seq(Candidates \cup {Nothing}) /\ Len(offers') = n + 1
      /\ DOMAIN offers' = 1..(n + 1) /\ DOMAIN offers = 1..n
      /\ offers'[n + 1] = o /\ \A i \in 1..n : offers'[i] = offers[i]
  BY <1>3, <1>5
<1> DEFINE e == [of |-> trial, negative |-> negative]
<1>7. /\ ran \in Seq([of : Prints, negative : BOOLEAN]) /\ Len(ran) = n
      /\ trial \in Prints
  BY DEF ExperimentInv
<1>8. e \in [of : Prints, negative : BOOLEAN] /\ e.of = trial
  BY <1>7
<1>9. ran' = Append(ran, e) /\ trial' = Nothing
  BY DEF Conclude
<1> HIDE DEF e
<1>10. /\ ran' \in Seq([of : Prints, negative : BOOLEAN]) /\ Len(ran') = n + 1
       /\ DOMAIN ran' = 1..(n + 1) /\ DOMAIN ran = 1..n
       /\ ran'[n + 1] = e /\ \A i \in 1..n : ran'[i] = ran[i]
  BY <1>3, <1>7, <1>8, <1>9
<1>11. trial' \in Prints
  BY <1>9 DEF Prints
<1>12. OffersAreFounded'
  <2> SUFFICES ASSUME NEW i \in DOMAIN offers', offers'[i] # Nothing
               PROVE  /\ subs'[i].accepted /\ subs'[i].capability = "profile_analysis"
                      /\ subs'[i].cites \in offers'[i].refs
    BY DEF OffersAreFounded
  <2>1. CASE i \in 1..n
    BY <1>4, <1>6, <2>1 DEF ExperimentInv, OffersAreFounded
  <2>2. CASE i = n + 1
    BY <1>4, <1>6, <2>2
  <2> QED
    BY <1>3, <1>6, <2>1, <2>2
<1>13. \A k \in DOMAIN ran' : PrintStands(subs', ran', ran'[k].of, k)
  <2>1. \A i \in 1..n : subs'[i] = subs[i] /\ ran'[i] = ran[i]
    BY <1>4, <1>10
  <2> SUFFICES ASSUME NEW k \in DOMAIN ran'
               PROVE  PrintStands(subs', ran', ran'[k].of, k)
    OBVIOUS
  <2>2. CASE k \in 1..n
    <3>1. PrintStands(subs, ran, ran[k].of, k) /\ k \in 1..(n + 1)
      BY <1>3, <1>10, <2>2 DEF ExperimentInv
    <3>2. PrintStands(subs', ran', ran[k].of, k)
      BY <1>3, <2>1, <3>1, PrintsKeepStanding
    <3> QED
      BY <1>10, <2>2, <3>2
  <2>3. CASE k = n + 1
    <3>1. PrintStands(subs, ran, trial, k) /\ k \in 1..(n + 1)
      BY <1>3, <2>3 DEF ExperimentInv
    <3>2. PrintStands(subs', ran', trial, k)
      BY <1>3, <2>1, <3>1, PrintsKeepStanding
    <3> QED
      BY <1>8, <1>10, <2>3, <3>2
  <2> QED
    BY <1>3, <1>10, <2>2, <2>3
<1>14. PrintStands(subs', ran', trial', Len(subs') + 1)
  BY <1>9 DEF PrintStands
<1> QED
  BY <1>2, <1>4, <1>6, <1>10, <1>11, <1>12, <1>13, <1>14 DEF ExperimentInv

LEMMA ExperimentStepKeepsInv == ExperimentInv /\ [ExperimentNext]_experimentVars => ExperimentInv'
<1> SUFFICES ASSUME ExperimentInv, [ExperimentNext]_experimentVars
             PROVE  ExperimentInv'
  OBVIOUS
<1>1. PolicyInv
  BY DEF ExperimentInv
<1>2. \A k : PrintStands(subs, ran, Nothing, k)
  BY DEF PrintStands
<1>3. ASSUME PolicyInv', UNCHANGED <<subs, offers, ran>>, trial' \in Prints,
             PrintStands(subs, ran, trial', Len(subs) + 1)
      PROVE  ExperimentInv'
  <2>1. OffersAreFounded'
    BY <1>3 DEF ExperimentInv, OffersAreFounded
  <2>2. (\A k \in DOMAIN ran : PrintStands(subs, ran, ran[k].of, k))'
    BY <1>3 DEF ExperimentInv
  <2>3. PrintStands(subs, ran, trial, Len(subs) + 1)'
    BY <1>3
  <2> QED
    BY <1>3, <2>1, <2>2, <2>3 DEF ExperimentInv
<1>4. Nothing \in Prints
  BY DEF Prints
<1>5. CASE PreparePlain
  <2>1. PrepareTask /\ trial' = Nothing /\ UNCHANGED <<offers, ran>>
    BY <1>5 DEF PreparePlain
  <2>2. PolicyInv' /\ UNCHANGED subs
    BY <1>1, <2>1, PrepareKeepsInv DEF PrepareTask
  <2> QED
    BY <1>2, <1>3, <1>4, <2>1, <2>2
<1>6. CASE PrepareExperiment
  <2>1. PICK i \in Offered : trial' = Fingerprint(offers[i])
    BY <1>6 DEF PrepareExperiment
  <2>2. PrepareTask /\ UNCHANGED <<offers, ran>>
    BY <1>6 DEF PrepareExperiment
  <2>3. PolicyInv' /\ UNCHANGED subs
    BY <1>1, <2>2, PrepareKeepsInv DEF PrepareTask
  <2>4. trial' \in Prints /\ PrintStands(subs, ran, trial', Len(subs) + 1)
    BY <2>1, OfferedPrintsStand
  <2> QED
    BY <1>3, <2>2, <2>3, <2>4
<1>7. CASE SubmitResult
  <2>1. SubmitProfile \/ Submit \/ SubmitUnsuccessful
    BY <1>7 DEF SubmitResult
  <2>2. PICK negative \in BOOLEAN : Conclude(negative)
    BY <1>7 DEF SubmitResult
  <2>3. offers' = Append(offers, Nothing)
    BY <1>7 DEF SubmitResult
  <2> QED
    BY <2>1, <2>2, <2>3, ConcludingKeepsInv
<1>8. CASE SubmitAnalysis
  <2>1. Submit /\ task.capability = "profile_analysis"
    BY <1>8 DEF SubmitAnalysis
  <2>2. PICK negative \in BOOLEAN : Conclude(negative)
    BY <1>8 DEF SubmitAnalysis
  <2>3. PICK c \in Candidates \cup {Nothing} :
          /\ c # Nothing => Valid(c) /\ task.cites \in c.refs
          /\ offers' = Append(offers, c)
    BY <1>8 DEF SubmitAnalysis
  <2> QED
    BY <2>1, <2>2, <2>3, ConcludingKeepsInv
<1>9. CASE CancelTask
  <2>1. Cancel /\ trial' = Nothing /\ UNCHANGED <<offers, ran>>
    BY <1>9 DEF CancelTask
  <2>2. PolicyInv' /\ UNCHANGED subs
    BY <1>1, <2>1, PolicyStepKeepsInv DEF PolicyStep, Cancel
  <2> QED
    BY <1>2, <1>3, <1>4, <2>1, <2>2
<1>10. CASE Tick \/ UNCHANGED experimentVars
  <2>1. UNCHANGED policyVars /\ UNCHANGED <<offers, trial, ran>>
    BY <1>10 DEF Tick, experimentVars
  <2>2. PolicyInv' /\ UNCHANGED subs
    BY <1>1, <2>1, PolicyStutterKeepsInv DEF policyVars
  <2>3. trial' \in Prints /\ PrintStands(subs, ran, trial', Len(subs) + 1)
    BY <2>1 DEF ExperimentInv
  <2> QED
    BY <1>3, <2>1, <2>2, <2>3
<1> QED
  BY <1>5, <1>6, <1>7, <1>8, <1>9, <1>10 DEF ExperimentNext

\* A campaign that experiments: verdicts, kernels and experiments rest on
\* evidence about the program as it is, and nothing is tried again after a
\* negative result on the same evidence (policy.py, experiments.py).
THEOREM DecisionsStayGrounded == ExperimentSpec => []DecisionsAreGrounded
<1>1. ExperimentInv => DecisionsAreGrounded
  BY HistoryCertifies, GroundedKernels, StandingPrintsAreGrounded
  DEF ExperimentInv, PolicyInv, PolicyTypeOK, DecisionsAreGrounded
<1> QED
  BY <1>1, StartOfExperiments, ExperimentStepKeepsInv, PTL DEF ExperimentSpec

\* While it experiments, too, it never runs out of steps within its budgets.
THEOREM ExperimentsMoveOn == ExperimentSpec => []SomethingCanBeDone
<1>1. ExperimentInv => SomethingCanBeDone
  BY InvMovesOn DEF ExperimentInv
<1> QED
  BY <1>1, StartOfExperiments, ExperimentStepKeepsInv, PTL DEF ExperimentSpec

-----------------------------------------------------------------------------
(* Admission.  The invariant says of every submission what it was admitted   *)
(* as; that a campaign MET its objectives is then read off the submissions   *)
(* the verdict has chosen.                                                   *)

\* s was admitted as profile i.
MeasuredAs(s, i, input, o, m) ==
  /\ s = ProfileOf(i, input, o, m)
  /\ PermittedConfig(Canonical(input.config))
  /\ \A x \in m.metrics : ValidMetric(s, x)
  /\ m.succeeded => /\ Observes(Canonical(input.config), Canonical(o.observed))
                    /\ ValidEffective(s, i)

IsMeasured(s, i) ==
  \E input, o, m : m \in Measurements /\ MeasuredAs(s, i, input, o, m)

\* The reference at this path was frozen when it was first admitted.
Original(path) ==
  \E b \in Evidence : b.path = path /\ b.type = "reference_outputs" /\ b.digest = FrozenReference

\* s was held to its source and to the content of a reference.
HeldTo(s, source, c, content) ==
  /\ source.capability = "profile" /\ source.succeeded
  /\ Observes(Canonical(source.requested), Canonical(c.observed))
  /\ c.workload = source.workload
  /\ source.effective # Absent => Effective(source) = Effective(s)
  /\ campaign.contract => source.workload = campaign.lengths /\ c.tokens = content.tokens

ComparedAs(s, j, granted, c, path, content) ==
  /\ s = ComparisonOf(j, granted, c, path, content)
  /\ granted.source \in 1..(j - 1)
  /\ HeldTo(s, admitted[granted.source], c, content)
  /\ Original(path)

IsCompared(s, j) ==
  \E granted, c, path, content : ComparedAs(s, j, granted, c, path, content)

AdmittedInv == \A i \in DOMAIN admitted : IsMeasured(admitted[i], i) \/ IsCompared(admitted[i], i)

PermitInv ==
  permit # Absent =>
    /\ permit.capability = "profile" => PermittedConfig(Canonical(permit.input.config))
    /\ permit.capability = "equivalence" =>
         /\ permit.source \in DOMAIN admitted /\ IsProfile(permit.source)
         /\ campaign.contract => admitted[permit.source].workload = campaign.lengths
         /\ \A path \in permit.reusable : Original(path)

AdmissionInv ==
  /\ campaign \in Documents /\ ValidDocument(campaign)
  /\ \E S : admitted \in Seq(S)
  /\ AdmittedInv /\ PermitInv
  /\ VerdictIsWarranted /\ ComparisonsCertify

-----------------------------------------------------------------------------
(* What the two kinds of submissions are made of. *)

LEMMA ProfileFields ==
  ASSUME NEW i, NEW input, NEW o, NEW m
  PROVE  /\ ProfileOf(i, input, o, m).capability = "profile"
         /\ ProfileOf(i, input, o, m).succeeded = m.succeeded
         /\ ProfileOf(i, input, o, m).requested = input.config
         /\ ProfileOf(i, input, o, m).observed = o.observed
         /\ ProfileOf(i, input, o, m).effective = o.effective
         /\ ProfileOf(i, input, o, m).metrics = m.metrics
  BY DEF ProfileOf

LEMMA ProfileArtifacts ==
  ASSUME NEW i, NEW input, NEW o, NEW m, NEW a \in ProfileOf(i, input, o, m).artifacts
  PROVE  /\ a.type = "benchmark" =>
              /\ a.path = <<i, "bench">>
              /\ a.digest = [kind |-> "bench", proxy |-> m.proxy]
         /\ a.type = "runtime_config" => a.path = <<i, "runtime">> /\ a.digest.kind = "runtime"
<1> DEFINE bench == Artifact(<<i, "bench">>, "benchmark", m.class, [kind |-> "bench", proxy |-> m.proxy])
           trace == Artifact(<<i, "trace">>, "device_trace", "PRIMARY_MEASURED", [kind |-> "trace"])
           runtime == Artifact(<<i, "runtime">>, "runtime_config", "PRIMARY_MEASURED",
                        [kind |-> "runtime", config |-> o.runtime,
                         attempt |-> IF o.mine THEN i ELSE 0])
<1>1. a \in {bench, trace, runtime}
  BY DEF ProfileOf
<1>2. bench.type = "benchmark" /\ trace.type = "device_trace" /\ runtime.type = "runtime_config"
  BY DEF Artifact
<1>3. bench.path = <<i, "bench">> /\ bench.digest = [kind |-> "bench", proxy |-> m.proxy]
  BY DEF Artifact
<1>4. runtime.path = <<i, "runtime">> /\ runtime.digest.kind = "runtime"
  BY DEF Artifact
<1> HIDE DEF bench, trace, runtime
<1> QED
  BY <1>1, <1>2, <1>3, <1>4

LEMMA ProfilesHoldNoReferences ==
  ASSUME NEW i, NEW input, NEW o, NEW m, NEW a \in ProfileOf(i, input, o, m).artifacts
  PROVE  a.type # "reference_outputs"
  BY DEF ProfileOf, Artifact

LEMMA ComparisonFields ==
  ASSUME NEW j, NEW granted, NEW c, NEW path, NEW content
  PROVE  /\ ComparisonOf(j, granted, c, path, content).capability = "equivalence"
         /\ ComparisonOf(j, granted, c, path, content).source = granted.source
         /\ ComparisonOf(j, granted, c, path, content).workload = c.workload
         /\ ComparisonOf(j, granted, c, path, content).observed = c.observed
  BY DEF ComparisonOf

LEMMA ComparisonReference ==
  ASSUME NEW j, NEW granted, NEW c, NEW path, NEW content
  PROVE  /\ \E a \in ComparisonOf(j, granted, c, path, content).artifacts :
              /\ a.path = path /\ a.type = "reference_outputs"
              /\ a.class = "PRIMARY_MEASURED" /\ a.digest = content
         /\ \A a \in ComparisonOf(j, granted, c, path, content).artifacts :
              a.type = "reference_outputs" => a.path = path
<1> DEFINE reference == Artifact(path, "reference_outputs", "PRIMARY_MEASURED", content)
           report == Artifact(<<j, "report">>, "equivalence_report", "PRIMARY_MEASURED",
                       [kind |-> "report", identity |-> granted.identity, cites |-> {path},
                        tokens |-> c.tokens])
<1>1. ComparisonOf(j, granted, c, path, content).artifacts = {reference, report}
  BY DEF ComparisonOf
<1>2. /\ reference.path = path /\ reference.type = "reference_outputs"
      /\ reference.class = "PRIMARY_MEASURED" /\ reference.digest = content
  BY DEF Artifact
<1>3. report.type = "equivalence_report"
  BY DEF Artifact
<1> HIDE DEF reference, report
<1> QED
  BY <1>1, <1>2, <1>3

LEMMA ComparisonReport ==
  ASSUME NEW j, NEW granted, NEW c, NEW path, NEW content
  PROVE  \E r \in ComparisonOf(j, granted, c, path, content).artifacts :
           /\ r.path = <<j, "report">> /\ r.type = "equivalence_report"
           /\ r.class = "PRIMARY_MEASURED"
           /\ r.digest.cites = {path} /\ r.digest.tokens = c.tokens
<1> DEFINE report == Artifact(<<j, "report">>, "equivalence_report", "PRIMARY_MEASURED",
                       [kind |-> "report", identity |-> granted.identity, cites |-> {path},
                        tokens |-> c.tokens])
<1>1. report \in ComparisonOf(j, granted, c, path, content).artifacts
  BY DEF ComparisonOf
<1>2. /\ report.path = <<j, "report">> /\ report.type = "equivalence_report"
      /\ report.class = "PRIMARY_MEASURED"
  BY DEF Artifact
<1>3. report.digest.cites = {path} /\ report.digest.tokens = c.tokens
  BY DEF Artifact
<1> HIDE DEF report
<1> QED
  BY <1>1, <1>2, <1>3

LEMMA EffectiveIsVouched ==
  ASSUME NEW s
  PROVE  /\ DOMAIN Effective(s) = DOMAIN Vouched(s) \ Transport
         /\ \A a \in DOMAIN Effective(s) : Effective(s)[a] = Vouched(s)[a]
BY DEF Effective

\* An axis of a profile was asked for, or its runtime reported it.
LEMMA AxesAreWitnessed ==
  ASSUME NEW s, NEW i, ValidEffective(s, i), NEW a \in DOMAIN Effective(s), Effective(s)[a] # "auto"
  PROVE  \/ /\ a \in DOMAIN Canonical(s.requested)
            /\ Canonical(s.requested)[a] # "auto" /\ Canonical(s.requested)[a] = Effective(s)[a]
         \/ \E r \in s.artifacts :
              /\ r.type = "runtime_config" /\ r.digest.attempt = i
              /\ a \in DOMAIN Canonical(r.digest.config)
              /\ Canonical(r.digest.config)[a] = Effective(s)[a]
<1> DEFINE requested == Canonical(s.requested)
           vouched == Vouched(s)
           runtime == {r \in s.artifacts : r.type = "runtime_config"}
           reporting == {r \in runtime : a \in DOMAIN Canonical(r.digest.config)}
           reported == {Canonical(r.digest.config)[a] : r \in reporting}
<1>1. a \in DOMAIN vouched /\ vouched[a] = Effective(s)[a]
  BY EffectiveIsVouched
<1>2. /\ reported \subseteq {vouched[a]}
      /\ NeedsWitness(requested, a) /\ vouched[a] # "auto" => reported # {}
  BY DEF ValidEffective
<1>3. /\ \A b \in DOMAIN vouched \cap DOMAIN requested :
           vouched[b] = requested[b] \/ (requested[b] = "auto" /\ b \in PrecisionAxes)
      /\ \A r \in runtime : r.digest.attempt = i
  BY DEF ValidEffective
<1> HIDE DEF requested, vouched
<1>4. CASE NeedsWitness(requested, a)
  <2>1. PICK r \in reporting : TRUE
    BY <1>1, <1>2, <1>4
  <2>2. Canonical(r.digest.config)[a] = Effective(s)[a]
    BY <1>1, <1>2, <2>1
  <2> QED
    BY <1>3, <2>1, <2>2
<1>5. CASE ~NeedsWitness(requested, a)
  BY <1>1, <1>3, <1>5 DEF NeedsWitness, requested
<1> QED
  BY <1>4, <1>5

\* What was asked for by name is what the profile vouches for.
LEMMA RequestsAreKept ==
  ASSUME NEW s, NEW i, ValidEffective(s, i), Observes(Canonical(s.requested), Canonical(s.observed)),
         NEW a \in DOMAIN Canonical(s.requested), Canonical(s.requested)[a] # "auto"
  PROVE  /\ a \notin Transport => a \in DOMAIN Effective(s)
         /\ a \in DOMAIN Effective(s) => Effective(s)[a] = Canonical(s.requested)[a]
<1> DEFINE requested == Canonical(s.requested)
           vouched == Vouched(s)
<1>1. /\ \A b \in DOMAIN vouched \cap DOMAIN requested :
           vouched[b] = requested[b] \/ (requested[b] = "auto" /\ b \in PrecisionAxes)
      /\ s.effective # Absent => DOMAIN requested \subseteq DOMAIN vouched
  BY DEF ValidEffective
<1>2. a \in DOMAIN vouched
  <2>1. CASE s.effective = Absent
    BY <2>1 DEF Vouched, Observes
  <2>2. CASE s.effective # Absent
    BY <1>1, <2>2
  <2> QED
    BY <2>1, <2>2
<1>3. vouched[a] = requested[a]
  BY <1>1, <1>2
<1> QED
  BY <1>2, <1>3, EffectiveIsVouched

-----------------------------------------------------------------------------
(* The submissions the verdict has chosen. *)

\* Of submissions given by their places one is the last.
LEMMA OneIsLast ==
  ASSUME NEW n \in Nat, NEW S \in SUBSET (1..n), S # {}
  PROVE  \E x \in S : \A y \in S : y <= x
<1> DEFINE R == StrictSubsetOrdering(Nat)
           After == {x..n : x \in S}
<1>1. IsWellFoundedOn(R, FiniteSubsetsOf(Nat))
  BY FS_StrictSubsetOrderingWellFounded
<1>2. After \subseteq FiniteSubsetsOf(Nat) /\ After # {}
  <2>1. \A x \in S : x..n \in SUBSET Nat /\ IsFiniteSet(x..n)
    BY FS_Interval
  <2> QED
    BY <2>1 DEF FiniteSubsetsOf
<1>3. \E t \in After : \A u \in After : ~(<<u, t>> \in R)
  <2> HIDE DEF R, After
  <2> QED
    BY <1>1, <1>2, WFMin
<1>4. PICK x \in S : \A y \in S : ~(<<y..n, x..n>> \in R)
  BY <1>3
<1>5. ASSUME NEW y \in S, x < y
      PROVE  FALSE
  <2>1. y..n \subseteq x..n /\ x \in x..n /\ x \notin y..n
    BY <1>5
  <2>2. <<y..n, x..n>> \in R
    BY <2>1 DEF StrictSubsetOrdering
  <2> QED
    BY <1>4, <2>2
<1> QED
  BY <1>5

LEMMA VerdictChooses ==
  ASSUME AdmissionInv, Finding = "MET"
  PROVE  /\ Asked = Expected(campaign.ask)
         /\ campaign.ask \in {"latency", "throughput", "joint"}
         /\ \A leg \in Asked :
              /\ Chosen(leg) \in Standing
              /\ Metric(leg) \in Measures(Chosen(leg), leg) /\ Metric(leg).met
              /\ Compared(Chosen(leg))
         /\ \A x, y \in Asked :
              Effective(admitted[Chosen(x)]) = Effective(admitted[Chosen(y)])
<1>1. campaign.ask \in {"latency", "throughput", "joint"}
  BY AskAssumption DEF AdmissionInv
<1>2. Asked = Expected(campaign.ask)
  BY DEF AdmissionInv, ValidDocument, Asked
<1> DEFINE configs == {Effective(admitted[Chosen(leg)]) : leg \in Asked}
<1>3. /\ \A leg \in Asked : Carriers(leg) # {}
      /\ \A leg \in Asked : Metric(leg).met
      /\ \A leg \in Asked : Compared(Chosen(leg))
      /\ Cardinality(configs) = 1
  BY DEF Finding
<1>4. \A leg \in Asked : Chosen(leg) \in Carriers(leg)
  <2> TAKE leg \in Asked
  <2>1. PICK S : admitted \in Seq(S)
    BY DEF AdmissionInv
  <2>2. Len(admitted) \in Nat /\ DOMAIN admitted = 1..Len(admitted)
    BY <2>1
  <2>3. Carriers(leg) \in SUBSET (1..Len(admitted))
    BY <2>2 DEF Carriers, Standing
  <2>4. Carriers(leg) # {}
    BY <1>3
  <2> DEFINE C == Carriers(leg)
  <2> HIDE DEF C
  <2>5. C \in SUBSET (1..Len(admitted)) /\ C # {}
    BY <2>3, <2>4 DEF C
  <2>6. \E i \in C : \A j \in C : j <= i
    BY <2>2, <2>5, OneIsLast
  <2>7. (CHOOSE i \in C : \A j \in C : j <= i) \in C
    BY <2>6
  <2> QED
    BY <2>7 DEF C, Chosen
<1>5. \A leg \in Asked : Chosen(leg) \in Standing /\ Measures(Chosen(leg), leg) # {}
  BY <1>4 DEF Carriers
<1>6. \A leg \in Asked : Metric(leg) \in Measures(Chosen(leg), leg)
  BY <1>5 DEF Metric
<1>7. \A x, y \in Asked : Effective(admitted[Chosen(x)]) = Effective(admitted[Chosen(y)])
  <2>1. PICK a : a = Effective(admitted[Chosen("latency")])
    OBVIOUS
  <2>2. PICK b : b = Effective(admitted[Chosen("throughput")])
    OBVIOUS
  <2>3. Asked \subseteq {"latency", "throughput"}
    BY <1>1, <1>2 DEF Expected
  <2>4. configs \subseteq {a} \cup {b}
    BY <2>1, <2>2, <2>3
  <2>5. IsFiniteSet({a})
    BY FS_Singleton
  <2>6. IsFiniteSet({a} \cup {b})
    BY <2>5, FS_AddElement
  <2>7. IsFiniteSet(configs)
    BY <2>4, <2>6, FS_Subset
  <2>8. PICK z : configs = {z}
    <3> HIDE DEF configs
    <3> QED
      BY <1>3, <2>7, FS_Singleton
  <2> QED
    BY <2>8
<1> QED
  BY <1>1, <1>2, <1>3, <1>5, <1>6, <1>7

LEMMA VerifiedContent ==
  ASSUME Verified, NEW i \in DOMAIN admitted, NEW a \in admitted[i].artifacts
  PROVE  Content(a.path) = a.digest
<1>1. a \in Evidence
  BY DEF Evidence
<1> QED
  BY <1>1 DEF Verified, Unchanged

\* A standing profile, as it was admitted.
LEMMA StandingIsMeasured ==
  ASSUME AdmissionInv, NEW i \in Standing
  PROVE  /\ i \in DOMAIN admitted /\ IsProfile(i)
         /\ \A j \in DOMAIN admitted : IsProfile(j) /\ CellOf(j) = CellOf(i) => j <= i
         /\ \E input, o, m : /\ m \in Measurements /\ m.succeeded
                             /\ MeasuredAs(admitted[i], i, input, o, m)
<1>1. /\ i \in DOMAIN admitted /\ IsProfile(i)
      /\ \A j \in DOMAIN admitted : IsProfile(j) /\ CellOf(j) = CellOf(i) => j <= i
  BY DEF Standing
<1>2. ~IsCompared(admitted[i], i)
  <2> SUFFICES ASSUME NEW granted, NEW c, NEW path, NEW content,
                      ComparedAs(admitted[i], i, granted, c, path, content)
               PROVE  FALSE
    BY DEF IsCompared
  <2>1. admitted[i].capability = "equivalence"
    BY ComparisonFields DEF ComparedAs
  <2> QED
    BY <1>1, <2>1 DEF IsProfile
<1>3. PICK input, o, m : m \in Measurements /\ MeasuredAs(admitted[i], i, input, o, m)
  BY <1>1, <1>2 DEF AdmissionInv, AdmittedInv, IsMeasured
<1>4. m.succeeded
  <2>1. admitted[i] = ProfileOf(i, input, o, m)
    BY <1>3 DEF MeasuredAs
  <2>2. ProfileOf(i, input, o, m).succeeded = m.succeeded
    BY ProfileFields
  <2> QED
    BY <1>1, <2>1, <2>2 DEF IsProfile
<1> QED
  BY <1>1, <1>3, <1>4

\* A comparison, as it was admitted.
LEMMA EquivalenceIsCompared ==
  ASSUME AdmissionInv, NEW j \in DOMAIN admitted, admitted[j].capability = "equivalence"
  PROVE  IsCompared(admitted[j], j)
<1>1. ~IsMeasured(admitted[j], j)
  <2> SUFFICES ASSUME NEW input, NEW o, NEW m, admitted[j] = ProfileOf(j, input, o, m)
               PROVE  FALSE
    BY DEF IsMeasured, MeasuredAs
  <2>1. ProfileOf(j, input, o, m).capability = "profile"
    BY ProfileFields
  <2> QED
    BY <2>1
<1> QED
  BY <1>1 DEF AdmissionInv, AdmittedInv

\* While the evidence is as it was, every reference holds the frozen tokens.
LEMMA ReferencesAreFrozen ==
  ASSUME AdmissionInv
  PROVE  /\ \A a \in References : Original(a.path)
         /\ Verified => \A path : Original(path) => Content(path) = FrozenReference
<1>1. ASSUME NEW a \in References
      PROVE  Original(a.path)
  <2>1. PICK i \in DOMAIN admitted : a \in admitted[i].artifacts
    BY DEF References, Evidence
  <2>2. a.type = "reference_outputs"
    BY DEF References
  <2>3. ~IsMeasured(admitted[i], i)
    <3> SUFFICES ASSUME NEW input, NEW o, NEW m, admitted[i] = ProfileOf(i, input, o, m)
                 PROVE  FALSE
      BY DEF IsMeasured, MeasuredAs
    <3>1. \A b \in ProfileOf(i, input, o, m).artifacts : b.type # "reference_outputs"
      BY ProfilesHoldNoReferences
    <3> QED
      BY <2>1, <2>2, <3>1
  <2>4. PICK granted, c, path, content : ComparedAs(admitted[i], i, granted, c, path, content)
    BY <2>3 DEF AdmissionInv, AdmittedInv, IsCompared
  <2>5. a.path = path
    BY <2>1, <2>2, <2>4, ComparisonReference DEF ComparedAs
  <2> QED
    BY <2>4, <2>5 DEF ComparedAs
<1>2. ASSUME Verified, NEW path, Original(path)
      PROVE  Content(path) = FrozenReference
  BY <1>2 DEF Original, Verified, Unchanged
<1> QED
  BY <1>1, <1>2

-----------------------------------------------------------------------------
(* A verdict of MET on unchanged evidence is warranted. *)

\* What VerdictIsWarranted says of one objective and one profile.
Warrants(i, leg, config) ==
  /\ IsProfile(i) /\ admitted[i].kind = "full_model" /\ Effective(admitted[i]) = config
  /\ \E m \in admitted[i].metrics :
       m.sla /\ m.leg = leg /\ m.met /\ m.class = "PRIMARY_MEASURED"
  /\ \A a \in Primary(admitted[i].artifacts, "benchmark") :
       Content(a.path) = [kind |-> "bench", proxy |-> FALSE] \/ leg = "latency"
  /\ \A a \in DOMAIN config :
       \/ config[a] = "auto"
       \/ Asks(admitted[i], a) /\ Canonical(admitted[i].requested)[a] = config[a]
       \/ LET report == Content(<<i, "runtime">>)
          IN /\ report # Gone /\ a \in Axes(report.config)
             /\ report.attempt = i /\ Canonical(report.config)[a] = config[a]
  /\ \A j \in i + 1..Len(admitted) : IsProfile(j) => CellOf(j) # CellOf(i)

LEMMA ChosenWarrants ==
  ASSUME AdmissionInv, Finding = "MET", Verified, NEW leg \in Expected(campaign.ask)
  PROVE  Warrants(Chosen(leg), leg, Effective(admitted[Chosen(leg)]))
<1> DEFINE i == Chosen(leg)
           x == Metric(leg)
<1>1. /\ i \in Standing /\ x \in Measures(i, leg) /\ x.met
      /\ leg \in {"latency", "throughput"}
  BY VerdictChooses DEF Expected
<1>2. /\ i \in DOMAIN admitted /\ IsProfile(i)
      /\ \A j \in DOMAIN admitted : IsProfile(j) /\ CellOf(j) = CellOf(i) => j <= i
  BY <1>1, StandingIsMeasured
<1>3. PICK input, o, m : /\ m \in Measurements /\ m.succeeded
                         /\ MeasuredAs(admitted[i], i, input, o, m)
  BY <1>1, StandingIsMeasured
<1>4. x \in admitted[i].metrics /\ x.sla /\ x.leg = leg
  BY <1>1 DEF Measures
<1> HIDE DEF i, x
<1> DEFINE s == admitted[i]
<1>5. s = ProfileOf(i, input, o, m)
  BY <1>3 DEF MeasuredAs
<1>6. /\ s.requested = input.config /\ s.observed = o.observed /\ s.metrics = m.metrics
      /\ \A a \in s.artifacts :
           /\ a.type = "benchmark" =>
                a.path = <<i, "bench">> /\ a.digest = [kind |-> "bench", proxy |-> m.proxy]
           /\ a.type = "runtime_config" => a.path = <<i, "runtime">> /\ a.digest.kind = "runtime"
  BY <1>5, ProfileFields, ProfileArtifacts
<1>7. ValidMetric(s, x) /\ ValidEffective(s, i)
  BY <1>3, <1>4, <1>6 DEF MeasuredAs
<1>8. /\ x.class = "PRIMARY_MEASURED" /\ s.kind = "full_model"
      /\ leg = "throughput" => \E a \in s.artifacts : a.type = "benchmark" /\ ~a.digest.proxy
  BY <1>4, <1>7 DEF ValidMetric
<1>9. \A a \in s.artifacts : Content(a.path) = a.digest
  BY <1>2, VerifiedContent
<1>10. ASSUME NEW a \in Primary(s.artifacts, "benchmark"), leg # "latency"
       PROVE  Content(a.path) = [kind |-> "bench", proxy |-> FALSE]
  <2>1. PICK b \in s.artifacts : b.type = "benchmark" /\ ~b.digest.proxy
    BY <1>1, <1>8, <1>10
  <2>2. b.digest.proxy = m.proxy
    BY <1>6, <2>1
  <2>3. m.proxy = FALSE
    BY <1>3, <2>1, <2>2, ProxyAssumption
  <2>4. a \in s.artifacts /\ a.type = "benchmark"
    BY DEF Primary
  <2> QED
    BY <1>6, <1>9, <2>3, <2>4
<1>11. ASSUME NEW a \in DOMAIN Effective(s)
       PROVE  \/ Effective(s)[a] = "auto"
              \/ Asks(s, a) /\ Canonical(s.requested)[a] = Effective(s)[a]
              \/ LET report == Content(<<i, "runtime">>)
                 IN /\ report # Gone /\ a \in Axes(report.config)
                    /\ report.attempt = i /\ Canonical(report.config)[a] = Effective(s)[a]
  <2>1. CASE Effective(s)[a] = "auto"
    BY <2>1
  <2>2. CASE /\ a \in DOMAIN Canonical(s.requested)
             /\ Canonical(s.requested)[a] # "auto" /\ Canonical(s.requested)[a] = Effective(s)[a]
    BY <2>2 DEF Asks, Axes
  <2>3. ASSUME NEW r \in s.artifacts, r.type = "runtime_config", r.digest.attempt = i,
               a \in DOMAIN Canonical(r.digest.config),
               Canonical(r.digest.config)[a] = Effective(s)[a]
        PROVE  LET report == Content(<<i, "runtime">>)
               IN /\ report # Gone /\ a \in Axes(report.config)
                  /\ report.attempt = i /\ Canonical(report.config)[a] = Effective(s)[a]
    <3>1. r.path = <<i, "runtime">> /\ r.digest.kind = "runtime"
      BY <1>6, <2>3
    <3>2. Content(<<i, "runtime">>) = r.digest
      BY <1>9, <3>1
    <3>3. r.digest # Gone
      BY <3>1 DEF Gone
    <3> QED
      BY <2>3, <3>2, <3>3 DEF Axes
  <2> QED
    BY <1>7, <2>1, <2>2, <2>3, AxesAreWitnessed
<1>12. ASSUME NEW j \in i + 1..Len(admitted), IsProfile(j)
       PROVE  CellOf(j) # CellOf(i)
  <2>1. PICK S : admitted \in Seq(S)
    BY DEF AdmissionInv
  <2>2. Len(admitted) \in Nat /\ DOMAIN admitted = 1..Len(admitted)
    BY <2>1
  <2>3. j \in DOMAIN admitted /\ ~(j <= i)
    BY <1>2, <2>2
  <2> QED
    BY <1>2, <1>12, <2>3
<1>13. Warrants(i, leg, Effective(s))
  BY <1>1, <1>2, <1>4, <1>8, <1>10, <1>11, <1>12 DEF Warrants
<1> QED
  BY <1>13 DEF i

\* The axes that the baseline froze.
LEMMA BaselineIsKept ==
  ASSUME AdmissionInv, NEW i \in Standing, campaign.baseline # Absent,
         NEW a \in Axes(campaign.baseline) \ ({"config_id"} \cup Transport \cup Permitted(campaign))
  PROVE  \/ Canonical(campaign.baseline)[a] = "auto"
         \/ Effective(admitted[i])[a] = Canonical(campaign.baseline)[a]
<1> SUFFICES ASSUME Canonical(campaign.baseline)[a] # "auto"
             PROVE  Effective(admitted[i])[a] = Canonical(campaign.baseline)[a]
  OBVIOUS
<1> DEFINE s == admitted[i]
<1>1. PICK input, o, m : /\ m \in Measurements /\ m.succeeded /\ MeasuredAs(s, i, input, o, m)
  BY StandingIsMeasured
<1>2. s = ProfileOf(i, input, o, m)
  BY <1>1 DEF MeasuredAs
<1>3. s.requested = input.config /\ s.observed = o.observed
  <2>1. /\ ProfileOf(i, input, o, m).requested = input.config
        /\ ProfileOf(i, input, o, m).observed = o.observed
    BY ProfileFields
  <2> QED
    BY <1>2, <2>1
<1>4. /\ PermittedConfig(Canonical(s.requested)) /\ ValidEffective(s, i)
      /\ Observes(Canonical(s.requested), Canonical(s.observed))
  BY <1>1, <1>3 DEF MeasuredAs
<1> HIDE DEF s
<1>5. /\ a \in DOMAIN Canonical(s.requested)
      /\ Canonical(s.requested)[a] = Canonical(campaign.baseline)[a]
  BY <1>4 DEF PermittedConfig, Axes
<1>6. Effective(s)[a] = Canonical(s.requested)[a]
  BY <1>4, <1>5, RequestsAreKept
<1> QED
  BY <1>5, <1>6 DEF s

LEMMA MetIsWarranted ==
  ASSUME AdmissionInv, Finding = "MET", Verified
  PROVE  \E config \in {Effective(admitted[i]) : i \in DOMAIN admitted} :
           /\ \A leg \in Expected(campaign.ask) : \E i \in DOMAIN admitted : Warrants(i, leg, config)
           /\ campaign.baseline # Absent =>
                \A a \in Axes(campaign.baseline) \ ({"config_id"} \cup Transport \cup Permitted(campaign)) :
                  \/ Canonical(campaign.baseline)[a] = "auto"
                  \/ config[a] = Canonical(campaign.baseline)[a]
<1>1. PICK one \in Expected(campaign.ask) : TRUE
  BY VerdictChooses DEF Expected
<1>2. \A leg \in Expected(campaign.ask) :
        /\ Chosen(leg) \in Standing
        /\ Effective(admitted[Chosen(leg)]) = Effective(admitted[Chosen(one)])
  BY <1>1, VerdictChooses
<1>3. \A leg \in Expected(campaign.ask) : Chosen(leg) \in DOMAIN admitted
  BY <1>2 DEF Standing
<1> DEFINE config == Effective(admitted[Chosen(one)])
<1>4. \A leg \in Expected(campaign.ask) : Warrants(Chosen(leg), leg, config)
  <2> TAKE leg \in Expected(campaign.ask)
  <2>1. Warrants(Chosen(leg), leg, Effective(admitted[Chosen(leg)]))
    BY ChosenWarrants
  <2> QED
    BY <1>2, <2>1
<1>5. config \in {Effective(admitted[i]) : i \in DOMAIN admitted}
  BY <1>1, <1>3
<1>6. campaign.baseline # Absent =>
        \A a \in Axes(campaign.baseline) \ ({"config_id"} \cup Transport \cup Permitted(campaign)) :
          \/ Canonical(campaign.baseline)[a] = "auto"
          \/ config[a] = Canonical(campaign.baseline)[a]
  BY <1>1, <1>2, BaselineIsKept
<1> HIDE DEF config
<1> QED
  BY <1>3, <1>4, <1>5, <1>6

\* What ComparisonsCertify says of one objective and one comparison.
Certifies(j, leg) ==
  LET i == admitted[j].source
  IN /\ admitted[j].capability = "equivalence"
     /\ IsProfile(i) /\ \E m \in admitted[i].metrics : m.sla /\ m.leg = leg /\ m.met
     /\ admitted[j].workload = admitted[i].workload
     /\ \A a \in DOMAIN Effective(admitted[i]) :
          Asks(admitted[i], a) => Canonical(admitted[j].observed)[a] = Effective(admitted[i])[a]
     /\ admitted[i].effective # Absent => Effective(admitted[j]) = Effective(admitted[i])
     /\ campaign.contract =>
          /\ admitted[i].workload = campaign.lengths
          /\ \A a \in References :
               /\ Content(a.path) # Gone
               /\ Content(a.path).tokens = "gold"
          /\ Content(<<j, "report">>).tokens = "gold"

LEMMA MetIsCompared ==
  ASSUME AdmissionInv, Finding = "MET", Verified, NEW leg \in Expected(campaign.ask)
  PROVE  \E j \in DOMAIN admitted : Certifies(j, leg)
<1>1. PICK i : i = Chosen(leg)
  OBVIOUS
<1>2. /\ i \in Standing /\ Metric(leg) \in Measures(i, leg) /\ Metric(leg).met
      /\ Compared(i)
  BY <1>1, VerdictChooses
<1>3. \E m \in admitted[i].metrics : m.sla /\ m.leg = leg /\ m.met
  BY <1>2 DEF Measures
<1>4. PICK j \in DOMAIN admitted : admitted[j].capability = "equivalence" /\ admitted[j].source = i
  BY <1>2 DEF Compared
<1>5. PICK granted, c, path, content : ComparedAs(admitted[j], j, granted, c, path, content)
  BY <1>4, EquivalenceIsCompared DEF IsCompared
<1>6. admitted[j] = ComparisonOf(j, granted, c, path, content)
  BY <1>5 DEF ComparedAs
<1>7. /\ granted.source = i /\ admitted[j].workload = c.workload
      /\ admitted[j].observed = c.observed
  BY <1>4, <1>6, ComparisonFields
<1>8. HeldTo(admitted[j], admitted[i], c, content) /\ Original(path)
  BY <1>5, <1>7 DEF ComparedAs
<1>9. /\ i \in DOMAIN admitted /\ IsProfile(i)
      /\ \E input, o, m : m.succeeded /\ MeasuredAs(admitted[i], i, input, o, m)
  BY <1>2, StandingIsMeasured
<1>10. /\ ValidEffective(admitted[i], i)
       /\ Observes(Canonical(admitted[i].requested), Canonical(admitted[i].observed))
  <2>1. PICK input, o, m : m.succeeded /\ MeasuredAs(admitted[i], i, input, o, m)
    BY <1>9
  <2>2. admitted[i] = ProfileOf(i, input, o, m)
    BY <2>1 DEF MeasuredAs
  <2>3. admitted[i].requested = input.config /\ admitted[i].observed = o.observed
    BY <2>2, ProfileFields
  <2> QED
    BY <2>1, <2>3 DEF MeasuredAs
<1>11. ASSUME NEW a \in DOMAIN Effective(admitted[i]), Asks(admitted[i], a)
       PROVE  Canonical(admitted[j].observed)[a] = Effective(admitted[i])[a]
  <2>1. a \in DOMAIN Canonical(admitted[i].requested) /\ Canonical(admitted[i].requested)[a] # "auto"
    BY <1>11 DEF Asks, Axes
  <2>2. Effective(admitted[i])[a] = Canonical(admitted[i].requested)[a]
    BY <1>10, <2>1, RequestsAreKept
  <2>3. Observes(Canonical(admitted[i].requested), Canonical(admitted[j].observed))
    BY <1>7, <1>8 DEF HeldTo
  <2> QED
    BY <2>1, <2>2, <2>3 DEF Observes
<1>12. \A a \in References : Content(a.path) = FrozenReference
  BY ReferencesAreFrozen
<1>13. FrozenReference # Gone /\ FrozenReference.tokens = "gold"
  BY DEF FrozenReference, Gone
<1>14. ASSUME campaign.contract
       PROVE  Content(<<j, "report">>).tokens = "gold"
  <2>1. PICK a \in admitted[j].artifacts : a.path = path /\ a.digest = content
    BY <1>6, ComparisonReference
  <2>2. PICK r \in admitted[j].artifacts : r.path = <<j, "report">> /\ r.digest.tokens = c.tokens
    BY <1>6, ComparisonReport
  <2>3. content = FrozenReference
    BY <1>4, <1>8, <2>1, ReferencesAreFrozen, VerifiedContent
  <2>4. c.tokens = "gold"
    BY <1>8, <1>13, <1>14, <2>3 DEF HeldTo
  <2>5. Content(<<j, "report">>) = r.digest
    BY <1>4, <2>2, VerifiedContent
  <2> QED
    BY <2>2, <2>4, <2>5
<1>15. /\ admitted[j].workload = admitted[i].workload
       /\ admitted[i].effective # Absent => Effective(admitted[j]) = Effective(admitted[i])
       /\ campaign.contract => admitted[i].workload = campaign.lengths
  BY <1>7, <1>8 DEF HeldTo
<1>16. Certifies(j, leg)
  BY <1>3, <1>4, <1>9, <1>11, <1>12, <1>13, <1>14, <1>15 DEF Certifies
<1> QED
  BY <1>16

-----------------------------------------------------------------------------
(* The commands. *)

LEMMA AdmissionStart == AdmissionInit => AdmissionInv
<1> SUFFICES ASSUME AdmissionInit
             PROVE  AdmissionInv
  OBVIOUS
<1>1. admitted = <<>> /\ permit = Absent /\ closed = Absent
  BY DEF AdmissionInit
<1>2. campaign \in Documents /\ ValidDocument(campaign)
  BY DEF AdmissionInit
<1>3. admitted \in Seq({})
  BY <1>1
<1>4. AdmittedInv /\ PermitInv
  BY <1>1 DEF AdmittedInv, PermitInv
<1>5. closed # "MET"
  BY <1>1, AbsentAssumption
<1> QED
  BY <1>2, <1>3, <1>4, <1>5 DEF AdmissionInv, VerdictIsWarranted, ComparisonsCertify

\* A command that leaves the submissions alone.
LEMMA AdmittedStays ==
  ASSUME AdmissionInv, UNCHANGED <<campaign, admitted>>
  PROVE  /\ (campaign \in Documents /\ ValidDocument(campaign))'
         /\ (\E S : admitted \in Seq(S))'
         /\ AdmittedInv'
         /\ \A path : Original(path)' <=> Original(path)
<1>1. /\ (campaign \in Documents /\ ValidDocument(campaign))'
      /\ (\E S : admitted \in Seq(S))'
  BY DEF AdmissionInv
<1>2. \A path : Original(path)' <=> Original(path)
  BY DEF Original, Evidence
<1>3. \A s, i, input, o, m : MeasuredAs(s, i, input, o, m)' <=> MeasuredAs(s, i, input, o, m)
  BY DEF MeasuredAs, PermittedConfig
<1>4. \A s, j, granted, c, path, content :
        ComparedAs(s, j, granted, c, path, content) => ComparedAs(s, j, granted, c, path, content)'
  BY <1>2 DEF ComparedAs, HeldTo
<1>5. AdmittedInv
  BY DEF AdmissionInv
<1>6. AdmittedInv'
  BY <1>3, <1>4, <1>5 DEF AdmittedInv, IsMeasured, IsCompared
<1> QED
  BY <1>1, <1>2, <1>6

\* What a submission must be to be admitted.
IsAdmissible(s, n) ==
  \/ IsMeasured(s, n)
  \/ \E granted, c, path, content :
       /\ s = ComparisonOf(n, granted, c, path, content)
       /\ granted.source \in 1..(n - 1)
       /\ HeldTo(s, admitted[granted.source], c, content)
       /\ Original(path) \/ content = FrozenReference

LEMMA AdmitKeepsInv ==
  ASSUME AdmissionInv, closed = Absent, NEW s, Admit(s), IsAdmissible(s, Len(admitted) + 1)
  PROVE  AdmissionInv'
<1>1. PICK S : admitted \in Seq(S)
  BY DEF AdmissionInv
<1> DEFINE n == Len(admitted) + 1
<1>2. /\ admitted' = Append(admitted, s) /\ permit' = Absent
      /\ campaign' = campaign /\ closed' = Absent
  BY DEF Admit
<1>3. Len(admitted) \in Nat /\ DOMAIN admitted = 1..Len(admitted) /\ admitted \in Seq(S \cup {s})
  BY <1>1
<1>4. /\ admitted' \in Seq(S \cup {s}) /\ DOMAIN admitted' = 1..n
      /\ admitted'[n] = s /\ \A i \in 1..Len(admitted) : admitted'[i] = admitted[i]
  BY <1>2, <1>3
<1>5. ASSUME NEW path, Original(path)
      PROVE  Original(path)'
  <2>1. PICK b \in Evidence : b.path = path /\ b.type = "reference_outputs" /\ b.digest = FrozenReference
    BY <1>5 DEF Original
  <2>2. PICK i \in DOMAIN admitted : b \in admitted[i].artifacts
    BY DEF Evidence
  <2>3. i \in DOMAIN admitted' /\ b \in admitted'[i].artifacts
    BY <1>3, <1>4, <2>2
  <2>4. b \in Evidence'
    BY <2>3 DEF Evidence
  <2> QED
    BY <2>1, <2>4 DEF Original
<1>6. ASSUME NEW i \in DOMAIN admitted'
      PROVE  (IsMeasured(admitted[i], i) \/ IsCompared(admitted[i], i))'
  <2>1. CASE i \in 1..Len(admitted)
    <3>1. admitted'[i] = admitted[i] /\ (IsMeasured(admitted[i], i) \/ IsCompared(admitted[i], i))
      BY <1>3, <1>4, <2>1 DEF AdmissionInv, AdmittedInv
    <3>2. ASSUME NEW input, NEW o, NEW m, m \in Measurements, MeasuredAs(admitted[i], i, input, o, m)
          PROVE  MeasuredAs(admitted[i], i, input, o, m)'
      BY <1>2, <3>1, <3>2 DEF MeasuredAs, PermittedConfig
    <3>3. ASSUME NEW granted, NEW c, NEW path, NEW content,
                 ComparedAs(admitted[i], i, granted, c, path, content)
          PROVE  ComparedAs(admitted[i], i, granted, c, path, content)'
      <4>1. granted.source \in 1..(i - 1) /\ Original(path)
        BY <3>3 DEF ComparedAs
      <4>2. granted.source \in 1..Len(admitted)
        BY <1>3, <2>1, <4>1
      <4>3. admitted'[granted.source] = admitted[granted.source] /\ Original(path)'
        BY <1>4, <1>5, <4>1, <4>2
      <4> QED
        BY <1>2, <3>1, <3>3, <4>3 DEF ComparedAs, HeldTo
    <3> QED
      BY <3>1, <3>2, <3>3 DEF IsMeasured, IsCompared
  <2>2. CASE i = n
    <3>1. admitted'[i] = s
      BY <1>4, <2>2
    <3>2. CASE IsMeasured(s, n)
      <4>1. PICK input, o, m : m \in Measurements /\ MeasuredAs(s, n, input, o, m)
        BY <3>2 DEF IsMeasured
      <4>2. MeasuredAs(admitted[i], i, input, o, m)'
        BY <1>2, <2>2, <3>1, <4>1 DEF MeasuredAs, PermittedConfig
      <4> QED
        BY <4>1, <4>2 DEF IsMeasured
    <3>3. ASSUME NEW granted, NEW c, NEW path, NEW content,
                 s = ComparisonOf(n, granted, c, path, content),
                 granted.source \in 1..(n - 1),
                 HeldTo(s, admitted[granted.source], c, content),
                 Original(path) \/ content = FrozenReference
          PROVE  IsCompared(admitted[i], i)'
      <4>1. granted.source \in 1..Len(admitted)
        BY <1>3, <3>3
      <4>2. admitted'[granted.source] = admitted[granted.source]
        BY <1>4, <4>1
      <4>3. CASE Original(path)
        <5>1. ComparedAs(admitted[i], i, granted, c, path, content)'
          BY <1>2, <1>5, <2>2, <3>1, <3>3, <4>2, <4>3 DEF ComparedAs, HeldTo
        <5> QED
          BY <5>1 DEF IsCompared
      <4>4. CASE content = FrozenReference
        <5>1. PICK a \in s.artifacts : /\ a.path = path /\ a.type = "reference_outputs"
                                       /\ a.digest = content
          BY <3>3, ComparisonReference
        <5>2. a \in Evidence'
          BY <1>4, <2>2, <3>1, <5>1 DEF Evidence
        <5>3. Original(path)'
          BY <4>4, <5>1, <5>2 DEF Original
        <5>4. ComparedAs(admitted[i], i, granted, c, path, content)'
          BY <1>2, <2>2, <3>1, <3>3, <4>2, <5>3 DEF ComparedAs, HeldTo
        <5> QED
          BY <5>4 DEF IsCompared
      <4> QED
        BY <3>3, <4>3, <4>4
    <3> QED
      BY <3>2, <3>3 DEF IsAdmissible
  <2> QED
    BY <1>3, <1>4, <2>1, <2>2
<1>7. AdmittedInv'
  BY <1>6 DEF AdmittedInv
<1>8. closed' # "MET"
  BY <1>2, AbsentAssumption
<1>9. campaign' \in Documents /\ ValidDocument(campaign')
  BY <1>2 DEF AdmissionInv
<1>10. PermitInv'
  BY <1>2 DEF PermitInv
<1>11. VerdictIsWarranted' /\ ComparisonsCertify'
  BY <1>8 DEF VerdictIsWarranted, ComparisonsCertify
<1> QED
  BY <1>4, <1>7, <1>9, <1>10, <1>11 DEF AdmissionInv

\* The verdict is about the campaign, its submissions and their files.
Warranted ==
  \E config \in {Effective(admitted[i]) : i \in DOMAIN admitted} :
    /\ \A leg \in Expected(campaign.ask) : \E i \in DOMAIN admitted : Warrants(i, leg, config)
    /\ campaign.baseline # Absent =>
         \A a \in Axes(campaign.baseline) \ ({"config_id"} \cup Transport \cup Permitted(campaign)) :
           \/ Canonical(campaign.baseline)[a] = "auto"
           \/ config[a] = Canonical(campaign.baseline)[a]

EachLegCertified == \A leg \in Expected(campaign.ask) : \E j \in DOMAIN admitted : Certifies(j, leg)

LEMMA VerdictForms ==
  /\ VerdictIsWarranted <=> (closed = "MET" => Warranted)
  /\ ComparisonsCertify <=> (closed = "MET" => EachLegCertified)
<1>1. VerdictIsWarranted <=> (closed = "MET" => Warranted)
  BY Zenon DEF VerdictIsWarranted, Warranted, Warrants
<1>2. ComparisonsCertify <=> (closed = "MET" => EachLegCertified)
  BY Zenon DEF ComparisonsCertify, EachLegCertified, Certifies
<1> QED
  BY <1>1, <1>2

LEMMA VerdictFormsNext ==
  /\ VerdictIsWarranted' <=> (closed' = "MET" => Warranted')
  /\ ComparisonsCertify' <=> (closed' = "MET" => EachLegCertified')
<1>1. VerdictIsWarranted' <=> (closed' = "MET" => Warranted')
  BY Zenon DEF VerdictIsWarranted, Warranted, Warrants
<1>2. ComparisonsCertify' <=> (closed' = "MET" => EachLegCertified')
  BY Zenon DEF ComparisonsCertify, EachLegCertified, Certifies
<1> QED
  BY <1>1, <1>2

LEMMA VerdictStays ==
  ASSUME UNCHANGED <<campaign, disk, admitted>>
  PROVE  Warranted' = Warranted /\ EachLegCertified' = EachLegCertified
<1>1. campaign' = campaign /\ disk' = disk /\ admitted' = admitted
  OBVIOUS
<1>2. \A p : Content(p)' = Content(p)
  BY <1>1 DEF Content
<1>3. \A i : IsProfile(i)' = IsProfile(i) /\ CellOf(i)' = CellOf(i)
  BY <1>1 DEF IsProfile, CellOf
<1>4. References' = References
  BY <1>1 DEF References, Evidence
<1>5. ASSUME NEW i, NEW leg, NEW config
      PROVE  Warrants(i, leg, config)' = Warrants(i, leg, config)
  <2>1. /\ (\A a \in Primary(admitted[i].artifacts, "benchmark") :
             Content(a.path) = [kind |-> "bench", proxy |-> FALSE] \/ leg = "latency")'
        <=> \A a \in Primary(admitted[i].artifacts, "benchmark") :
             Content(a.path) = [kind |-> "bench", proxy |-> FALSE] \/ leg = "latency"
    BY <1>1, <1>2, Zenon
  <2>2. (\A j \in i + 1..Len(admitted) : IsProfile(j) => CellOf(j) # CellOf(i))'
        <=> \A j \in i + 1..Len(admitted) : IsProfile(j) => CellOf(j) # CellOf(i)
    BY <1>1, <1>3
  <2>3. ASSUME NEW a
        PROVE  (LET report == Content(<<i, "runtime">>)
                IN /\ report # Gone /\ a \in Axes(report.config)
                   /\ report.attempt = i /\ Canonical(report.config)[a] = config[a])'
               <=> LET report == Content(<<i, "runtime">>)
                   IN /\ report # Gone /\ a \in Axes(report.config)
                      /\ report.attempt = i /\ Canonical(report.config)[a] = config[a]
    BY <1>2, Zenon
  <2> QED
    BY <1>1, <1>3, <2>1, <2>2, <2>3, Zenon DEF Warrants
<1>6. \A j, leg : Certifies(j, leg)' = Certifies(j, leg)
  BY <1>1, <1>2, <1>3, <1>4, Zenon DEF Certifies
<1>7. Warranted' = Warranted
  BY <1>1, <1>5, Zenon DEF Warranted
<1>8. EachLegCertified' = EachLegCertified
  BY <1>1, <1>6, Zenon DEF EachLegCertified
<1> QED
  BY <1>7, <1>8

LEMMA GrantProfileKeepsInv ==
  ASSUME AdmissionInv, GrantProfile
  PROVE  AdmissionInv'
<1>1. closed' # "MET" /\ UNCHANGED <<campaign, admitted>>
  BY AbsentAssumption DEF GrantProfile, Free
<1>2. PICK input \in ProfileInputs :
        /\ PermittedConfig(Canonical(input.config))
        /\ permit' = [capability |-> "profile", input |-> input, devices |-> "d0"]
  BY DEF GrantProfile
<1>3. permit'.capability = "profile" /\ permit'.input = input
  BY <1>2
<1>4. PermittedConfig(Canonical(input.config))'
  BY <1>1, <1>2 DEF PermittedConfig
<1>5. PermitInv'
  BY <1>3, <1>4 DEF PermitInv
<1>6. VerdictIsWarranted' /\ ComparisonsCertify'
  BY <1>1 DEF VerdictIsWarranted, ComparisonsCertify
<1> QED
  BY <1>1, <1>5, <1>6, AdmittedStays DEF AdmissionInv

LEMMA GrantComparisonKeepsInv ==
  ASSUME AdmissionInv, GrantComparison
  PROVE  AdmissionInv'
<1>1. closed' # "MET" /\ UNCHANGED <<campaign, admitted>>
  BY AbsentAssumption DEF GrantComparison, Free
<1>2. PICK i \in Standing :
        /\ campaign.contract => admitted[i].workload = campaign.lengths
        /\ permit' = [capability |-> "equivalence", source |-> i, identity |-> Identity(i), devices |-> "d0",
                      reusable |-> IF campaign.contract THEN {a.path : a \in References} ELSE {}]
  BY DEF GrantComparison
<1>3. /\ permit'.capability = "equivalence" /\ permit'.source = i
      /\ permit'.reusable = IF campaign.contract THEN {a.path : a \in References} ELSE {}
  BY <1>2
<1>4. i \in DOMAIN admitted /\ IsProfile(i)
  BY StandingIsMeasured
<1>5. \A path \in permit'.reusable : Original(path)
  BY <1>3, ReferencesAreFrozen
<1>6. \A path \in permit'.reusable : Original(path)'
  BY <1>1, <1>5, AdmittedStays
<1>7. PermitInv'
  BY <1>1, <1>2, <1>3, <1>4, <1>6 DEF PermitInv, IsProfile
<1>8. VerdictIsWarranted' /\ ComparisonsCertify'
  BY <1>1 DEF VerdictIsWarranted, ComparisonsCertify
<1> QED
  BY <1>1, <1>7, <1>8, AdmittedStays DEF AdmissionInv

LEMMA SubmitMeasuredKeepsInv ==
  ASSUME AdmissionInv, SubmitMeasured
  PROVE  AdmissionInv'
<1> DEFINE n == Len(admitted) + 1
<1>1. closed = Absent /\ permit # Absent /\ permit.capability = "profile"
  BY DEF SubmitMeasured
<1>2. PICK o \in Observations, m \in Measurements :
        ValidProfile(ProfileOf(n, permit.input, o, m), n) /\ Admit(ProfileOf(n, permit.input, o, m))
  BY DEF SubmitMeasured
<1>3. PICK s : s = ProfileOf(n, permit.input, o, m)
  OBVIOUS
<1>4. /\ s.succeeded = m.succeeded /\ s.requested = permit.input.config
      /\ s.observed = o.observed /\ s.metrics = m.metrics
  BY <1>3, ProfileFields
<1>5. ValidProfile(s, n) /\ Admit(s)
  BY <1>2, <1>3
<1>6. PermittedConfig(Canonical(permit.input.config))
  BY <1>1 DEF AdmissionInv, PermitInv
<1>7. /\ \A x \in m.metrics : ValidMetric(s, x)
      /\ m.succeeded => /\ Observes(Canonical(permit.input.config), Canonical(o.observed))
                        /\ ValidEffective(s, n)
  BY <1>4, <1>5 DEF ValidProfile
<1>8. MeasuredAs(s, n, permit.input, o, m)
  BY <1>3, <1>6, <1>7 DEF MeasuredAs
<1>9. IsAdmissible(s, n)
  BY <1>8 DEF IsAdmissible, IsMeasured
<1> QED
  BY <1>1, <1>5, <1>9, AdmitKeepsInv

\* The report carries the tokens of the one reference it cites.
LEMMA ReportAgrees ==
  ASSUME NEW n, NEW granted, NEW c, NEW path, NEW content,
         HeldToReference(ComparisonOf(n, granted, c, path, content))
  PROVE  c.tokens = content.tokens
<1>1. PICK s : s = ComparisonOf(n, granted, c, path, content)
  OBVIOUS
<1>2. PICK r \in s.artifacts : /\ r.type = "equivalence_report" /\ r.class = "PRIMARY_MEASURED"
                               /\ r.digest.cites = {path} /\ r.digest.tokens = c.tokens
  BY <1>1, ComparisonReport
<1>3. PICK a \in s.artifacts : /\ a.path = path /\ a.type = "reference_outputs"
                               /\ a.class = "PRIMARY_MEASURED" /\ a.digest = content
  BY <1>1, ComparisonReference
<1>4. HeldToReference(s)
  BY <1>1
<1> QED
  BY <1>2, <1>3, <1>4 DEF HeldToReference, Primary

LEMMA SubmitComparedKeepsInv ==
  ASSUME AdmissionInv, SubmitCompared
  PROVE  AdmissionInv'
<1> DEFINE n == Len(admitted) + 1
           Brought(c, path) == IF c.reused THEN Content(path) ELSE FrozenReference
<1>1. closed = Absent /\ permit # Absent /\ permit.capability = "equivalence"
  BY DEF SubmitCompared
<1>2. PICK c \in Comparisons : \E path \in IF c.reused THEN permit.reusable ELSE {<<n, "reference">>} :
        /\ ValidComparison(ComparisonOf(n, permit, c, path, Brought(c, path)))
        /\ Admit(ComparisonOf(n, permit, c, path, Brought(c, path)))
  BY DEF SubmitCompared
<1>3. PICK path \in IF c.reused THEN permit.reusable ELSE {<<n, "reference">>} :
        /\ ValidComparison(ComparisonOf(n, permit, c, path, Brought(c, path)))
        /\ Admit(ComparisonOf(n, permit, c, path, Brought(c, path)))
  BY <1>2
<1>4. PICK content : content = Brought(c, path)
  OBVIOUS
<1>5. PICK s : s = ComparisonOf(n, permit, c, path, content)
  OBVIOUS
<1>6. ValidComparison(s) /\ Admit(s)
  BY <1>3, <1>4, <1>5
<1>7. /\ permit.source \in DOMAIN admitted /\ IsProfile(permit.source)
      /\ campaign.contract => admitted[permit.source].workload = campaign.lengths
      /\ \A p \in permit.reusable : Original(p)
  BY <1>1 DEF AdmissionInv, PermitInv
<1>8. permit.source \in 1..(n - 1)
  <2>1. PICK S : admitted \in Seq(S)
    BY DEF AdmissionInv
  <2> QED
    BY <1>7, <2>1
<1>9. Original(path) \/ content = FrozenReference
  BY <1>3, <1>4, <1>7
<1>10. s.observed = c.observed /\ s.workload = c.workload
  BY <1>5, ComparisonFields
<1>11. HeldTo(s, admitted[permit.source], c, content)
  <2>1. /\ Observes(Canonical(admitted[permit.source].requested), Canonical(c.observed))
        /\ c.workload = admitted[permit.source].workload
        /\ admitted[permit.source].effective # Absent =>
             Effective(admitted[permit.source]) = Effective(s)
    BY <1>6, <1>10 DEF ValidComparison, BoundToSource
  <2>2. ASSUME campaign.contract
        PROVE  c.tokens = content.tokens
    <3>1. HeldToReference(s)
      BY <1>6, <2>2 DEF ValidComparison
    <3> QED
      BY <1>5, <3>1, ReportAgrees
  <2> QED
    BY <1>7, <2>1, <2>2 DEF HeldTo, IsProfile
<1>12. IsAdmissible(s, n)
  BY <1>5, <1>8, <1>9, <1>11 DEF IsAdmissible
<1> QED
  BY <1>1, <1>6, <1>12, AdmitKeepsInv

LEMMA WithdrawKeepsInv ==
  ASSUME AdmissionInv, Withdraw
  PROVE  AdmissionInv'
<1>1. closed' # "MET" /\ permit' = Absent /\ UNCHANGED <<campaign, admitted>>
  BY AbsentAssumption DEF Withdraw
<1>2. PermitInv' /\ VerdictIsWarranted' /\ ComparisonsCertify'
  BY <1>1 DEF PermitInv, VerdictIsWarranted, ComparisonsCertify
<1> QED
  BY <1>1, <1>2, AdmittedStays DEF AdmissionInv

LEMMA RewriteKeepsInv ==
  ASSUME AdmissionInv, Rewrite
  PROVE  AdmissionInv'
<1>1. closed' # "MET" /\ UNCHANGED <<campaign, admitted, permit>>
  BY AbsentAssumption DEF Rewrite
<1>2. PermitInv'
  BY <1>1, AdmittedStays DEF AdmissionInv, PermitInv, PermittedConfig, IsProfile
<1>3. VerdictIsWarranted' /\ ComparisonsCertify'
  BY <1>1 DEF VerdictIsWarranted, ComparisonsCertify
<1> QED
  BY <1>1, <1>2, <1>3, AdmittedStays DEF AdmissionInv

LEMMA FinishKeepsInv ==
  ASSUME AdmissionInv, Finish
  PROVE  AdmissionInv'
<1>1. permit' = Absent /\ UNCHANGED <<campaign, disk, admitted>>
  BY DEF Finish
<1>2. closed' = "MET" => Finding = "MET" /\ Verified
  BY DEF Finish
<1>3. VerdictIsWarranted'
  <2>1. closed' = "MET" => Warranted
    BY <1>2, MetIsWarranted DEF Warranted
  <2> QED
    BY <1>1, <2>1, VerdictStays, VerdictForms, VerdictFormsNext
<1>4. ComparisonsCertify'
  <2>1. closed' = "MET" => EachLegCertified
    BY <1>2, MetIsCompared DEF EachLegCertified
  <2> QED
    BY <1>1, <2>1, VerdictStays, VerdictForms, VerdictFormsNext
<1>5. PermitInv'
  BY <1>1 DEF PermitInv
<1> QED
  BY <1>1, <1>3, <1>4, <1>5, AdmittedStays DEF AdmissionInv

LEMMA AdmissionStep == AdmissionInv /\ [AdmissionNext]_admissionVars => AdmissionInv'
<1> SUFFICES ASSUME AdmissionInv, [AdmissionNext]_admissionVars
             PROVE  AdmissionInv'
  OBVIOUS
<1>1. CASE UNCHANGED admissionVars
  <2>1. UNCHANGED <<campaign, disk, admitted, permit, closed>>
    BY <1>1 DEF admissionVars
  <2>2. PermitInv'
    BY <2>1, AdmittedStays DEF AdmissionInv, PermitInv, PermittedConfig, IsProfile
  <2>3. VerdictIsWarranted' /\ ComparisonsCertify'
    BY <2>1, VerdictStays, VerdictForms, VerdictFormsNext DEF AdmissionInv
  <2> QED
    BY <2>1, <2>2, <2>3, AdmittedStays DEF AdmissionInv
<1> QED
  BY <1>1, GrantProfileKeepsInv, GrantComparisonKeepsInv, SubmitMeasuredKeepsInv,
     SubmitComparedKeepsInv, WithdrawKeepsInv, RewriteKeepsInv, FinishKeepsInv
     DEF AdmissionNext

LEMMA AdmissionInvariant == AdmissionSpec => []AdmissionInv
BY AdmissionStart, AdmissionStep, PTL DEF AdmissionSpec

\* However submissions, withdrawals and rewritten files alternate, a campaign
\* that MET its objectives measured each of them in the full model, in one
\* configuration that was asked for or read from the run's own runtime and
\* that keeps what the baseline froze (finalize, objective_results).
THEOREM VerdictsStayWarranted == AdmissionSpec => []VerdictIsWarranted
<1>1. AdmissionInv => VerdictIsWarranted
  BY DEF AdmissionInv
<1> QED
  BY AdmissionInvariant, <1>1, PTL

\* The same for the comparisons: each objective it met rests on one of the
\* run that measured it, held to references that are the frozen ones and
\* still are on disk when the report is written.
THEOREM ComparisonsStayCertified == AdmissionSpec => []ComparisonsCertify
<1>1. AdmissionInv => ComparisonsCertify
  BY DEF AdmissionInv
<1> QED
  BY AdmissionInvariant, <1>1, PTL

-----------------------------------------------------------------------------
(* The files of a campaign.  For the creation the invariant is that one      *)
(* session at most is past the statement that makes the table, and that the  *)
(* database is as far as that session is.  For the export it says of every   *)
(* file with a name what it will hold when everyone who has it open is done; *)
(* and, while exports do not overlap, what it holds now.                     *)

Past(s) == step[s] \in {"no_update", "no_delete", "first"}

CreationInv ==
  /\ \A s, t \in Session : Past(s) /\ Past(t) => s = t
  /\ \A s \in Session :
       /\ step[s] = "table" => made # "none"
       /\ step[s] = "no_update" => made = "table"
       /\ step[s] = "no_delete" => made = "no_update"
       /\ step[s] = "first" => made = "no_delete" /\ events = <<>>
  /\ events # <<>> => made = "no_delete"
  /\ events = <<>> => created = {}
  /\ \A s \in created : created = {s} /\ events[1] = s
  /\ "creation" \notin deaths /\ events = <<>> =>
       /\ made = "file" => \E s \in Session : step[s] = "table"
       /\ made \in {"table", "no_update", "no_delete"} => \E s \in Session : Past(s)

\* What file f holds, or will when those who write it have written what they
\* have fetched.
WillHold(f, k) ==
  \/ k \in lines[f]
  \/ \E s \in Session : /\ step[s] = "write" /\ stream[s].file = f
                        /\ stream[s].next <= k /\ k <= stream[s].last

\* Whoever has just opened f fetches all there is; else f will hold the events
\* up to n, and n is late enough for all that finished or began before.
Awaited(f) == \E s \in Session : step[s] = "read" /\ stream[s].file = f
Settled(f) ==
  \E n \in Nat :
    /\ promised <= n /\ n <= Len(events)
    /\ \A k \in Nat : WillHold(f, k) <=> (1 <= k /\ k <= n)
    /\ \A s \in Exporting : stream[s].file <= f => stream[s].began <= n

NamesInv ==
  /\ temporary # NoFile => temporary = Len(lines)
  /\ exported # NoFile => exported # temporary
  /\ promised <= Len(events)
  /\ \A f \in 1..Len(lines) : \A k \in lines[f] : 1 <= k /\ k <= Len(events)

StreamInv ==
  \A s \in Exporting :
    /\ stream[s].began <= Len(events) /\ 1 <= stream[s].next
    /\ step[s] = "read" => stream[s].next = 1
    /\ step[s] = "write" => /\ stream[s].began <= stream[s].last /\ stream[s].last <= Len(events)
                            /\ stream[s].next <= stream[s].last + 1

SettledInv ==
  "export" \notin deaths => \A f \in {temporary, exported} : f # NoFile => Awaited(f) \/ Settled(f)

AloneInv ==
  ~overlapped =>
    /\ \A s, t \in Exporting : s = t
    /\ \A s \in Exporting :
         /\ temporary # NoFile /\ stream[s].file = temporary /\ promised <= stream[s].began
         /\ \A k \in Nat : k \in lines[temporary] <=> (1 <= k /\ k < stream[s].next)
    /\ exported # NoFile =>
         \E n \in Nat : /\ promised <= n /\ n <= Len(events)
                        /\ \A k \in Nat : k \in lines[exported] <=> (1 <= k /\ k <= n)

ExportInv == NamesInv /\ StreamInv /\ SettledInv /\ AloneInv

StoreInv == FilesTypeOK /\ CreationInv /\ ExportInv

-----------------------------------------------------------------------------
(* The types. *)

(* A file that is opened anew, emptied or written keeps the others.        *)
LEMMA FilesKept ==
  ASSUME lines \in Seq(SUBSET Nat), NEW held \in SUBSET Nat, NEW f \in 1..Len(lines)
  PROVE  /\ [lines EXCEPT ![f] = held] \in Seq(SUBSET Nat)
         /\ Len([lines EXCEPT ![f] = held]) = Len(lines)
         /\ [lines EXCEPT ![f] = held][f] = held
         /\ \A g \in 1..Len(lines) : g # f => [lines EXCEPT ![f] = held][g] = lines[g]
  BY ExceptSeq

LEMMA TypeNext ==
  ASSUME FilesTypeOK, [FilesNext]_filesVars
  PROVE  FilesTypeOK'
<1> USE DEF FilesTypeOK, Go
<1>1. CASE AppendMore
  BY <1>1, AppendProperties DEF AppendMore, exportVars, Exporting
<1>2. ASSUME NEW s \in Session, CheckNew(s) \/ Connect(s) \/ MakeTable(s) \/ ForbidUpdate(s) \/ ForbidDelete(s)
      PROVE  FilesTypeOK'
  BY <1>2 DEF CheckNew, Connect, MakeTable, ForbidUpdate, ForbidDelete, Statement, exportVars, Exporting
<1>3. ASSUME NEW s \in Session, AppendFirst(s)
      PROVE  FilesTypeOK'
  <2>1. events' = <<s>> \/ events' = events
    BY <1>3 DEF AppendFirst
  <2>2. events' \in Seq(Session \cup {"command"}) /\ created' \in SUBSET Session
    <3>1. ASSUME NEW S, NEW x \in S
          PROVE  <<x>> \in Seq(S)
      OBVIOUS
    <3>2. <<s>> \in Seq(Session \cup {"command"})
      BY <3>1
    <3> QED
      BY <1>3, <2>1, <3>2 DEF AppendFirst
  <2> QED
    BY <1>3, <2>2 DEF AppendFirst, exportVars, Exporting
<1>4. ASSUME NEW s \in Session, OpenTemporary(s)
      PROVE  FilesTypeOK'
  <2>1. /\ lines' \in Seq(SUBSET Nat) /\ Len(lines') <= MaxFiles
        /\ Len(lines) <= Len(lines') /\ temporary' \in 1..Len(lines')
    <3>1. CASE temporary = NoFile
      <4>1. /\ lines' = Append(lines, {}) /\ temporary' = Len(lines')
            /\ Len(lines) < MaxFiles
        BY <1>4, <3>1 DEF OpenTemporary
      <4> QED
        BY <4>1, AppendProperties, FilesAssumption
    <3>2. CASE temporary # NoFile
      <4>1. lines' = [lines EXCEPT ![temporary] = {}] /\ temporary' = temporary
        BY <1>4, <3>2 DEF OpenTemporary
      <4> QED
        BY <4>1, <3>2, FilesKept
    <3> QED
      BY <3>1, <3>2
  <2>2. /\ stream' = [stream EXCEPT ![s] = [file |-> temporary', began |-> Len(events), last |-> 0, next |-> 1]]
        /\ step' = [step EXCEPT ![s] = "read"]
    BY <1>4 DEF OpenTemporary
  <2>3. \A t \in Session : t # s => stream'[t] = stream[t] /\ step'[t] = step[t]
    BY <2>2
  <2>4. stream'[s] \in [file : 1..Len(lines'), began : Nat, last : Nat, next : Nat]
    BY <2>1, <2>2
  <2>5. \A t \in Exporting' : stream'[t] \in [file : 1..Len(lines'), began : Nat, last : Nat, next : Nat]
    BY <2>1, <2>3, <2>4 DEF Exporting
  <2> QED
    BY <1>4, <2>1, <2>2, <2>5 DEF OpenTemporary
<1>5. ASSUME NEW s \in Session, FetchEvents(s)
      PROVE  FilesTypeOK'
  BY <1>5 DEF FetchEvents, Exporting
<1>6. ASSUME NEW s \in Session, WriteLine(s)
      PROVE  FilesTypeOK'
  <2>1. stream[s] \in [file : 1..Len(lines), began : Nat, last : Nat, next : Nat]
    BY <1>6 DEF WriteLine, Exporting
  <2>2. lines' \in Seq(SUBSET Nat) /\ Len(lines') = Len(lines)
    <3>1. lines' = [lines EXCEPT ![stream[s].file] = lines[stream[s].file] \cup {stream[s].next}]
      BY <1>6 DEF WriteLine
    <3>2. stream[s].file \in 1..Len(lines) /\ lines[stream[s].file] \cup {stream[s].next} \in SUBSET Nat
      BY <2>1
    <3> QED
      BY <3>1, <3>2, FilesKept
  <2>3. stream' = [stream EXCEPT ![s] = [stream[s] EXCEPT !.next = stream[s].next + 1]]
    BY <1>6 DEF WriteLine
  <2>4. stream'[s] \in [file : 1..Len(lines'), began : Nat, last : Nat, next : Nat]
    BY <2>1, <2>2, <2>3
  <2>5. \A t \in Exporting' : stream'[t] \in [file : 1..Len(lines'), began : Nat, last : Nat, next : Nat]
    BY <1>6, <2>2, <2>3, <2>4 DEF WriteLine, Exporting
  <2> QED
    BY <1>6, <2>2, <2>3, <2>5 DEF WriteLine
<1>7. ASSUME NEW s \in Session, ReplaceExport(s)
      PROVE  FilesTypeOK'
  BY <1>7 DEF ReplaceExport, Exporting
<1>8. ASSUME NEW s \in Session, Stop(s)
      PROVE  FilesTypeOK'
  BY <1>8 DEF Stop, Exporting
<1>9. CASE UNCHANGED filesVars
  BY <1>9 DEF filesVars, Exporting
<1> QED
  BY <1>1, <1>2, <1>3, <1>4, <1>5, <1>6, <1>7, <1>8, <1>9 DEF FilesNext

-----------------------------------------------------------------------------
(* The creation. *)

LEMMA CreationNext ==
  ASSUME FilesTypeOK, CreationInv, [FilesNext]_filesVars
  PROVE  CreationInv'
<1> USE DEF FilesTypeOK, CreationInv, Past, Go
<1>1. CASE AppendMore
  BY <1>1, AppendProperties DEF AppendMore, exportVars
<1>2. ASSUME NEW s \in Session, CheckNew(s)
      PROVE  CreationInv'
  BY <1>2 DEF CheckNew, exportVars
<1>3. ASSUME NEW s \in Session, Connect(s)
      PROVE  CreationInv'
  BY <1>3 DEF Connect, exportVars
<1>4. ASSUME NEW s \in Session, MakeTable(s)
      PROVE  CreationInv'
  BY <1>4 DEF MakeTable, Statement, exportVars
<1>5. ASSUME NEW s \in Session, ForbidUpdate(s)
      PROVE  CreationInv'
  BY <1>5 DEF ForbidUpdate, Statement, exportVars
<1>6. ASSUME NEW s \in Session, ForbidDelete(s)
      PROVE  CreationInv'
  BY <1>6 DEF ForbidDelete, Statement, exportVars
<1>7. ASSUME NEW s \in Session, AppendFirst(s)
      PROVE  CreationInv'
  BY <1>7 DEF AppendFirst, exportVars
<1>8. ASSUME NEW s \in Session, OpenTemporary(s) \/ FetchEvents(s) \/ WriteLine(s) \/ ReplaceExport(s)
      PROVE  CreationInv'
  BY <1>8 DEF OpenTemporary, FetchEvents, WriteLine, ReplaceExport
<1>9. ASSUME NEW s \in Session, Stop(s)
      PROVE  CreationInv'
  BY <1>9 DEF Stop, Exporting
<1>10. CASE UNCHANGED filesVars
  BY <1>10 DEF filesVars
<1> QED
  BY <1>1, <1>2, <1>3, <1>4, <1>5, <1>6, <1>7, <1>8, <1>9, <1>10 DEF FilesNext

-----------------------------------------------------------------------------
(* The export. *)

(* What leaves the files and those who have one open alone, and no event   *)
(* out, does not disturb an export.                                        *)
LEMMA ExportUndisturbed ==
  ASSUME FilesTypeOK, FilesTypeOK', ExportInv,
         Exporting' = Exporting, Len(events) <= Len(events'),
         \A s \in Exporting : step'[s] = step[s] /\ stream'[s] = stream[s],
         "export" \in deaths' <=> "export" \in deaths,
         UNCHANGED <<temporary, exported, lines, promised, overlapped>>
  PROVE  ExportInv'
<1>1. Len(events) \in Nat /\ Len(events') \in Nat
  BY DEF FilesTypeOK
<1>2. \A s \in Session : s \in Exporting <=> step[s] \in {"read", "write"}
  BY DEF Exporting
<1>3. \A s \in Session : s \in Exporting <=> step'[s] \in {"read", "write"}
  BY DEF Exporting
<1>4. NamesInv'
  BY <1>1 DEF ExportInv, NamesInv, FilesTypeOK
<1>5. StreamInv'
  BY <1>1, <1>2, <1>3 DEF ExportInv, StreamInv, FilesTypeOK
<1>6. SettledInv'
  <2> SUFFICES ASSUME "export" \notin deaths, NEW f \in {temporary, exported}, f # NoFile
               PROVE  Awaited(f)' \/ Settled(f)'
    BY DEF SettledInv
  <2>1. Awaited(f) \/ Settled(f)
    BY DEF ExportInv, SettledInv
  <2>2. Awaited(f) => Awaited(f)'
    BY <1>2 DEF Awaited
  <2>3. ASSUME NEW k \in Nat
        PROVE  WillHold(f, k)' <=> WillHold(f, k)
    BY <1>2, <1>3 DEF WillHold
  <2>4. Settled(f) => Settled(f)'
    BY <1>1, <2>3 DEF Settled, FilesTypeOK
  <2> QED
    BY <2>1, <2>2, <2>4
<1>7. AloneInv'
  BY <1>1 DEF ExportInv, AloneInv, FilesTypeOK
<1> QED
  BY <1>4, <1>5, <1>6, <1>7 DEF ExportInv

(* Whoever opens the file finds it empty, and will write all there is.     *)
LEMMA OpenTemporaryExports ==
  ASSUME FilesTypeOK, FilesTypeOK', ExportInv, NEW s \in Session, OpenTemporary(s)
  PROVE  ExportInv'
<1>1. /\ Len(events) \in Nat /\ events' = events /\ exported' = exported
      /\ promised' = promised /\ deaths' = deaths
      /\ overlapped' = (overlapped \/ Exporting # {})
  BY DEF FilesTypeOK, OpenTemporary
<1>2. /\ s \notin Exporting /\ Exporting' = Exporting \cup {s} /\ step'[s] = "read"
      /\ \A t \in Session \ {s} : step'[t] = step[t] /\ stream'[t] = stream[t]
      /\ stream'[s] = [file |-> temporary', began |-> Len(events), last |-> 0, next |-> 1]
  BY DEF FilesTypeOK, OpenTemporary, Go, Exporting
<1>3. /\ temporary' \in 1..Len(lines') /\ temporary' = Len(lines') /\ lines'[temporary'] = {}
      /\ Len(lines) <= Len(lines')
      /\ \A g \in 1..Len(lines') : g # temporary' => g \in 1..Len(lines) /\ lines'[g] = lines[g]
  <2>1. CASE temporary = NoFile
    <3>1. lines' = Append(lines, {}) /\ temporary' = Len(lines')
      BY <2>1 DEF OpenTemporary
    <3> QED
      BY <3>1, AppendProperties DEF FilesTypeOK
  <2>2. CASE temporary # NoFile
    <3>1. lines' = [lines EXCEPT ![temporary] = {}] /\ temporary' = temporary
      BY <2>2 DEF OpenTemporary
    <3>2. temporary \in 1..Len(lines) /\ temporary = Len(lines)
      BY <2>2 DEF FilesTypeOK, ExportInv, NamesInv
    <3> QED
      BY <3>1, <3>2, FilesKept DEF FilesTypeOK
  <2> QED
    BY <2>1, <2>2
<1>4. exported # NoFile => exported \in 1..Len(lines) /\ exported < temporary'
  <2> SUFFICES ASSUME exported # NoFile
               PROVE  exported \in 1..Len(lines) /\ exported < temporary'
    OBVIOUS
  <2>1. exported \in 1..Len(lines) /\ exported # temporary
    BY DEF FilesTypeOK, ExportInv, NamesInv
  <2>2. CASE temporary = NoFile
    <3>1. lines' = Append(lines, {})
      BY <2>2 DEF OpenTemporary
    <3> QED
      BY <1>3, <2>1, <3>1, AppendProperties DEF FilesTypeOK
  <2>3. CASE temporary # NoFile
    <3>1. temporary' = temporary /\ temporary = Len(lines)
      BY <2>3 DEF OpenTemporary, ExportInv, NamesInv
    <3> QED
      BY <2>1, <3>1 DEF FilesTypeOK
  <2> QED
    BY <2>2, <2>3
<1>5. NamesInv'
  <2>1. ASSUME NEW g \in 1..Len(lines'), NEW k \in lines'[g]
        PROVE  1 <= k /\ k <= Len(events)
    <3>1. g \in 1..Len(lines) /\ k \in lines[g]
      BY <1>3, <2>1
    <3> QED
      BY <3>1 DEF ExportInv, NamesInv
  <2>2. exported # NoFile => exported # temporary'
    BY <1>4 DEF FilesTypeOK
  <2> QED
    BY <1>1, <1>3, <2>1, <2>2 DEF ExportInv, NamesInv
<1>6. StreamInv'
  <2> SUFFICES ASSUME NEW t \in Exporting'
               PROVE  /\ stream'[t].began <= Len(events) /\ 1 <= stream'[t].next
                      /\ step'[t] = "read" => stream'[t].next = 1
                      /\ step'[t] = "write" => /\ stream'[t].began <= stream'[t].last
                                               /\ stream'[t].last <= Len(events)
                                               /\ stream'[t].next <= stream'[t].last + 1
    BY <1>1 DEF StreamInv
  <2>1. CASE t = s
    BY <1>1, <1>2, <2>1
  <2>2. CASE t # s
    BY <1>2, <2>2 DEF ExportInv, StreamInv, Exporting
  <2> QED
    BY <2>1, <2>2
<1>7. SettledInv'
  <2> SUFFICES ASSUME "export" \notin deaths, NEW f \in {temporary', exported}, f # NoFile
               PROVE  Awaited(f)' \/ Settled(f)'
    BY <1>1 DEF SettledInv
  <2>1. CASE f = temporary'
    BY <1>2, <2>1 DEF Awaited
  <2>2. CASE f # temporary'
    <3>1. f = exported /\ f \in 1..Len(lines) /\ f < temporary' /\ lines'[f] = lines[f]
      BY <1>3, <1>4, <2>2
    <3>2. Awaited(f) \/ Settled(f)
      BY <3>1 DEF ExportInv, SettledInv
    <3>3. Awaited(f) => Awaited(f)'
      BY <1>2 DEF Awaited, Exporting
    <3>4. ASSUME NEW k \in Nat
          PROVE  WillHold(f, k)' <=> WillHold(f, k)
      BY <1>2, <3>1 DEF WillHold, Exporting
    <3>5. \A t \in Exporting' : stream'[t].file <= f => t \in Exporting /\ stream'[t] = stream[t]
      BY <1>2, <1>3, <3>1 DEF Exporting
    <3>6. Settled(f) => Settled(f)'
      BY <1>1, <3>4, <3>5 DEF Settled
    <3> QED
      BY <3>2, <3>3, <3>6
  <2> QED
    BY <2>1, <2>2
<1>8. AloneInv'
  <2> SUFFICES ASSUME ~overlapped, Exporting = {}
               PROVE  AloneInv'
    BY <1>1 DEF AloneInv
  <2>1. Exporting' = {s}
    BY <1>2
  <2>2. exported # NoFile => lines'[exported] = lines[exported]
    BY <1>3, <1>4
  <2>3. promised <= Len(events)
    BY DEF ExportInv, NamesInv
  <2>4. temporary' # NoFile
    BY <1>3, FilesAssumption DEF FilesTypeOK
  <2>5. \A k \in Nat : k \in lines'[temporary'] <=> (1 <= k /\ k < stream'[s].next)
    BY <1>2, <1>3
  <2>6. exported # NoFile =>
          \E n \in Nat : /\ promised <= n /\ n <= Len(events)
                         /\ \A k \in Nat : k \in lines[exported] <=> (1 <= k /\ k <= n)
    BY DEF ExportInv, AloneInv
  <2> QED
    BY <1>1, <1>2, <2>1, <2>2, <2>3, <2>4, <2>5, <2>6 DEF AloneInv
<1> QED
  BY <1>5, <1>6, <1>7, <1>8 DEF ExportInv

(* What has been fetched is what the file will hold.                       *)
LEMMA FetchEventsExports ==
  ASSUME FilesTypeOK, FilesTypeOK', ExportInv, NEW s \in Session, FetchEvents(s)
  PROVE  ExportInv'
<1>1. /\ Len(events) \in Nat /\ promised \in Nat
      /\ UNCHANGED <<events, temporary, exported, lines, promised, overlapped, deaths>>
  BY DEF FilesTypeOK, FetchEvents
<1>2. /\ s \in Exporting /\ step[s] = "read" /\ Exporting' = Exporting /\ step'[s] = "write"
      /\ \A t \in Session \ {s} : step'[t] = step[t] /\ stream'[t] = stream[t]
      /\ stream'[s] = [stream[s] EXCEPT !.last = Len(events)]
      /\ stream[s] \in [file : 1..Len(lines), began : Nat, last : Nat, next : Nat]
  BY DEF FilesTypeOK, FetchEvents, Go, Exporting
<1>3. /\ stream'[s].file = stream[s].file /\ stream'[s].began = stream[s].began
      /\ stream'[s].next = 1 /\ stream'[s].last = Len(events)
      /\ stream[s].next = 1 /\ stream[s].began <= Len(events)
  BY <1>2 DEF ExportInv, StreamInv
<1>4. NamesInv'
  BY <1>1 DEF ExportInv, NamesInv
<1>5. StreamInv'
  <2> SUFFICES ASSUME NEW t \in Exporting
               PROVE  /\ stream'[t].began <= Len(events) /\ 1 <= stream'[t].next
                      /\ step'[t] = "read" => stream'[t].next = 1
                      /\ step'[t] = "write" => /\ stream'[t].began <= stream'[t].last
                                               /\ stream'[t].last <= Len(events)
                                               /\ stream'[t].next <= stream'[t].last + 1
    BY <1>1, <1>2 DEF StreamInv
  <2>1. CASE t = s
    BY <1>1, <1>2, <1>3, <2>1
  <2>2. CASE t # s
    BY <1>2, <2>2 DEF ExportInv, StreamInv, Exporting
  <2> QED
    BY <2>1, <2>2
<1>6. SettledInv'
  <2> SUFFICES ASSUME "export" \notin deaths, NEW f \in {temporary, exported}, f # NoFile, ~Awaited(f)'
               PROVE  Settled(f)'
    BY <1>1 DEF SettledInv
  <2>1. f \in 1..Len(lines)
    BY DEF FilesTypeOK
  <2>2. CASE f = stream[s].file
    <3>1. ASSUME NEW k \in Nat
          PROVE  WillHold(f, k)' <=> (1 <= k /\ k <= Len(events))
      <4>1. 1 <= k /\ k <= Len(events) => WillHold(f, k)'
        BY <1>2, <1>3, <2>2 DEF WillHold
      <4>2. k \in lines[f] => 1 <= k /\ k <= Len(events)
        BY <2>1 DEF ExportInv, NamesInv
      <4>3. ASSUME NEW t \in Session, step'[t] = "write", stream'[t].next <= k, k <= stream'[t].last
            PROVE  1 <= k /\ k <= Len(events)
        <5>1. t \in Exporting' /\ stream'[t] \in [file : 1..Len(lines'), began : Nat, last : Nat, next : Nat]
          BY <4>3 DEF FilesTypeOK, Exporting
        <5>2. 1 <= stream'[t].next /\ stream'[t].last <= Len(events)
          BY <1>1, <1>5, <4>3, <5>1 DEF StreamInv
        <5> QED
          BY <1>1, <4>3, <5>1, <5>2
      <4> QED
        BY <1>1, <4>1, <4>2, <4>3 DEF WillHold
    <3>2. \A t \in Exporting' : stream'[t].began <= Len(events)
      BY <1>1, <1>5 DEF StreamInv
    <3>3. promised <= Len(events)
      BY DEF ExportInv, NamesInv
    <3> QED
      BY <1>1, <3>1, <3>2, <3>3 DEF Settled
  <2>3. CASE f # stream[s].file
    <3>1. ~Awaited(f)
      BY <1>2, <2>3 DEF Awaited
    <3>2. Settled(f)
      BY <3>1 DEF ExportInv, SettledInv
    <3>3. ASSUME NEW k \in Nat
          PROVE  WillHold(f, k)' <=> WillHold(f, k)
      BY <1>1, <1>2, <1>3, <2>3 DEF WillHold
    <3>4. \A t \in Exporting : stream'[t].file = stream[t].file /\ stream'[t].began = stream[t].began
      BY <1>2, <1>3 DEF Exporting
    <3> QED
      BY <1>1, <1>2, <3>2, <3>3, <3>4 DEF Settled
  <2> QED
    BY <2>2, <2>3
<1>7. AloneInv'
  <2>1. \A t \in Exporting : /\ stream'[t].file = stream[t].file
                             /\ stream'[t].began = stream[t].began /\ stream'[t].next = stream[t].next
    BY <1>2, <1>3 DEF Exporting
  <2> QED
    BY <1>1, <1>2, <2>1 DEF ExportInv, AloneInv
<1> QED
  BY <1>4, <1>5, <1>6, <1>7 DEF ExportInv

(* A line that was to be written is there.                                 *)
LEMMA WriteLineExports ==
  ASSUME FilesTypeOK, FilesTypeOK', ExportInv, NEW s \in Session, WriteLine(s)
  PROVE  ExportInv'
<1> DEFINE j == stream[s].next
           g == stream[s].file
<1>1. /\ Len(events) \in Nat /\ promised \in Nat
      /\ UNCHANGED <<events, step, temporary, exported, promised, overlapped, deaths>>
  BY DEF FilesTypeOK, WriteLine
<1>2. /\ s \in Exporting /\ step[s] = "write" /\ Exporting' = Exporting
      /\ \A t \in Session \ {s} : stream'[t] = stream[t]
      /\ stream'[s] = [stream[s] EXCEPT !.next = j + 1]
      /\ stream[s] \in [file : 1..Len(lines), began : Nat, last : Nat, next : Nat]
  BY DEF FilesTypeOK, WriteLine, Exporting
<1>3. /\ stream'[s].file = g /\ stream'[s].began = stream[s].began
      /\ stream'[s].next = j + 1 /\ stream'[s].last = stream[s].last
      /\ g \in 1..Len(lines) /\ j \in Nat /\ stream[s].last \in Nat
  BY <1>2
<1>4. /\ 1 <= j /\ j <= stream[s].last /\ stream[s].last <= Len(events)
      /\ stream[s].began <= stream[s].last
  BY <1>2 DEF ExportInv, StreamInv, WriteLine
<1>5. /\ Len(lines') = Len(lines) /\ lines'[g] = lines[g] \cup {j}
      /\ \A f \in 1..Len(lines) : f # g => lines'[f] = lines[f]
  <2>1. lines' = [lines EXCEPT ![g] = lines[g] \cup {j}]
    BY DEF WriteLine
  <2>2. lines[g] \cup {j} \in SUBSET Nat
    BY <1>3 DEF FilesTypeOK
  <2> QED
    BY <1>3, <2>1, <2>2, FilesKept DEF FilesTypeOK
<1> HIDE DEF j, g
<1>6. NamesInv'
  <2>1. ASSUME NEW f \in 1..Len(lines), NEW k \in lines'[f]
        PROVE  1 <= k /\ k <= Len(events)
    <3>1. k \in lines[f] \/ k = j
      BY <1>5
    <3> QED
      BY <1>1, <1>3, <1>4, <3>1 DEF ExportInv, NamesInv
  <2> QED
    BY <1>1, <1>5, <2>1 DEF ExportInv, NamesInv
<1>7. StreamInv'
  <2> SUFFICES ASSUME NEW t \in Exporting
               PROVE  /\ stream'[t].began <= Len(events) /\ 1 <= stream'[t].next
                      /\ step[t] = "read" => stream'[t].next = 1
                      /\ step[t] = "write" => /\ stream'[t].began <= stream'[t].last
                                              /\ stream'[t].last <= Len(events)
                                              /\ stream'[t].next <= stream'[t].last + 1
    BY <1>1, <1>2 DEF StreamInv
  <2>1. CASE t = s
    BY <1>2, <1>3, <1>4, <2>1 DEF ExportInv, StreamInv
  <2>2. CASE t # s
    BY <1>2, <2>2 DEF ExportInv, StreamInv, Exporting
  <2> QED
    BY <2>1, <2>2
<1>8. \A t \in Exporting : stream'[t].file = stream[t].file /\ stream'[t].began = stream[t].began
  BY <1>2, <1>3 DEF Exporting, g
<1>9. SettledInv'
  <2> SUFFICES ASSUME "export" \notin deaths, NEW f \in {temporary, exported}, f # NoFile
               PROVE  Awaited(f)' \/ Settled(f)'
    BY <1>1 DEF SettledInv
  <2>1. f \in 1..Len(lines) /\ (Awaited(f) \/ Settled(f))
    BY DEF FilesTypeOK, ExportInv, SettledInv
  <2>2. Awaited(f) => Awaited(f)'
    BY <1>1, <1>8 DEF Awaited, Exporting
  <2>3. ASSUME NEW k \in Nat
        PROVE  WillHold(f, k)' <=> WillHold(f, k)
    <3>1. CASE f # g
      BY <1>1, <1>2, <1>3, <1>5, <2>1, <3>1 DEF WillHold, g
    <3>2. CASE f = g /\ k = j
      BY <1>2, <1>4, <1>5, <3>2 DEF WillHold, g, j
    <3>3. CASE f = g /\ k # j
      <4>1. k \in lines'[f] <=> k \in lines[f]
        BY <1>5, <3>3
      <4>2. j + 1 <= k <=> j <= k
        BY <1>3, <3>3
      <4> QED
        BY <1>1, <1>2, <1>3, <4>1, <4>2 DEF WillHold, g, j
    <3> QED
      BY <3>1, <3>2, <3>3
  <2>4. Settled(f) => Settled(f)'
    BY <1>1, <1>2, <1>8, <2>3 DEF Settled
  <2> QED
    BY <2>1, <2>2, <2>4
<1>10. AloneInv'
  <2> SUFFICES ASSUME ~overlapped
               PROVE  AloneInv'
    BY <1>1 DEF AloneInv
  <2>1. Exporting = {s} /\ g = temporary /\ temporary # NoFile /\ promised <= stream[s].began
    BY <1>2 DEF ExportInv, AloneInv, g
  <2>2. \A k \in Nat : k \in lines[temporary] <=> (1 <= k /\ k < j)
    BY <1>2 DEF ExportInv, AloneInv, j
  <2>3. \A k \in Nat : k \in lines'[temporary] <=> (1 <= k /\ k < j + 1)
    BY <1>3, <1>4, <1>5, <2>1, <2>2
  <2>4. exported # NoFile => lines'[exported] = lines[exported]
    BY <1>5, <2>1 DEF FilesTypeOK, ExportInv, NamesInv
  <2>5. exported # NoFile =>
          \E n \in Nat : /\ promised <= n /\ n <= Len(events)
                         /\ \A k \in Nat : k \in lines[exported] <=> (1 <= k /\ k <= n)
    BY DEF ExportInv, AloneInv
  <2> QED
    BY <1>1, <1>2, <1>3, <2>1, <2>3, <2>4, <2>5 DEF AloneInv, g
<1> QED
  BY <1>6, <1>7, <1>9, <1>10 DEF ExportInv

(* The file that gets the name of the export was opened by everyone who    *)
(* may still write it no earlier than any other file by anyone, so that    *)
(* what it will hold is late enough for the session that gives the name.   *)
LEMMA ReplaceExportExports ==
  ASSUME FilesTypeOK, FilesTypeOK', ExportInv, NEW s \in Session, ReplaceExport(s)
  PROVE  ExportInv'
<1>1. /\ Len(events) \in Nat /\ promised \in Nat /\ promised' \in Nat
      /\ UNCHANGED <<events, lines, overlapped, deaths>>
      /\ temporary' = NoFile
  BY DEF FilesTypeOK, ReplaceExport
<1>2. /\ s \in Exporting /\ step[s] = "write" /\ Exporting' = Exporting \ {s} /\ step'[s] = "idle"
      /\ \A t \in Session \ {s} : step'[t] = step[t] /\ stream'[t] = stream[t]
      /\ stream[s] \in [file : 1..Len(lines), began : Nat, last : Nat, next : Nat]
  BY DEF FilesTypeOK, ReplaceExport, Go, Exporting
<1>3. /\ stream[s].began <= stream[s].last /\ stream[s].last <= Len(events)
      /\ stream[s].next = stream[s].last + 1 /\ stream[s].began <= Len(events)
  BY <1>2 DEF ExportInv, StreamInv, ReplaceExport
<1>5. exported' # NoFile =>
        \/ temporary = NoFile /\ exported' = exported /\ promised' = promised
        \/ /\ temporary # NoFile /\ exported' = temporary
           /\ promised' = promised \/ promised' = stream[s].began
  BY DEF ReplaceExport
<1>6. NamesInv'
  <2>1. promised' <= Len(events)
    BY <1>3 DEF ReplaceExport, ExportInv, NamesInv
  <2> QED
    BY <1>1, <2>1 DEF ExportInv, NamesInv
<1>7. StreamInv'
  BY <1>1, <1>2 DEF ExportInv, StreamInv, Exporting
<1>8. SettledInv'
  <2> SUFFICES ASSUME "export" \notin deaths, NEW f \in {temporary', exported'}, f # NoFile, ~Awaited(f)'
               PROVE  Settled(f)'
    BY <1>1 DEF SettledInv
  <2>1. f = exported' /\ f \in {temporary, exported}
    BY <1>1, <1>5
  <2>2. Settled(f)
    <3>1. ~Awaited(f)
      BY <1>2 DEF Awaited
    <3> QED
      BY <2>1, <3>1 DEF ExportInv, SettledInv
  <2>3. ASSUME NEW k \in Nat
        PROVE  WillHold(f, k)' <=> WillHold(f, k)
    <3>1. ~(stream[s].next <= k /\ k <= stream[s].last)
      BY <1>2, <1>3
    <3> QED
      BY <1>1, <1>2, <3>1 DEF WillHold
  <2>4. PICK n \in Nat :
          /\ promised <= n /\ n <= Len(events)
          /\ \A k \in Nat : WillHold(f, k) <=> (1 <= k /\ k <= n)
          /\ \A t \in Exporting : stream[t].file <= f => stream[t].began <= n
    BY <2>2 DEF Settled
  <2>5. promised' <= n
    <3>1. CASE temporary = NoFile
      BY <1>5, <2>1, <2>4, <3>1
    <3>2. CASE temporary # NoFile
      <4>1. stream[s].file <= f
        BY <1>2, <1>5, <2>1, <3>2 DEF ExportInv, NamesInv, FilesTypeOK
      <4> QED
        BY <1>2, <1>5, <2>1, <2>4, <3>2, <4>1
    <3> QED
      BY <3>1, <3>2
  <2>6. \A t \in Exporting' : stream'[t].file <= f => stream'[t].began <= n
    BY <1>2, <2>4 DEF Exporting
  <2> QED
    BY <1>1, <2>3, <2>4, <2>5, <2>6 DEF Settled
<1>9. AloneInv'
  <2> SUFFICES ASSUME ~overlapped
               PROVE  AloneInv'
    BY <1>1 DEF AloneInv
  <2>1. Exporting = {s} /\ temporary # NoFile /\ promised <= stream[s].began
    BY <1>2 DEF ExportInv, AloneInv
  <2>2. \A k \in Nat : k \in lines[temporary] <=> (1 <= k /\ k < stream[s].next)
    BY <1>2 DEF ExportInv, AloneInv
  <2>3. exported' = temporary /\ promised' <= stream[s].last
    BY <1>1, <1>2, <1>3, <2>1 DEF ReplaceExport
  <2>4. \A k \in Nat : k \in lines[exported'] <=> (1 <= k /\ k <= stream[s].last)
    BY <1>2, <1>3, <2>2, <2>3
  <2>5. Exporting' = {}
    BY <1>2, <2>1
  <2> QED
    BY <1>1, <1>2, <1>3, <2>3, <2>4, <2>5 DEF AloneInv
<1> QED
  BY <1>6, <1>7, <1>8, <1>9 DEF ExportInv

(* A session that dies exporting leaves a file that may stay short, and    *)
(* the log says so by its death.                                           *)
LEMMA StopExports ==
  ASSUME FilesTypeOK, FilesTypeOK', ExportInv, NEW s \in Session, Stop(s)
  PROVE  ExportInv'
<1>1. UNCHANGED <<events, temporary, exported, lines, promised, overlapped>>
  BY DEF Stop
<1>2. \A t \in Session \ {s} : step'[t] = step[t] /\ stream'[t] = stream[t]
  BY DEF Stop, Go, FilesTypeOK
<1>3. CASE s \in Exporting
  <2>1. Exporting' = Exporting \ {s} /\ "export" \in deaths'
    BY <1>2, <1>3 DEF Stop, Go, Exporting, FilesTypeOK
  <2>2. NamesInv' /\ SettledInv'
    BY <1>1, <2>1 DEF ExportInv, NamesInv, SettledInv
  <2>3. StreamInv'
    BY <1>1, <1>2, <2>1 DEF ExportInv, StreamInv, Exporting
  <2>4. AloneInv'
    BY <1>1, <1>2, <2>1 DEF ExportInv, AloneInv, Exporting
  <2> QED
    BY <2>2, <2>3, <2>4 DEF ExportInv
<1>4. CASE s \notin Exporting
  <2>1. Exporting' = Exporting /\ ("export" \in deaths' <=> "export" \in deaths)
    BY <1>2, <1>4 DEF Stop, Go, Exporting, FilesTypeOK
  <2>2. \A t \in Exporting : step'[t] = step[t] /\ stream'[t] = stream[t]
    BY <1>2, <1>4 DEF Exporting
  <2> QED
    BY <1>1, <2>1, <2>2, ExportUndisturbed DEF FilesTypeOK
<1> QED
  BY <1>3, <1>4

LEMMA ExportNext ==
  ASSUME FilesTypeOK, FilesTypeOK', ExportInv, [FilesNext]_filesVars
  PROVE  ExportInv'
<1>1. CASE AppendMore
  <2>1. Len(events) <= Len(events')
    BY <1>1, AppendProperties DEF AppendMore, FilesTypeOK
  <2> QED
    BY <1>1, <2>1, ExportUndisturbed DEF AppendMore, exportVars, Exporting
<1>2. ASSUME NEW s \in Session,
             \/ CheckNew(s) \/ Connect(s) \/ MakeTable(s) \/ ForbidUpdate(s)
             \/ ForbidDelete(s) \/ AppendFirst(s)
      PROVE  ExportInv'
  <2>1. UNCHANGED exportVars /\ s \notin Exporting
    BY <1>2 DEF CheckNew, Connect, MakeTable, ForbidUpdate, ForbidDelete, Statement,
                AppendFirst, exportVars, Exporting
  <2>2. \E next \in {"idle", "connect", "table", "no_update", "no_delete", "first"} : Go(s, next)
    BY <1>2 DEF CheckNew, Connect, MakeTable, ForbidUpdate, ForbidDelete, Statement, AppendFirst
  <2>3. Exporting' = Exporting /\ \A t \in Exporting : step'[t] = step[t]
    BY <2>1, <2>2 DEF Go, Exporting, FilesTypeOK
  <2>4. events' = events \/ events = <<>>
    BY <1>2 DEF CheckNew, Connect, MakeTable, ForbidUpdate, ForbidDelete, Statement, AppendFirst
  <2>5. Len(events) <= Len(events')
    BY <2>4 DEF FilesTypeOK
  <2> QED
    BY <2>1, <2>3, <2>5, ExportUndisturbed DEF exportVars
<1>3. CASE UNCHANGED filesVars
  <2>1. Len(events) <= Len(events') /\ Exporting' = Exporting
    BY <1>3 DEF filesVars, FilesTypeOK, Exporting
  <2> QED
    BY <1>3, <2>1, ExportUndisturbed DEF filesVars
<1> QED
  BY <1>1, <1>2, <1>3, OpenTemporaryExports, FetchEventsExports, WriteLineExports,
     ReplaceExportExports, StopExports DEF FilesNext

-----------------------------------------------------------------------------
(* The store. *)

LEMMA StoreInit ==
  ASSUME FilesInit
  PROVE  StoreInv
<1>1. Exporting = {} /\ Len(events) = 0
  BY DEF FilesInit, Exporting
<1>2. FilesTypeOK
  <2>1. events \in Seq(Session \cup {"command"}) /\ lines \in Seq(SUBSET Nat)
    BY DEF FilesInit
  <2>2. Len(lines) = 0 /\ 0 <= MaxFiles
    BY FilesAssumption DEF FilesInit
  <2> QED
    BY <1>1, <2>1, <2>2 DEF FilesInit, FilesTypeOK
<1>3. CreationInv
  BY DEF FilesInit, CreationInv, Past
<1>4. ExportInv
  BY <1>1 DEF FilesInit, ExportInv, NamesInv, StreamInv, SettledInv, AloneInv
<1> QED
  BY <1>2, <1>3, <1>4 DEF StoreInv

LEMMA StoreInvIsSound ==
  ASSUME StoreInv
  PROVE  StoreIsSound
<1>1. CreationIsExclusive
  <2>1. made # "none" /\ events = <<>> => Creating # {} \/ "creation" \in deaths
    BY DEF StoreInv, FilesTypeOK, CreationInv, Creating, Past
  <2>2. \A s \in created : created = {s} /\ events # <<>> /\ events[1] = s
    BY DEF StoreInv, CreationInv
  <2> QED
    BY <2>1, <2>2 DEF StoreInv, CreationInv, CreationIsExclusive
<1>2. ExportIsWhole
  <2> SUFFICES ASSUME exported # NoFile, ~overlapped \/ (Exporting = {} /\ "export" \notin deaths)
               PROVE  \E n \in promised..Len(events) : lines[exported] = 1..n
    BY DEF ExportIsWhole
  <2>1. lines[exported] \in SUBSET Nat /\ promised \in Nat /\ Len(events) \in Nat
    BY DEF StoreInv, FilesTypeOK
  <2>2. PICK n \in Nat : /\ promised <= n /\ n <= Len(events)
                         /\ \A k \in Nat : k \in lines[exported] <=> (1 <= k /\ k <= n)
    <3>1. CASE ~overlapped
      BY <3>1 DEF StoreInv, ExportInv, AloneInv
    <3>2. CASE Exporting = {} /\ "export" \notin deaths
      <4>1. Settled(exported)
        BY <3>2 DEF StoreInv, ExportInv, SettledInv, Awaited, Exporting
      <4>2. \A k : WillHold(exported, k) <=> k \in lines[exported]
        BY <3>2 DEF WillHold, Exporting
      <4> QED
        BY <4>1, <4>2 DEF Settled
    <3> QED
      BY <3>1, <3>2
  <2>3. \A k : k \in lines[exported] <=> k \in 1..n
    BY <2>1, <2>2
  <2>4. lines[exported] = 1..n
    BY <2>3
  <2> QED
    BY <2>1, <2>2, <2>4
<1> QED
  BY <1>1, <1>2 DEF StoreInv, StoreIsSound

(* However many sessions create the campaign, add events, export and die,  *)
(* the campaign is one campaign, and its export is its log unless exports  *)
(* overlapped and one of them still runs or died (store.py).               *)
THEOREM StoreSafety == FilesSpec => []StoreIsSound
<1>1. FilesInit => StoreInv
  BY StoreInit
<1>2. StoreInv /\ [FilesNext]_filesVars => StoreInv'
  BY TypeNext, CreationNext, ExportNext DEF StoreInv
<1>3. StoreInv => StoreIsSound
  BY StoreInvIsSound
<1> QED
  BY <1>1, <1>2, <1>3, PTL DEF FilesSpec
==============================================================================
