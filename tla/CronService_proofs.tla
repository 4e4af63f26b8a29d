------------------------- MODULE CronService_proofs -------------------------
(***************************************************************************)
(* Theorems about CronService for any jobs and bounds.  The inductive      *)
(* invariant is local to a job: Good relates its entries in the file and   *)
(* in memory, its runs and its history.  Nearly every step derives what    *)
(* becomes of a job from one of its two entries (Derives), and that keeps  *)
(* Good (DerivesKeepsGood); the others are treated one by one.             *)
(***************************************************************************)
EXTENDS CronService, FiniteSetTheorems, TLAPS

\* A run of job j that was decided on and still has its marker.
Live(c, j) == run[c][j] # "no" /\ <<c, j>> \notin lifted

Alone(j) == \A c, d \in Causes : Live(c, j) /\ Live(d, j) => c = d

\* Both entries carry the marker of a live run.
Guarded(j) ==
    \A c \in Causes : Live(c, j) =>
        /\ j \in created
        /\ disk[j].present => disk[j].marker # "no"
        /\ mem[j].present => mem[j].marker # "no"

Known(j) ==
    j \notin created =>
        ~disk[j].present /\ ~mem[j].present /\ wish[j] = "none" /\ fired[j] = 0

Wished(j) ==
    /\ wish[j] = "off" => ~disk[j].enabled /\ ~mem[j].enabled
    /\ wish[j] = "gone" => ~disk[j].present /\ ~mem[j].present

Once(j) ==
    j \in OneShot /\ fired[j] > 0 =>
        /\ fired[j] = 1
        /\ ~disk[j].enabled /\ ~mem[j].enabled
        /\ ~Live("tick", j) /\ ~Live("catchup", j)

\* A recurring job that is enabled has a time, unless an edit left it half done.
HasTime(j, e) ==
    j \notin OneShot /\ j \notin unsaved /\ e.present /\ e.enabled => e.next > 0

Tidy(e) == e.present \/ ~e.enabled

Timed(j) == HasTime(j, disk[j]) /\ HasTime(j, mem[j]) /\ Tidy(disk[j]) /\ Tidy(mem[j])

\* Of a recurring job whose edits were saved both entries say the same.
Agreed(j) ==
    phase # "new" /\ j \notin OneShot /\ j \notin unsaved =>
        mem[j].present = disk[j].present /\ mem[j].enabled = disk[j].enabled

Awake(j) ==
    phase = "on" /\ j \notin OneShot /\ j \notin unsaved /\ mem[j].present /\ mem[j].enabled
        => timer \/ tick # "idle"

Good(j) ==
    Alone(j) /\ Guarded(j) /\ Known(j) /\ Wished(j) /\ Once(j) /\ Timed(j) /\ Agreed(j) /\ Awake(j)

\* Where start and the tick are, and which of their runs there may be.
Staged ==
    /\ phase = "new" => run = Idle /\ ~timer /\ tick = "idle"
    /\ phase # "catchup" => \A j \in Jobs : run["catchup"][j] = "no"
    /\ tick # "runs" => \A j \in Jobs : run["tick"][j] = "no"

IndInv == TypeOK /\ Staged /\ \A j \in Jobs : Good(j)

-----------------------------------------------------------------------------
(* Operators on entries and stores.                                        *)

\* What an entry may become without an edit.
Keeps(e, f) ==
    /\ f.present = e.present
    /\ f.enabled = e.enabled
    /\ f.status = e.status
    /\ f.at = e.at

LEMMA GoneIsJob == Gone \in Job /\ ~Gone.present /\ ~Gone.enabled
BY CronBoundsAssumption DEF Gone, Job, Slots

LEMMA NextRunType ==
    ASSUME TypeOK, NEW j \in Jobs, NEW e \in Job
    PROVE  /\ NextRun(j, e) \in Slots
           /\ j \notin OneShot /\ e.enabled => NextRun(j, e) > 0
<1>1. passed[j] \in 0 .. MaxSlots
  BY DEF TypeOK
<1>2. passed[j] + 1 \in Slots /\ 0 \in Slots /\ e.at \in Slots /\ passed[j] + 1 > 0
  BY <1>1, CronBoundsAssumption DEF Slots, Job
<1>3. e.enabled \in BOOLEAN
  BY DEF Job
<1>4. CASE ~e.enabled
  <2>1. NextRun(j, e) = 0
    BY <1>4 DEF NextRun
  <2> QED
    BY <1>2, <1>4, <2>1
<1>5. CASE e.enabled /\ j \notin OneShot
  <2>1. NextRun(j, e) = passed[j] + 1
    BY <1>5 DEF NextRun
  <2> QED
    BY <1>2, <2>1
<1>6. CASE e.enabled /\ j \in OneShot
  <2>1. NextRun(j, e) = IF e.status = "ok" THEN 0 ELSE e.at
    BY <1>6 DEF NextRun
  <2> QED
    BY <1>2, <1>6, <2>1
<1> QED
  BY <1>3, <1>4, <1>5, <1>6

LEMMA NormalizedKeeps ==
    ASSUME NEW e \in Job
    PROVE  /\ Normalized(e) \in Job
           /\ Keeps(e, Normalized(e))
           /\ e.enabled => Normalized(e).next = e.next
           /\ e.enabled /\ e.marker # "stuck" => Normalized(e).marker = e.marker
<1>1. 0 \in Slots
  BY CronBoundsAssumption DEF Slots
<1> QED
  BY <1>1 DEF Normalized, Job, Keeps

\* The walk over the jobs, with or without past times moved on.
Walked(j, e, f) ==
    /\ f \in Job
    /\ Keeps(e, f)
    /\ HasTime(j, f)
    /\ e.enabled /\ e.marker # "stuck" => f.marker = e.marker

LEMMA SetNext ==
    ASSUME NEW e \in Job, NEW n \in Slots
    PROVE  /\ [e EXCEPT !.next = n] \in Job
           /\ Keeps(e, [e EXCEPT !.next = n])
           /\ [e EXCEPT !.next = n].next = n
           /\ [e EXCEPT !.next = n].marker = e.marker
BY DEF Job, Keeps

LEMMA MaintainedWalks ==
    ASSUME TypeOK, NEW store \in [Jobs -> Job], NEW j \in Jobs
    PROVE  /\ Walked(j, store[j], Maintained(store)[j])
           /\ store[j].enabled /\ store[j].next > 0 => Maintained(store)[j].next = store[j].next
<1> DEFINE e == Normalized(store[j])
<1>0. store[j] \in Job /\ store[j].next \in Nat /\ store[j].present \in BOOLEAN
  BY CronBoundsAssumption DEF Job, Slots
<1>1. /\ e \in Job
      /\ Keeps(store[j], e)
      /\ store[j].enabled => e.next = store[j].next
      /\ store[j].enabled /\ store[j].marker # "stuck" => e.marker = store[j].marker
  BY <1>0, NormalizedKeeps
<1>2. Maintained(store)[j] = IF store[j].present /\ e.next = 0
                             THEN [e EXCEPT !.next = NextRun(j, e)] ELSE e
  BY DEF Maintained
<1>3. e.next \in Nat
  BY <1>1, CronBoundsAssumption DEF Job, Slots
<1> HIDE DEF e
<1>4. /\ NextRun(j, e) \in Slots
      /\ j \notin OneShot /\ e.enabled => NextRun(j, e) > 0
  BY <1>1, NextRunType
<1> DEFINE f == [e EXCEPT !.next = NextRun(j, e)]
<1>5. f \in Job /\ Keeps(e, f) /\ f.next = NextRun(j, e) /\ f.marker = e.marker
  BY <1>1, <1>4, SetNext
<1> HIDE DEF f
<1>6. CASE store[j].present /\ e.next = 0
  <2>1. Maintained(store)[j] = f
    BY <1>2, <1>6 DEF f
  <2> QED
    BY <2>1, <1>0, <1>1, <1>4, <1>5, <1>6 DEF Walked, Keeps, HasTime
<1>7. CASE ~(store[j].present /\ e.next = 0)
  <2>1. Maintained(store)[j] = e
    BY <1>2, <1>7
  <2> QED
    BY <2>1, <1>0, <1>1, <1>3, <1>7 DEF Walked, Keeps, HasTime
<1> QED
  BY <1>6, <1>7

LEMMA RecomputedWalks ==
    ASSUME TypeOK, NEW store \in [Jobs -> Job], NEW j \in Jobs
    PROVE  Walked(j, store[j], Recomputed(store)[j])
<1> DEFINE e == Normalized(store[j])
<1>0. store[j] \in Job /\ store[j].present \in BOOLEAN
  BY DEF Job
<1>1. /\ e \in Job
      /\ Keeps(store[j], e)
      /\ store[j].enabled /\ store[j].marker # "stuck" => e.marker = store[j].marker
  BY <1>0, NormalizedKeeps
<1>2. Recomputed(store)[j] = IF store[j].present /\ (e.next = 0 \/ Due(j, e))
                             THEN [e EXCEPT !.next = NextRun(j, e)] ELSE e
  BY DEF Recomputed
<1>3. e.next \in Nat
  BY <1>1, CronBoundsAssumption DEF Job, Slots
<1> HIDE DEF e
<1>4. /\ NextRun(j, e) \in Slots
      /\ j \notin OneShot /\ e.enabled => NextRun(j, e) > 0
  BY <1>1, NextRunType
<1> DEFINE f == [e EXCEPT !.next = NextRun(j, e)]
<1>5. f \in Job /\ Keeps(e, f) /\ f.next = NextRun(j, e) /\ f.marker = e.marker
  BY <1>1, <1>4, SetNext
<1> HIDE DEF f
<1>6. CASE store[j].present /\ (e.next = 0 \/ Due(j, e))
  <2>1. Recomputed(store)[j] = f
    BY <1>2, <1>6 DEF f
  <2> QED
    BY <2>1, <1>0, <1>1, <1>4, <1>5, <1>6 DEF Walked, Keeps, HasTime
<1>7. CASE ~(store[j].present /\ (e.next = 0 \/ Due(j, e)))
  <2>1. Recomputed(store)[j] = e
    BY <1>2, <1>7
  <2> QED
    BY <2>1, <1>0, <1>1, <1>3, <1>7 DEF Walked, Keeps, HasTime
<1> QED
  BY <1>6, <1>7

\* A result enables nothing and brings nothing back; a recurring job stays as
\* it was and gets a time, a one-shot is disabled or deleted.
Resulted(j, e, f) ==
    /\ f \in Job
    /\ f.present => e.present
    /\ f.enabled => e.enabled
    /\ j \in OneShot => ~f.enabled
    /\ j \notin OneShot => f.present = e.present /\ f.enabled = e.enabled
    /\ HasTime(j, f)
    /\ Tidy(e) => Tidy(f)

LEMMA AfterRunResults ==
    ASSUME TypeOK, NEW j \in Jobs, NEW e \in Job, NEW outcome \in Outcomes
    PROVE  Resulted(j, e, AfterRun(j, e, outcome))
<1> DEFINE done == [e EXCEPT !.marker = "no", !.status = outcome]
<1>1. /\ done \in Job /\ done.present = e.present /\ done.enabled = e.enabled
      /\ e.present \in BOOLEAN /\ e.enabled \in BOOLEAN
  BY DEF Job, Outcomes
<1>2. passed[j] \in 0 .. MaxSlots /\ DeletedAfter \subseteq OneShot
  BY CronAssumption DEF TypeOK
<1>3. /\ 0 \in Slots /\ passed[j] + 1 \in Slots /\ passed[j] + 2 \in Slots
      /\ passed[j] + 1 > 0 /\ passed[j] + 2 > 0
  BY <1>2, CronBoundsAssumption DEF Slots
<1>4. AfterRun(j, e, outcome) =
        IF j \in DeletedAfter /\ outcome = "ok" THEN Gone
        ELSE IF j \in OneShot THEN [done EXCEPT !.enabled = FALSE, !.next = 0]
        ELSE IF ~e.enabled THEN [done EXCEPT !.next = 0]
        ELSE IF outcome = "error" /\ j \in Backoff THEN [done EXCEPT !.next = passed[j] + 2]
        ELSE [done EXCEPT !.next = passed[j] + 1]
  BY DEF AfterRun
<1> HIDE DEF done
<1>5. /\ [done EXCEPT !.enabled = FALSE, !.next = 0] \in Job
      /\ [done EXCEPT !.enabled = FALSE, !.next = 0].present = done.present
      /\ [done EXCEPT !.enabled = FALSE, !.next = 0].enabled = FALSE
  BY <1>1, <1>3 DEF Job
<1>6. ASSUME NEW n \in Slots
      PROVE  /\ [done EXCEPT !.next = n] \in Job
             /\ [done EXCEPT !.next = n].present = done.present
             /\ [done EXCEPT !.next = n].enabled = done.enabled
             /\ [done EXCEPT !.next = n].next = n
  BY <1>1 DEF Job
<1>7. CASE j \in OneShot
  <2>1. AfterRun(j, e, outcome) \in {Gone, [done EXCEPT !.enabled = FALSE, !.next = 0]}
    BY <1>4, <1>7
  <2> QED
    BY <2>1, <1>1, <1>5, <1>7, GoneIsJob DEF Resulted, HasTime, Tidy
<1>8. CASE j \notin OneShot /\ ~e.enabled
  <2>1. AfterRun(j, e, outcome) = [done EXCEPT !.next = 0]
    BY <1>2, <1>4, <1>8
  <2> QED
    BY <2>1, <1>1, <1>3, <1>6, <1>8 DEF Resulted, HasTime, Tidy
<1>9. CASE j \notin OneShot /\ e.enabled
  <2>1. PICK n \in {passed[j] + 1, passed[j] + 2} :
           AfterRun(j, e, outcome) = [done EXCEPT !.next = n]
    BY <1>2, <1>4, <1>9
  <2>2. n \in Slots /\ n > 0
    BY <2>1, <1>3
  <2>3. /\ AfterRun(j, e, outcome) \in Job
        /\ AfterRun(j, e, outcome).present = e.present
        /\ AfterRun(j, e, outcome).enabled = e.enabled
        /\ AfterRun(j, e, outcome).next > 0
    BY <2>1, <2>2, <1>1, <1>6
  <2> QED
    BY <2>3, <1>9 DEF Resulted, HasTime, Tidy
<1> QED
  BY <1>1, <1>7, <1>8, <1>9

LEMMA AppliedResults ==
    ASSUME TypeOK, NEW store \in [Jobs -> Job], NEW c \in Causes, NEW j \in Jobs
    PROVE  /\ run[c][j] \in Outcomes /\ store[j].present
                => Resulted(j, store[j], Applied(store, c)[j])
           /\ ~(run[c][j] \in Outcomes /\ store[j].present)
                => Walked(j, store[j], Applied(store, c)[j])
           /\ Applied(store, c)[j] \in Job
<1> DEFINE base == [i \in Jobs |-> IF run[c][i] \in Outcomes /\ store[i].present
                                   THEN AfterRun(i, store[i], run[c][i]) ELSE store[i]]
<1>1. ASSUME NEW i \in Jobs, run[c][i] \in Outcomes
      PROVE  Resulted(i, store[i], AfterRun(i, store[i], run[c][i]))
  BY <1>1, AfterRunResults
<1>2. ASSUME NEW i \in Jobs
      PROVE  base[i] \in Job
  <2>1. CASE run[c][i] \in Outcomes /\ store[i].present
    BY <2>1, <1>1 DEF Resulted
  <2>2. CASE ~(run[c][i] \in Outcomes /\ store[i].present)
    BY <2>2
  <2> QED
    BY <2>1, <2>2
<1>3. base \in [Jobs -> Job]
  BY <1>2
<1>4. Applied(store, c) = Maintained(base)
  BY DEF Applied
<1>5. /\ run[c][j] \in Outcomes /\ store[j].present => Resulted(j, store[j], base[j])
      /\ ~(run[c][j] \in Outcomes /\ store[j].present) => base[j] = store[j]
  BY <1>1
<1> HIDE DEF base
<1>6. Walked(j, base[j], Applied(store, c)[j])
  BY <1>3, <1>4, MaintainedWalks
<1> QED
  BY <1>5, <1>6 DEF Resulted, Walked, Keeps, HasTime, Tidy

LEMMA MergedResults ==
    ASSUME TypeOK, NEW j \in Jobs, NEW s \in Job
    PROVE  /\ Merged(j, s, disk[j]) \in Job
           /\ Merged(j, s, disk[j]).present => s.present /\ disk[j].present
           /\ disk[j].present /\ s.present =>
                 /\ Merged(j, s, disk[j]).present
                 /\ Merged(j, s, disk[j]).enabled = s.enabled
                 /\ Merged(j, s, disk[j]).next = s.next
           /\ s.present /\ ~disk[j].present => Merged(j, s, disk[j]) = disk[j]
           /\ ~s.present => Merged(j, s, disk[j]) = Gone
<1>1. disk[j] \in Job
  BY DEF TypeOK
<1>2. [s EXCEPT !.at = disk[j].at] \in Job
  BY <1>1 DEF Job
<1>3. /\ [s EXCEPT !.at = disk[j].at].present = s.present
      /\ [s EXCEPT !.at = disk[j].at].enabled = s.enabled
      /\ [s EXCEPT !.at = disk[j].at].next = s.next
  BY DEF Job
<1> QED
  BY <1>1, <1>2, <1>3, GoneIsJob DEF Merged

LEMMA MarkedIsJob ==
    ASSUME NEW e \in Job
    PROVE  /\ [e EXCEPT !.marker = "fresh"] \in Job
           /\ Keeps(e, [e EXCEPT !.marker = "fresh"])
           /\ [e EXCEPT !.marker = "fresh"].next = e.next
           /\ [e EXCEPT !.marker = "fresh"].marker = "fresh"
           /\ [e EXCEPT !.marker = "no"] \in Job
           /\ Keeps(e, [e EXCEPT !.marker = "no"])
           /\ [e EXCEPT !.marker = "no"].next = e.next
BY DEF Job, Keeps

LEMMA StoreTypes ==
    ASSUME TypeOK, NEW store \in [Jobs -> Job]
    PROVE  /\ Maintained(store) \in [Jobs -> Job]
           /\ Recomputed(store) \in [Jobs -> Job]
           /\ \A c \in Causes : Applied(store, c) \in [Jobs -> Job]
           /\ \A S : Marked(store, S) \in [Jobs -> Job]
<1>1. ASSUME NEW j \in Jobs
      PROVE  /\ Maintained(store)[j] \in Job
             /\ Recomputed(store)[j] \in Job
             /\ \A c \in Causes : Applied(store, c)[j] \in Job
             /\ [store[j] EXCEPT !.marker = "fresh"] \in Job
  BY MaintainedWalks, RecomputedWalks, AppliedResults, MarkedIsJob DEF Walked
<1>2. Maintained(store) \in [Jobs -> Job]
  BY <1>1 DEF Maintained
<1>3. Recomputed(store) \in [Jobs -> Job]
  BY <1>1 DEF Recomputed
<1>4. ASSUME NEW c \in Causes
      PROVE  Applied(store, c) \in [Jobs -> Job]
  BY <1>1 DEF Applied, Maintained
<1>5. ASSUME NEW S
      PROVE  Marked(store, S) \in [Jobs -> Job]
  BY <1>1 DEF Marked
<1> QED
  BY <1>2, <1>3, <1>4, <1>5

-----------------------------------------------------------------------------
(* What a step makes of a job.                                             *)

\* The entry of j in memory comes from e, and so does the one in the file
\* unless it stays.
Entries(j, e) ==
    /\ e \in {disk[j], mem[j]}
    /\ disk'[j] \in {disk[j], mem'[j]}
    /\ mem'[j].present => e.present
    /\ mem'[j].enabled => e.enabled
    /\ HasTime(j, mem'[j])
    /\ Tidy(mem'[j])

\* Run c of j is decided on: no other run changes, e had no marker and both
\* entries get one.
Taken(c, j, e) ==
    /\ e.present /\ e.marker = "no"
    /\ disk'[j] = mem'[j]
    /\ c = "manual" \/ e.enabled
    /\ lifted' = lifted
    /\ \A d \in Causes : d # c => run'[d][j] = run[d][j]

Runs(j, e) ==
    \A c \in Causes : Live(c, j)' =>
        /\ Live(c, j) \/ Taken(c, j, e)
        /\ mem'[j].present => mem'[j].marker # "no"

Wishes(j) ==
    /\ created \subseteq created' /\ unsaved \subseteq unsaved'
    /\ \/ wish'[j] = wish[j]
       \/ wish'[j] = "none"
       \/ /\ mem[j].present
          /\ disk'[j] = mem'[j]
          /\ wish'[j] = "gone" => ~mem'[j].present
          /\ wish'[j] = "off" => ~mem'[j].enabled

Fires(j) ==
    \/ fired'[j] = fired[j]
    \/ fired'[j] = 0
    \/ /\ fired'[j] = fired[j] + 1
       /\ disk'[j] = mem'[j]
       /\ j \in OneShot => ~mem'[j].enabled
       /\ Live("tick", j) \/ Live("catchup", j)
       /\ \A c \in Causes : ~Live(c, j)'

Agrees(j, e) ==
    phase' # "new" /\ j \notin OneShot /\ j \notin unsaved' =>
        \/ disk'[j] = mem'[j]
        \/ /\ mem'[j].present = e.present /\ mem'[j].enabled = e.enabled
           /\ e = disk[j] \/ phase # "new"

Arms ==
    phase' = "on" =>
        \/ timer' = ArmedFor(mem')
        \/ phase = "on" /\ timer' = timer /\ (tick # "idle" => tick' # "idle")

Derives(j, e) ==
    Entries(j, e) /\ Runs(j, e) /\ Wishes(j) /\ Fires(j) /\ Agrees(j, e) /\ Arms

LEMMA DerivesKeepsGood ==
    ASSUME TypeOK, TypeOK', NEW j \in Jobs, Good(j), NEW e, Derives(j, e)
    PROVE  Good(j)'
<1>0. /\ Alone(j) /\ Guarded(j) /\ Known(j) /\ Wished(j) /\ Once(j) /\ Timed(j)
      /\ Agreed(j) /\ Awake(j)
  BY DEF Good
<1>1. Entries(j, e) /\ Runs(j, e) /\ Wishes(j) /\ Fires(j) /\ Agrees(j, e) /\ Arms
  BY DEF Derives
<1>2. /\ disk[j] \in Job /\ mem[j] \in Job /\ disk'[j] \in Job /\ mem'[j] \in Job
      /\ e \in {disk[j], mem[j]}
  BY <1>1 DEF TypeOK, Entries
<1>3. /\ e.present \in BOOLEAN /\ e.enabled \in BOOLEAN
      /\ disk[j].enabled \in BOOLEAN /\ mem[j].enabled \in BOOLEAN
      /\ disk[j].present \in BOOLEAN /\ mem[j].present \in BOOLEAN
      /\ disk'[j].enabled \in BOOLEAN /\ mem'[j].enabled \in BOOLEAN
      /\ disk'[j].present \in BOOLEAN /\ mem'[j].present \in BOOLEAN
      /\ mem'[j].next \in Nat /\ fired[j] \in Nat /\ fired'[j] \in Nat
  BY <1>2, CronBoundsAssumption DEF Job, Slots, TypeOK
<1>4. ASSUME NEW c \in Causes, NEW d \in Causes, Taken(c, j, e), Live(d, j)'
      PROVE  c = d
  <2>1. ~Live(d, j)
    BY <1>0, <1>1, <1>4 DEF Guarded, Entries, Taken
  <2>2. CASE c # d
    <3>1. run'[d][j] = run[d][j] /\ lifted' = lifted
      BY <1>4, <2>2 DEF Taken
    <3> QED
      BY <3>1, <2>1, <1>4 DEF Live
  <2> QED
    BY <2>2
<1>5. Alone(j)'
  <2> SUFFICES ASSUME NEW c \in Causes, NEW d \in Causes, Live(c, j)', Live(d, j)'
               PROVE  c = d
    BY DEF Alone
  <2>1. (Live(c, j) \/ Taken(c, j, e)) /\ (Live(d, j) \/ Taken(d, j, e))
    BY <1>1 DEF Runs
  <2> QED
    BY <2>1, <1>0, <1>4 DEF Alone
<1>6. Guarded(j)'
  <2> SUFFICES ASSUME NEW c \in Causes, Live(c, j)'
               PROVE  /\ j \in created'
                      /\ disk'[j].present => disk'[j].marker # "no"
                      /\ mem'[j].present => mem'[j].marker # "no"
    BY DEF Guarded
  <2>1. (Live(c, j) \/ Taken(c, j, e)) /\ (mem'[j].present => mem'[j].marker # "no")
    BY <1>1 DEF Runs
  <2>2. j \in created'
    BY <2>1, <1>0, <1>1 DEF Guarded, Known, Taken, Entries, Wishes
  <2>3. disk'[j].present => disk'[j].marker # "no"
    BY <2>1, <1>0, <1>1 DEF Guarded, Taken, Entries
  <2> QED
    BY <2>1, <2>2, <2>3
<1>7. Known(j)'
  <2> SUFFICES ASSUME j \notin created'
               PROVE  ~disk'[j].present /\ ~mem'[j].present /\ wish'[j] = "none" /\ fired'[j] = 0
    BY DEF Known
  <2>1. /\ j \notin created /\ ~disk[j].present /\ ~mem[j].present
        /\ wish[j] = "none" /\ fired[j] = 0
    BY <1>0, <1>1 DEF Known, Wishes
  <2>2. ~mem'[j].present /\ ~disk'[j].present
    BY <2>1, <1>1 DEF Entries
  <2>3. wish'[j] = "none"
    BY <2>1, <1>1 DEF Wishes
  <2>4. ~Live("tick", j) /\ ~Live("catchup", j)
    BY <2>1, <1>0 DEF Guarded, Causes
  <2>5. fired'[j] = 0
    BY <2>1, <2>4, <1>1 DEF Fires
  <2> QED
    BY <2>2, <2>3, <2>5
<1>8. Wished(j)'
  <2>1. CASE wish'[j] = wish[j]
    BY <2>1, <1>0, <1>1, <1>3 DEF Wished, Entries
  <2>2. CASE wish'[j] = "none"
    BY <2>2 DEF Wished
  <2>3. CASE disk'[j] = mem'[j] /\ (wish'[j] = "gone" => ~mem'[j].present)
             /\ (wish'[j] = "off" => ~mem'[j].enabled)
    BY <2>3 DEF Wished
  <2> QED
    BY <1>1, <2>1, <2>2, <2>3 DEF Wishes
<1>9. Once(j)'
  <2> SUFFICES ASSUME j \in OneShot, fired'[j] > 0
               PROVE  /\ fired'[j] = 1
                      /\ ~disk'[j].enabled /\ ~mem'[j].enabled
                      /\ ~Live("tick", j)' /\ ~Live("catchup", j)'
    BY DEF Once
  <2>1. CASE fired'[j] = fired[j]
    <3>1. /\ fired[j] = 1 /\ ~disk[j].enabled /\ ~mem[j].enabled
          /\ ~Live("tick", j) /\ ~Live("catchup", j)
      BY <2>1, <1>0 DEF Once
    <3>2. ~mem'[j].enabled /\ ~disk'[j].enabled /\ ~e.enabled
      BY <3>1, <1>1 DEF Entries
    <3>3. ~Taken("tick", j, e) /\ ~Taken("catchup", j, e)
      BY <3>2 DEF Taken
    <3>4. ~Live("tick", j)' /\ ~Live("catchup", j)'
      BY <3>1, <3>3, <1>1 DEF Runs, Causes
    <3> QED
      BY <3>1, <3>2, <3>4, <2>1
  <2>2. CASE fired'[j] = 0
    BY <2>2
  <2>3. CASE /\ fired'[j] = fired[j] + 1
             /\ disk'[j] = mem'[j]
             /\ j \in OneShot => ~mem'[j].enabled
             /\ Live("tick", j) \/ Live("catchup", j)
             /\ \A c \in Causes : ~Live(c, j)'
    <3>1. fired[j] = 0
      BY <2>3, <1>0, <1>3 DEF Once
    <3>2. ~Live("tick", j)' /\ ~Live("catchup", j)'
      BY <2>3 DEF Causes
    <3> QED
      BY <3>1, <3>2, <2>3
  <2> QED
    BY <1>1, <2>1, <2>2, <2>3 DEF Fires
<1>10. Timed(j)'
  BY <1>0, <1>1 DEF Timed, Entries, HasTime, Tidy, Wishes
<1>11. Agreed(j)'
  <2> SUFFICES ASSUME phase' # "new", j \notin OneShot, j \notin unsaved'
               PROVE  mem'[j].present = disk'[j].present /\ mem'[j].enabled = disk'[j].enabled
    BY DEF Agreed
  <2>1. CASE disk'[j] = mem'[j]
    BY <2>1
  <2>2. CASE disk'[j] # mem'[j]
    <3>1. /\ mem'[j].present = e.present /\ mem'[j].enabled = e.enabled
          /\ e = disk[j] \/ phase # "new"
          /\ disk'[j] = disk[j]
          /\ j \notin unsaved
      BY <2>2, <1>1 DEF Agrees, Entries, Wishes
    <3> QED
      BY <3>1, <1>0, <1>2 DEF Agreed
  <2> QED
    BY <2>1, <2>2
<1>12. Awake(j)'
  <2> SUFFICES ASSUME phase' = "on", j \notin OneShot, j \notin unsaved',
                      mem'[j].present, mem'[j].enabled
               PROVE  timer' \/ tick' # "idle"
    BY DEF Awake
  <2>1. CASE timer' = ArmedFor(mem')
    <3>1. mem'[j].next > 0
      BY <1>1 DEF Entries, HasTime, Wishes
    <3> QED
      BY <2>1, <3>1 DEF ArmedFor
  <2>2. CASE phase = "on" /\ timer' = timer /\ (tick # "idle" => tick' # "idle")
    <3>1. e.present /\ e.enabled /\ j \notin unsaved
      BY <1>1 DEF Entries, Wishes
    <3>2. mem[j].present /\ mem[j].enabled
      BY <3>1, <2>2, <1>0, <1>2 DEF Agreed
    <3> QED
      BY <3>1, <3>2, <2>2, <1>0 DEF Awake
  <2> QED
    BY <1>1, <2>1, <2>2 DEF Arms
<1> QED
  BY <1>5, <1>6, <1>7, <1>8, <1>9, <1>10, <1>11, <1>12 DEF Good

-----------------------------------------------------------------------------
(* Parts of steps.                                                         *)

LEMMA SaveTypes ==
    ASSUME TypeOK, NEW store \in [Jobs -> Job], NEW ok \in BOOLEAN, Save(store, ok)
    PROVE  /\ mem' = store
           /\ mem' \in [Jobs -> Job] /\ disk' \in [Jobs -> Job]
           /\ faults' \in 0 .. MaxFaults
           /\ ok => disk' = mem'
           /\ \A j \in Jobs : disk'[j] \in {disk[j], mem'[j]}
<1>1. faults' \in 0 .. MaxFaults
  BY CronBoundsAssumption DEF Save, TypeOK
<1> QED
  BY <1>1 DEF Save, TypeOK

LEMMA LiftType ==
    ASSUME TypeOK, NEW S, NEW J, Lift(S, J)
    PROVE  lifted' \subseteq Causes \X Jobs
BY DEF TypeOK, Lift, Unsettled

LEMMA ArmedType ==
    ASSUME TypeOK, NEW store \in [Jobs -> Job]
    PROVE  ArmedFor(store) \in BOOLEAN
BY DEF ArmedFor

\* A run that is live after some were settled, and the markers of jobs J taken
\* away, was live before, and no run of its job was settled.
LEMMA LiftLive ==
    ASSUME TypeOK, NEW j \in Jobs, Alone(j), NEW S, NEW J, S \subseteq Unsettled, Lift(S, J),
           \A c \in Causes : run'[c][j] # "no" => run[c][j] # "no" /\ <<c, j>> \notin S
    PROVE  \A c \in Causes : Live(c, j)' =>
               Live(c, j) /\ j \notin J /\ \A d \in Causes : <<d, j>> \notin S
<1> SUFFICES ASSUME NEW c \in Causes, Live(c, j)'
             PROVE  Live(c, j) /\ j \notin J /\ \A d \in Causes : <<d, j>> \notin S
  OBVIOUS
<1>1. run[c][j] # "no" /\ <<c, j>> \notin S /\ <<c, j>> \notin lifted'
  BY DEF Live
<1>2. <<c, j>> \in Unsettled
  BY <1>1 DEF Unsettled
<1> DEFINE late == {x[2] : x \in S \cap lifted}
<1>3. lifted' = (lifted \cup {x \in Unsettled : x[2] \in J \cup late}) \ S
  BY DEF Lift
<1>4. <<c, j>> \notin lifted /\ j \notin J /\ j \notin late
  BY <1>1, <1>2, <1>3
<1>5. ASSUME NEW d \in Causes, <<d, j>> \in S
      PROVE  FALSE
  <2>1. <<d, j>> \notin lifted
    BY <1>4, <1>5
  <2>2. run[d][j] # "no"
    BY <1>5 DEF Unsettled
  <2>3. c = d
    BY <1>1, <1>4, <2>1, <2>2 DEF Live, Alone
  <2> QED
    BY <1>1, <1>5, <2>3
<1> QED
  BY <1>1, <1>4, <1>5 DEF Live

LEMMA WalkedDerives ==
    ASSUME TypeOK, TypeOK', NEW j \in Jobs, Good(j), NEW store \in {disk, mem},
           Walked(j, store[j], mem'[j]), disk'[j] \in {disk[j], mem'[j]},
           NEW S, S \subseteq Unsettled, Lift(S, Unmarked(store)),
           \A c \in Causes : run'[c][j] # "no" => run[c][j] # "no" /\ <<c, j>> \notin S
    PROVE  Entries(j, store[j]) /\ Runs(j, store[j])
<1>1. /\ Tidy(store[j]) /\ Alone(j)
      /\ store[j] \in {disk[j], mem[j]}
      /\ \A c \in Causes : Live(c, j) /\ store[j].present => store[j].marker # "no"
  BY DEF Good, Timed, Guarded
<1>2. Entries(j, store[j])
  BY <1>1 DEF Entries, Walked, Keeps, Tidy
<1>3. ASSUME NEW c \in Causes, Live(c, j)'
      PROVE  Live(c, j) /\ (mem'[j].present => mem'[j].marker # "no")
  <2>1. Live(c, j) /\ j \notin Unmarked(store)
    BY <1>1, <1>3, LiftLive
  <2>2. store[j].enabled /\ store[j].marker # "stuck"
    BY <2>1 DEF Unmarked
  <2> QED
    BY <2>1, <2>2, <1>1 DEF Walked, Keeps
<1> QED
  BY <1>2, <1>3 DEF Runs

\* Nothing is recorded about the job.
Unnoted(j) ==
    /\ created' = created /\ unsaved' = unsaved
    /\ wish'[j] = wish[j] /\ fired'[j] = fired[j]

LEMMA UnnotedKeeps ==
    ASSUME NEW j \in Jobs, Unnoted(j)
    PROVE  Wishes(j) /\ Fires(j)
BY DEF Unnoted, Wishes, Fires

LEMMA QuietKeeps ==
    ASSUME TypeOK, TypeOK', NEW j \in Jobs, Good(j),
           disk' = disk, mem' = mem, lifted' = lifted, Unnoted(j),
           phase' # "new" => phase # "new",
           \A c \in Causes : run'[c][j] # "no" => run[c][j] # "no",
           Arms
    PROVE  Good(j)'
<1>1. Wishes(j) /\ Fires(j)
  BY UnnotedKeeps
<1>2. Entries(j, mem[j])
  BY DEF Entries, Good, Timed
<1>3. Runs(j, mem[j])
  BY DEF Runs, Live, Good, Guarded
<1>4. Agrees(j, mem[j])
  BY DEF Agrees
<1> QED
  BY <1>1, <1>2, <1>3, <1>4, DerivesKeepsGood DEF Derives

LEMMA MarkKeeps ==
    ASSUME TypeOK, TypeOK', NEW j \in Jobs, Good(j), NEW store \in {disk, mem}, NEW S,
           mem'[j] = Marked(store, S)[j], disk'[j] \in {disk[j], mem'[j]},
           lifted' = lifted, Unnoted(j), phase' # "new" => phase # "new", Arms,
           NEW c \in Causes,
           \A d \in Causes : d # c => run'[d][j] = run[d][j],
           run'[c][j] # "no" =>
               \/ run[c][j] # "no"
               \/ /\ disk'[j] = mem'[j] /\ j \in S
                  /\ store[j].present /\ store[j].marker = "no"
                  /\ c = "manual" \/ store[j].enabled
    PROVE  Good(j)'
<1> DEFINE e == store[j]
<1>0. /\ e \in {disk[j], mem[j]} /\ e \in Job
      /\ Tidy(e) /\ HasTime(j, e)
      /\ \A d \in Causes : Live(d, j) /\ e.present => e.marker # "no"
  BY DEF Good, Timed, Guarded, TypeOK
<1>1. /\ j \in S => mem'[j] = [e EXCEPT !.marker = "fresh"]
      /\ j \notin S => mem'[j] = e
  BY DEF Marked
<1> HIDE DEF e
<1>2. /\ Keeps(e, mem'[j]) /\ mem'[j].next = e.next
      /\ j \in S => mem'[j].marker = "fresh"
      /\ j \notin S => mem'[j].marker = e.marker
  <2>1. CASE j \in S
    <3>1. mem'[j] = [e EXCEPT !.marker = "fresh"]
      BY <1>1, <2>1
    <3> QED
      BY <1>0, <2>1, <3>1, MarkedIsJob
  <2>2. CASE j \notin S
    BY <1>1, <2>2 DEF Keeps
  <2> QED
    BY <2>1, <2>2
<1>3. Entries(j, e)
  BY <1>0, <1>2 DEF Entries, Keeps, Tidy, HasTime
<1>4. ASSUME NEW d \in Causes, Live(d, j)'
      PROVE  (Live(d, j) \/ Taken(d, j, e)) /\ (mem'[j].present => mem'[j].marker # "no")
  <2>1. Live(d, j) \/ Taken(d, j, e)
    BY <1>4 DEF Live, Taken, e
  <2>2. mem'[j].present => mem'[j].marker # "no"
    <3>1. CASE j \in S
      BY <3>1, <1>2
    <3>2. CASE j \notin S
      <4>1. run[d][j] # "no"
        BY <3>2, <1>4 DEF Live
      <4>2. Live(d, j)
        BY <4>1, <1>4 DEF Live
      <4> QED
        BY <4>2, <3>2, <1>0, <1>2 DEF Keeps
    <3> QED
      BY <3>1, <3>2
  <2> QED
    BY <2>1, <2>2
<1>5. Runs(j, e)
  BY <1>4 DEF Runs
<1>6. Agrees(j, e)
  BY <1>2 DEF Agrees, Keeps
<1> QED
  BY <1>3, <1>5, <1>6, UnnotedKeeps, DerivesKeepsGood DEF Derives

-----------------------------------------------------------------------------
(* start.                                                                  *)

LEMMA StartClearsKeeps ==
    ASSUME IndInv, NEW ok \in BOOLEAN, StartClears(ok)
    PROVE  IndInv'
<1> DEFINE store == [j \in Jobs |-> [disk[j] EXCEPT !.marker = "no"]]
<1>0. TypeOK /\ Staged /\ phase = "new" /\ run = Idle
  BY DEF IndInv, StartClears, Staged
<1>1. ASSUME NEW j \in Jobs
      PROVE  store[j] \in Job /\ Keeps(disk[j], store[j]) /\ store[j].next = disk[j].next
  BY <1>0, MarkedIsJob DEF TypeOK
<1>2. store \in [Jobs -> Job] /\ Save(store, ok)
  BY <1>1 DEF StartClears
<1> HIDE DEF store
<1>3. /\ mem' = store
      /\ mem' \in [Jobs -> Job] /\ disk' \in [Jobs -> Job]
      /\ faults' \in 0 .. MaxFaults
      /\ \A j \in Jobs : disk'[j] \in {disk[j], mem'[j]}
  BY <1>0, <1>2, SaveTypes
<1>4. TypeOK'
  BY <1>0, <1>3 DEF TypeOK, StartClears, history
<1>5. Staged'
  BY <1>0 DEF StartClears, Staged, Idle, Causes
<1>6. ASSUME NEW j \in Jobs
      PROVE  Good(j)'
  <2>0. Good(j)
    BY DEF IndInv
  <2>1. Entries(j, disk[j])
    BY <2>0, <1>1, <1>3 DEF Entries, Good, Timed, HasTime, Tidy, Keeps
  <2>2. Runs(j, disk[j])
    BY <1>0 DEF Runs, Live, Idle, StartClears
  <2>3. Unnoted(j)
    BY DEF Unnoted, StartClears, history
  <2>4. Agrees(j, disk[j])
    BY <1>1, <1>3 DEF Agrees, Keeps
  <2>5. Arms
    BY DEF Arms, StartClears
  <2> QED
    BY <2>0, <2>1, <2>2, <2>3, <2>4, <2>5, <1>0, <1>4, UnnotedKeeps, DerivesKeepsGood DEF Derives
<1> QED
  BY <1>4, <1>5, <1>6 DEF IndInv

LEMMA StartTakesMissedKeeps ==
    ASSUME IndInv, NEW ok \in BOOLEAN, StartTakesMissed(ok)
    PROVE  IndInv'
<1>0. TypeOK /\ Staged /\ phase = "cleared" /\ \A j \in Jobs : Good(j)
  BY DEF IndInv, StartTakesMissed
<1>1. ASSUME NEW j \in Jobs
      PROVE  Unnoted(j) /\ lifted' = lifted /\ timer' = timer /\ tick' = tick
  BY DEF Unnoted, StartTakesMissed, history
<1>2. CASE Missed = {}
  <2>1. phase' = "finish" /\ disk' = disk /\ mem' = mem /\ faults' = faults /\ run' = run
    BY <1>2 DEF StartTakesMissed, stores
  <2>2. TypeOK'
    BY <1>0, <2>1 DEF TypeOK, StartTakesMissed, history
  <2>3. Staged'
    BY <1>0, <2>1 DEF StartTakesMissed, Staged
  <2>4. Arms
    BY <2>1 DEF Arms
  <2>5. ASSUME NEW j \in Jobs
        PROVE  Good(j)'
    BY <1>0, <1>1, <2>1, <2>2, <2>4, QuietKeeps
  <2> QED
    BY <2>2, <2>3, <2>5 DEF IndInv
<1>3. CASE Missed # {}
  <2>1. Save(Marked(mem, Missed), ok)
    BY <1>3 DEF StartTakesMissed
  <2>2. mem \in [Jobs -> Job] /\ Marked(mem, Missed) \in [Jobs -> Job]
    BY <1>0, StoreTypes DEF TypeOK
  <2>3. /\ mem' = Marked(mem, Missed)
        /\ mem' \in [Jobs -> Job] /\ disk' \in [Jobs -> Job]
        /\ faults' \in 0 .. MaxFaults
        /\ ok => disk' = mem'
        /\ \A j \in Jobs : disk'[j] \in {disk[j], mem'[j]}
    BY <1>0, <2>1, <2>2, SaveTypes
  <2>4. /\ phase' = IF ok THEN "catchup" ELSE "failed"
        /\ run' = IF ok THEN [run EXCEPT !["catchup"] =
                                     [j \in Jobs |-> IF j \in Missed THEN "queued" ELSE "no"]]
                        ELSE run
    BY <1>3 DEF StartTakesMissed
  <2>5. run \in [Causes -> [Jobs -> Stages]] /\ run' \in [Causes -> [Jobs -> Stages]]
    BY <1>0, <2>4 DEF TypeOK, Stages, Causes
  <2>6. TypeOK'
    BY <1>0, <2>3, <2>4, <2>5 DEF TypeOK, StartTakesMissed, history
  <2>7. Staged'
    BY <1>0, <2>4, <2>5 DEF StartTakesMissed, Staged, Causes
  <2>8. Arms
    BY <2>4 DEF Arms
  <2>9. ASSUME NEW j \in Jobs
        PROVE  Good(j)'
    <3>1. \A d \in Causes : d # "catchup" => run'[d][j] = run[d][j]
      BY <2>4, <2>5
    <3>2. run'["catchup"][j] # "no" =>
              run["catchup"][j] # "no" \/ (ok /\ j \in Missed)
      BY <2>4, <2>5 DEF Causes
    <3>3. j \in Missed => mem[j].present /\ mem[j].marker = "no" /\ mem[j].enabled
      BY DEF Missed, Runnable
    <3> QED
      BY <1>0, <1>1, <2>3, <2>6, <2>8, <3>1, <3>2, <3>3, MarkKeeps DEF Causes
  <2> QED
    BY <2>6, <2>7, <2>9 DEF IndInv
<1> QED
  BY <1>2, <1>3

LEMMA CatchupStartsKeeps ==
    ASSUME IndInv, NEW i \in Jobs, CatchupStarts(i)
    PROVE  IndInv'
<1>0. TypeOK /\ Staged /\ \A j \in Jobs : Good(j)
  BY DEF IndInv
<1>1. run \in [Causes -> [Jobs -> Stages]] /\ run["catchup"][i] = "queued"
      /\ run' = [run EXCEPT !["catchup"][i] = "running"]
  BY <1>0 DEF TypeOK, CatchupStarts
<1>2. run' \in [Causes -> [Jobs -> Stages]]
      /\ \A c \in Causes, j \in Jobs : run'[c][j] # "no" <=> run[c][j] # "no"
  BY <1>1 DEF Stages, Causes
<1>3. TypeOK'
  BY <1>0, <1>2 DEF TypeOK, CatchupStarts, stores, sched, history
<1>4. phase # "new" /\ phase = "catchup"
  BY <1>0, <1>1 DEF Staged, Idle, Causes
<1>5. Staged'
  BY <1>0, <1>1, <1>2, <1>4 DEF Staged, CatchupStarts, sched, Causes
<1>6. ASSUME NEW j \in Jobs
      PROVE  Good(j)'
  <2>1. /\ disk' = disk /\ mem' = mem /\ lifted' = lifted /\ phase' = phase
        /\ Unnoted(j) /\ Arms
    BY <1>4 DEF CatchupStarts, stores, sched, history, Unnoted, Arms
  <2> QED
    BY <1>0, <1>2, <1>3, <2>1, QuietKeeps
<1> QED
  BY <1>3, <1>5, <1>6 DEF IndInv

\* The results of a tick or of the catch-up.
LEMMA AppliesKeeps ==
    ASSUME TypeOK, TypeOK', NEW j \in Jobs, Good(j), NEW c \in {"tick", "catchup"},
           NEW ok \in BOOLEAN, run[c][j] \in Outcomes \cup {"no"},
           mem' = Applied(disk, c), disk'[j] \in {disk[j], mem'[j]}, ok => disk' = mem',
           Lift(RunsOf(c), Unmarked(disk)), Settle(c, ok),
           created' = created, unsaved' = unsaved, wish' = wish,
           phase' # "new" => phase # "new", Arms
    PROVE  Good(j)'
<1>0. /\ disk \in [Jobs -> Job] /\ disk[j] \in Job /\ c \in Causes /\ Alone(j) /\ Tidy(disk[j])
      /\ run \in [Causes -> [Jobs -> Stages]] /\ RunsOf(c) \subseteq Unsettled
      /\ disk[j].present \in BOOLEAN /\ fired \in [Jobs -> Nat]
  BY DEF Good, Timed, TypeOK, Causes, RunsOf, Job
<1>1. /\ run' = [run EXCEPT ![c] = [i \in Jobs |-> "no"]]
      /\ fired'[j] = IF ok /\ run[c][j] \in Outcomes /\ <<c, j>> \notin lifted
                     THEN fired[j] + 1 ELSE fired[j]
  BY <1>0 DEF Settle
<1>2. ASSUME NEW d \in Causes, run'[d][j] # "no"
      PROVE  d # c /\ run[d][j] # "no" /\ <<d, j>> \notin RunsOf(c)
  BY <1>0, <1>1, <1>2 DEF RunsOf
<1>3. Wishes(j)
  BY DEF Wishes
<1>4. CASE run[c][j] \in Outcomes
  <2>1. ASSUME NEW d \in Causes
        PROVE  ~Live(d, j)'
    <3>1. <<c, j>> \in RunsOf(c)
      BY <1>0, <1>4 DEF RunsOf, Unsettled, Outcomes
    <3> QED
      BY <3>1, <1>0, <1>2, LiftLive
  <2>2. \/ Resulted(j, disk[j], mem'[j])
        \/ Walked(j, disk[j], mem'[j]) /\ ~disk[j].present
    BY <1>0, <1>4, AppliedResults
  <2>3. Entries(j, disk[j]) /\ (j \in OneShot => ~mem'[j].enabled)
    BY <1>0, <2>2 DEF Entries, Resulted, Walked, Keeps, Tidy
  <2>4. Agrees(j, disk[j])
    BY <2>2 DEF Agrees, Resulted, Walked, Keeps
  <2>5. Runs(j, disk[j])
    BY <2>1 DEF Runs
  <2>6. Fires(j)
    <3>1. CASE ok /\ <<c, j>> \notin lifted
      <4>1. Live("tick", j) \/ Live("catchup", j)
        BY <3>1, <1>4 DEF Live, Outcomes
      <4> QED
        BY <3>1, <4>1, <1>1, <1>4, <2>1, <2>3 DEF Fires
    <3>2. CASE ~(ok /\ <<c, j>> \notin lifted)
      BY <3>2, <1>1 DEF Fires
    <3> QED
      BY <3>1, <3>2
  <2> QED
    BY <1>3, <2>3, <2>4, <2>5, <2>6, DerivesKeepsGood DEF Derives
<1>5. CASE run[c][j] \notin Outcomes
  <2>1. Walked(j, disk[j], mem'[j])
    BY <1>0, <1>5, AppliedResults
  <2>2. Entries(j, disk[j]) /\ Runs(j, disk[j])
    BY <2>1, <1>0, <1>2, WalkedDerives
  <2>3. Agrees(j, disk[j])
    BY <2>1 DEF Agrees, Walked, Keeps
  <2>4. Fires(j)
    BY <1>1, <1>5 DEF Fires
  <2> QED
    BY <1>3, <2>2, <2>3, <2>4, DerivesKeepsGood DEF Derives
<1> QED
  BY <1>4, <1>5

LEMMA SettleTypes ==
    ASSUME TypeOK, NEW c \in Causes, NEW ok \in BOOLEAN, Settle(c, ok)
    PROVE  /\ run' \in [Causes -> [Jobs -> Stages]]
           /\ fired' \in [Jobs -> Nat]
           /\ \A j \in Jobs : run'[c][j] = "no"
           /\ \A d \in Causes : d # c => run'[d] = run[d]
<1>1. run \in [Causes -> [Jobs -> Stages]] /\ [j \in Jobs |-> "no"] \in [Jobs -> Stages]
  BY DEF TypeOK, Stages
<1>2. fired' \in [Jobs -> Nat]
  BY DEF Settle, TypeOK
<1> QED
  BY <1>1, <1>2 DEF Settle

LEMMA CatchupAppliesKeeps ==
    ASSUME IndInv, NEW ok \in BOOLEAN, CatchupApplies(ok)
    PROVE  IndInv'
<1>0. TypeOK /\ Staged /\ phase = "catchup" /\ "catchup" \in Causes
  BY DEF IndInv, CatchupApplies, Causes
<1>1. disk \in [Jobs -> Job] /\ Applied(disk, "catchup") \in [Jobs -> Job]
  BY <1>0, StoreTypes DEF TypeOK
<1>2. /\ mem' = Applied(disk, "catchup")
      /\ mem' \in [Jobs -> Job] /\ disk' \in [Jobs -> Job]
      /\ faults' \in 0 .. MaxFaults
      /\ ok => disk' = mem'
      /\ \A j \in Jobs : disk'[j] \in {disk[j], mem'[j]}
  BY <1>0, <1>1, SaveTypes DEF CatchupApplies
<1>3. Lift(RunsOf("catchup"), Unmarked(disk)) /\ Settle("catchup", ok)
  BY DEF CatchupApplies
<1>4. lifted' \subseteq Causes \X Jobs
  BY <1>0, <1>3, LiftType
<1>5. /\ run' \in [Causes -> [Jobs -> Stages]]
      /\ fired' \in [Jobs -> Nat]
      /\ \A j \in Jobs : run'["catchup"][j] = "no"
      /\ \A d \in Causes : d # "catchup" => run'[d] = run[d]
  BY <1>0, <1>3, SettleTypes
<1>6. TypeOK'
  BY <1>0, <1>2, <1>4, <1>5 DEF TypeOK, CatchupApplies
<1>7. Staged'
  BY <1>0, <1>5 DEF Staged, CatchupApplies, Causes
<1>8. Arms
  BY DEF Arms, CatchupApplies
<1>9. ASSUME NEW j \in Jobs
      PROVE  Good(j)'
  <2>1. Good(j) /\ run["catchup"][j] \in Outcomes \cup {"no"}
    BY DEF IndInv, CatchupApplies
  <2> QED
    BY <1>0, <1>2, <1>3, <1>6, <1>8, <2>1, AppliesKeeps DEF CatchupApplies
<1> QED
  BY <1>6, <1>7, <1>9 DEF IndInv

LEMMA StartFinishesKeeps ==
    ASSUME IndInv, NEW ok \in BOOLEAN, StartFinishes(ok)
    PROVE  IndInv'
<1>0. TypeOK /\ Staged /\ phase = "finish"
  BY DEF IndInv, StartFinishes
<1>1. disk \in [Jobs -> Job] /\ Recomputed(disk) \in [Jobs -> Job]
  BY <1>0, StoreTypes DEF TypeOK
<1>2. /\ mem' = Recomputed(disk)
      /\ mem' \in [Jobs -> Job] /\ disk' \in [Jobs -> Job]
      /\ faults' \in 0 .. MaxFaults
      /\ \A j \in Jobs : disk'[j] \in {disk[j], mem'[j]}
  BY <1>0, <1>1, SaveTypes DEF StartFinishes
<1>3. Lift({}, Unmarked(disk)) /\ ArmTimer(mem', ok) /\ run' = run
  BY DEF StartFinishes
<1>4. lifted' \subseteq Causes \X Jobs
  BY <1>0, <1>3, LiftType
<1>5. timer' \in BOOLEAN
  BY <1>0, <1>1, <1>2, <1>3, ArmedType DEF ArmTimer, TypeOK
<1>6. TypeOK'
  BY <1>0, <1>2, <1>4, <1>5 DEF TypeOK, StartFinishes
<1>7. Staged'
  BY <1>0 DEF Staged, StartFinishes
<1>8. Arms
  BY <1>3 DEF Arms, StartFinishes, ArmTimer
<1>9. ASSUME NEW j \in Jobs
      PROVE  Good(j)'
  <2>0. Good(j)
    BY DEF IndInv
  <2>1. Walked(j, disk[j], mem'[j])
    BY <1>0, <1>1, <1>2, RecomputedWalks
  <2>2. Entries(j, disk[j]) /\ Runs(j, disk[j])
    BY <2>0, <2>1, <1>0, <1>2, <1>3, <1>6, WalkedDerives
  <2>3. Agrees(j, disk[j])
    BY <2>1 DEF Agrees, Walked, Keeps
  <2>4. Unnoted(j)
    BY DEF Unnoted, StartFinishes
  <2> QED
    BY <2>0, <2>2, <2>3, <2>4, <1>0, <1>6, <1>8, UnnotedKeeps, DerivesKeepsGood DEF Derives
<1> QED
  BY <1>6, <1>7, <1>9 DEF IndInv

-----------------------------------------------------------------------------
(* onTimer.                                                                *)

LEMMA TimerFiresKeeps ==
    ASSUME IndInv, TimerFires
    PROVE  IndInv'
<1>0. TypeOK /\ Staged /\ \A j \in Jobs : Good(j)
  BY DEF IndInv
<1>1. TypeOK'
  BY <1>0 DEF TypeOK, TimerFires, stores, history
<1>2. Staged'
  BY <1>0 DEF Staged, TimerFires
<1>3. ASSUME NEW j \in Jobs
      PROVE  Good(j)'
  <2>1. /\ disk' = disk /\ mem' = mem /\ lifted' = lifted /\ phase' = phase /\ run' = run
        /\ Unnoted(j) /\ Arms
    BY DEF TimerFires, stores, history, Unnoted, Arms
  <2> QED
    BY <1>0, <1>1, <2>1, QuietKeeps
<1> QED
  BY <1>1, <1>2, <1>3 DEF IndInv

LEMMA TickTakesKeeps ==
    ASSUME IndInv, NEW ok \in BOOLEAN, TickTakes(ok)
    PROVE  IndInv'
<1>0. /\ TypeOK /\ Staged /\ tick = "wants" /\ \A j \in Jobs : Good(j)
      /\ disk \in [Jobs -> Job] /\ run \in [Causes -> [Jobs -> Stages]]
  BY DEF IndInv, TickTakes, TypeOK
<1>1. ASSUME NEW j \in Jobs
      PROVE  Unnoted(j)
  BY DEF Unnoted, TickTakes
<1>2. timer' = timer /\ phase' = phase /\ phase # "new" /\ tick' # "idle"
  BY <1>0 DEF TickTakes, Staged
<1>3. Arms
  BY <1>2 DEF Arms
<1>4. CASE DueJobs = {}
  <2>1. Save(Maintained(disk), ok) /\ Lift({}, Unmarked(disk)) /\ tick' = "closing"
        /\ attached' = attached /\ run' = run
    BY <1>4 DEF TickTakes
  <2>2. Maintained(disk) \in [Jobs -> Job]
    BY <1>0, StoreTypes
  <2>3. /\ mem' = Maintained(disk)
        /\ mem' \in [Jobs -> Job] /\ disk' \in [Jobs -> Job]
        /\ faults' \in 0 .. MaxFaults
        /\ \A j \in Jobs : disk'[j] \in {disk[j], mem'[j]}
    BY <1>0, <2>1, <2>2, SaveTypes
  <2>4. lifted' \subseteq Causes \X Jobs
    BY <1>0, <2>1, LiftType
  <2>5. TypeOK'
    BY <1>0, <2>1, <2>3, <2>4 DEF TypeOK, TickTakes
  <2>6. Staged'
    BY <1>0, <1>2, <2>1 DEF Staged
  <2>7. ASSUME NEW j \in Jobs
        PROVE  Good(j)'
    <3>1. Walked(j, disk[j], mem'[j])
      BY <1>0, <2>3, MaintainedWalks
    <3>2. Entries(j, disk[j]) /\ Runs(j, disk[j])
      BY <1>0, <2>1, <2>3, <2>5, <3>1, WalkedDerives
    <3>3. Agrees(j, disk[j])
      BY <3>1 DEF Agrees, Walked, Keeps
    <3> QED
      BY <1>0, <1>1, <1>3, <2>5, <3>2, <3>3, UnnotedKeeps, DerivesKeepsGood DEF Derives
  <2> QED
    BY <2>5, <2>6, <2>7 DEF IndInv
<1>5. CASE DueJobs # {}
  <2>1. /\ Save(Marked(disk, DueJobs), ok) /\ lifted' = lifted
        /\ tick' = IF ok THEN "runs" ELSE "closing"
        /\ run' = IF ok THEN [run EXCEPT !["tick"] =
                                 [j \in Jobs |-> IF j \in DueJobs THEN "queued" ELSE "no"]]
                        ELSE run
        /\ attached' = ok
    BY <1>5 DEF TickTakes
  <2>2. Marked(disk, DueJobs) \in [Jobs -> Job]
    BY <1>0, StoreTypes
  <2>3. /\ mem' = Marked(disk, DueJobs)
        /\ mem' \in [Jobs -> Job] /\ disk' \in [Jobs -> Job]
        /\ faults' \in 0 .. MaxFaults
        /\ ok => disk' = mem'
        /\ \A j \in Jobs : disk'[j] \in {disk[j], mem'[j]}
    BY <1>0, <2>1, <2>2, SaveTypes
  <2>4. run' \in [Causes -> [Jobs -> Stages]]
    BY <1>0, <2>1 DEF Stages, Causes
  <2>5. TypeOK'
    BY <1>0, <2>1, <2>3, <2>4 DEF TypeOK, TickTakes
  <2>6. Staged'
    BY <1>0, <1>2, <2>1, <2>4 DEF Staged, Causes
  <2>7. ASSUME NEW j \in Jobs
        PROVE  Good(j)'
    <3>1. \A d \in Causes : d # "tick" => run'[d][j] = run[d][j]
      BY <1>0, <2>1
    <3>2. run'["tick"][j] # "no" => run["tick"][j] # "no" \/ (ok /\ j \in DueJobs)
      BY <1>0, <2>1 DEF Causes
    <3>3. j \in DueJobs => disk[j].present /\ disk[j].marker = "no" /\ disk[j].enabled
      BY DEF DueJobs, Runnable
    <3> QED
      BY <1>0, <1>1, <1>2, <1>3, <2>1, <2>3, <2>5, <3>1, <3>2, <3>3, MarkKeeps DEF Causes
  <2> QED
    BY <2>5, <2>6, <2>7 DEF IndInv
<1> QED
  BY <1>4, <1>5

LEMMA TickStartsKeeps ==
    ASSUME IndInv, NEW i \in Jobs, TickStarts(i)
    PROVE  IndInv'
<1>0. /\ TypeOK /\ Staged /\ \A j \in Jobs : Good(j)
      /\ mem \in [Jobs -> Job] /\ run \in [Causes -> [Jobs -> Stages]]
  BY DEF IndInv, TypeOK
<1>1. run["tick"][i] = "queued" /\ run' = [run EXCEPT !["tick"][i] = "running"]
  BY DEF TickStarts
<1>2. run' \in [Causes -> [Jobs -> Stages]]
      /\ \A c \in Causes, j \in Jobs : run'[c][j] # "no" <=> run[c][j] # "no"
  BY <1>0, <1>1 DEF Stages, Causes
<1>3. PICK S \in SUBSET Jobs : mem' = Marked(mem, S)
  <2>1. CASE attached /\ mem[i].present
    BY <2>1 DEF TickStarts
  <2>2. CASE ~(attached /\ mem[i].present)
    <3>1. mem' = mem
      BY <2>2 DEF TickStarts
    <3>2. Marked(mem, {}) = mem
      BY <1>0 DEF Marked
    <3> QED
      BY <3>1, <3>2
  <2> QED
    BY <2>1, <2>2
<1>4. mem' \in [Jobs -> Job]
  BY <1>0, <1>3, StoreTypes
<1>5. TypeOK'
  BY <1>0, <1>2, <1>4 DEF TypeOK, TickStarts, sched, history
<1>6. phase # "new" /\ phase' = phase /\ tick' = tick /\ timer' = timer
  BY <1>0, <1>1 DEF Staged, Idle, Causes, TickStarts, sched
<1>7. Staged'
  BY <1>0, <1>1, <1>2, <1>6 DEF Staged, Causes
<1>8. ASSUME NEW j \in Jobs
      PROVE  Good(j)'
  <2>1. disk' = disk /\ lifted' = lifted /\ Unnoted(j) /\ Arms
    BY <1>6 DEF TickStarts, history, Unnoted, Arms, sched
  <2>2. \A d \in Causes : d # "tick" => run'[d][j] = run[d][j]
    BY <1>0, <1>1
  <2> QED
    BY <1>0, <1>2, <1>3, <1>5, <1>6, <2>1, <2>2, MarkKeeps DEF Causes
<1> QED
  BY <1>5, <1>7, <1>8 DEF IndInv

LEMMA RunEndsKeeps ==
    ASSUME IndInv, NEW c \in Causes, NEW i \in Jobs, RunEnds(c, i)
    PROVE  IndInv'
<1>0. /\ TypeOK /\ Staged /\ \A j \in Jobs : Good(j)
      /\ run \in [Causes -> [Jobs -> Stages]]
  BY DEF IndInv, TypeOK
<1>1. PICK outcome \in Outcomes :
         run[c][i] = "running" /\ run' = [run EXCEPT ![c][i] = outcome]
  BY DEF RunEnds
<1>2. run' \in [Causes -> [Jobs -> Stages]]
      /\ \A d \in Causes, j \in Jobs : run'[d][j] # "no" <=> run[d][j] # "no"
  BY <1>0, <1>1 DEF Stages, Outcomes
<1>3. TypeOK'
  BY <1>0, <1>2 DEF TypeOK, RunEnds, stores, sched, history
<1>4. phase # "new" /\ phase' = phase /\ tick' = tick /\ timer' = timer
  BY <1>0, <1>1 DEF Staged, Idle, RunEnds, sched
<1>5. Staged'
  BY <1>0, <1>2, <1>4 DEF Staged, Causes
<1>6. ASSUME NEW j \in Jobs
      PROVE  Good(j)'
  <2>1. /\ disk' = disk /\ mem' = mem /\ lifted' = lifted /\ Unnoted(j) /\ Arms
    BY <1>4 DEF RunEnds, stores, history, Unnoted, Arms
  <2> QED
    BY <1>0, <1>2, <1>3, <1>4, <2>1, QuietKeeps
<1> QED
  BY <1>3, <1>5, <1>6 DEF IndInv

LEMMA TickAppliesKeeps ==
    ASSUME IndInv, NEW ok \in BOOLEAN, TickApplies(ok)
    PROVE  IndInv'
<1>0. TypeOK /\ Staged /\ tick = "runs" /\ "tick" \in Causes
  BY DEF IndInv, TickApplies, Causes
<1>1. disk \in [Jobs -> Job] /\ Applied(disk, "tick") \in [Jobs -> Job]
  BY <1>0, StoreTypes DEF TypeOK
<1>2. /\ mem' = Applied(disk, "tick")
      /\ mem' \in [Jobs -> Job] /\ disk' \in [Jobs -> Job]
      /\ faults' \in 0 .. MaxFaults
      /\ ok => disk' = mem'
      /\ \A j \in Jobs : disk'[j] \in {disk[j], mem'[j]}
  BY <1>0, <1>1, SaveTypes DEF TickApplies
<1>3. Lift(RunsOf("tick"), Unmarked(disk)) /\ Settle("tick", ok)
  BY DEF TickApplies
<1>4. lifted' \subseteq Causes \X Jobs
  BY <1>0, <1>3, LiftType
<1>5. /\ run' \in [Causes -> [Jobs -> Stages]]
      /\ fired' \in [Jobs -> Nat]
      /\ \A j \in Jobs : run'["tick"][j] = "no"
      /\ \A d \in Causes : d # "tick" => run'[d] = run[d]
  BY <1>0, <1>3, SettleTypes
<1>6. TypeOK'
  BY <1>0, <1>2, <1>4, <1>5 DEF TypeOK, TickApplies
<1>7. /\ phase' = phase /\ timer' = timer /\ tick' = "closing" /\ phase # "new"
  BY <1>0 DEF Staged, TickApplies
<1>8. Staged'
  BY <1>0, <1>5, <1>7 DEF Staged, Causes
<1>9. Arms
  BY <1>7 DEF Arms
<1>10. ASSUME NEW j \in Jobs
       PROVE  Good(j)'
  <2>1. Good(j) /\ run["tick"][j] \in Outcomes \cup {"no"}
    BY DEF IndInv, TickApplies
  <2> QED
    BY <1>0, <1>2, <1>3, <1>6, <1>7, <1>9, <2>1, AppliesKeeps DEF TickApplies
<1> QED
  BY <1>6, <1>8, <1>10 DEF IndInv

LEMMA TickEndsKeeps ==
    ASSUME IndInv, TickEnds
    PROVE  IndInv'
<1>0. TypeOK /\ Staged /\ tick = "closing" /\ \A j \in Jobs : Good(j)
  BY DEF IndInv, TickEnds
<1>1. timer' \in BOOLEAN
  BY <1>0, ArmedType DEF TypeOK, TickEnds
<1>2. TypeOK'
  BY <1>0, <1>1 DEF TypeOK, TickEnds, stores, history
<1>3. Staged'
  BY <1>0 DEF Staged, TickEnds
<1>4. ASSUME NEW j \in Jobs
      PROVE  Good(j)'
  <2>1. /\ disk' = disk /\ mem' = mem /\ lifted' = lifted /\ phase' = phase /\ run' = run
        /\ Unnoted(j)
    BY DEF TickEnds, stores, history, Unnoted
  <2>2. Arms
    BY <2>1 DEF TickEnds, Arms, ArmedFor
  <2> QED
    BY <1>0, <1>2, <2>1, <2>2, QuietKeeps
<1> QED
  BY <1>2, <1>3, <1>4 DEF IndInv

-----------------------------------------------------------------------------
(* Requests.                                                               *)

LEMMA ManualTakesKeeps ==
    ASSUME IndInv, NEW i \in Jobs, NEW forced \in BOOLEAN, NEW ok \in BOOLEAN,
           ManualTakes(i, forced, ok)
    PROVE  IndInv'
<1>0. /\ TypeOK /\ Staged /\ phase # "new" /\ \A j \in Jobs : Good(j)
      /\ mem \in [Jobs -> Job] /\ run \in [Causes -> [Jobs -> Stages]]
  BY DEF IndInv, TypeOK, ManualTakes, Serves
<1>1. /\ mem[i].present /\ mem[i].marker = "no"
      /\ Save(Marked(mem, {i}), ok)
      /\ run' = IF ok THEN [run EXCEPT !["manual"][i] = "running"] ELSE run
  BY DEF ManualTakes
<1>2. Marked(mem, {i}) \in [Jobs -> Job]
  BY <1>0, StoreTypes
<1>3. /\ mem' = Marked(mem, {i})
      /\ mem' \in [Jobs -> Job] /\ disk' \in [Jobs -> Job]
      /\ faults' \in 0 .. MaxFaults
      /\ ok => disk' = mem'
      /\ \A j \in Jobs : disk'[j] \in {disk[j], mem'[j]}
  BY <1>0, <1>1, <1>2, SaveTypes
<1>4. /\ run' \in [Causes -> [Jobs -> Stages]]
      /\ \A c \in Causes : c # "manual" => run'[c] = run[c]
      /\ \A j \in Jobs : run'["manual"][j] # "no" => run["manual"][j] # "no" \/ (ok /\ j = i)
  BY <1>0, <1>1 DEF Stages, Causes
<1>5. TypeOK'
  BY <1>0, <1>3, <1>4 DEF TypeOK, ManualTakes, sched, history
<1>6. /\ phase' = phase /\ timer' = timer /\ tick' = tick /\ lifted' = lifted
      /\ \A j \in Jobs : Unnoted(j)
  BY DEF ManualTakes, sched, history, Unnoted
<1>7. Staged' /\ Arms
  BY <1>0, <1>4, <1>6 DEF Staged, Arms, Causes
<1>8. ASSUME NEW j \in Jobs
      PROVE  Good(j)'
  BY <1>0, <1>1, <1>3, <1>4, <1>5, <1>6, <1>7, MarkKeeps DEF Causes
<1> QED
  BY <1>5, <1>7, <1>8 DEF IndInv

\* What a manual run leaves of its job: the entry comes from the file when the
\* job is not in it any more, and else from memory.
LEMMA MergedDerives ==
    ASSUME TypeOK, NEW j \in Jobs, mem[j].present, NEW outcome \in Outcomes,
           NEW f, Walked(j, Merged(j, AfterRun(j, mem[j], outcome), disk[j]), f),
           Tidy(disk[j]), Tidy(mem[j])
    PROVE  \E e \in {disk[j], mem[j]} :
               /\ f.present => e.present
               /\ f.enabled => e.enabled
               /\ HasTime(j, f) /\ Tidy(f)
               /\ j \notin OneShot => f.present = e.present /\ f.enabled = e.enabled
<1> DEFINE s == AfterRun(j, mem[j], outcome)
           m == Merged(j, s, disk[j])
<1>1. mem[j] \in Job /\ disk[j] \in Job
  BY DEF TypeOK
<1>2. Resulted(j, mem[j], s)
  BY <1>1, AfterRunResults
<1>3. s \in Job
  BY <1>2 DEF Resulted
<1>4. Walked(j, m, f)
  OBVIOUS
<1> HIDE DEF s
<1>5. /\ disk[j].present /\ s.present => m.present /\ m.enabled = s.enabled
      /\ s.present /\ ~disk[j].present => m = disk[j]
      /\ ~s.present => m = Gone
  BY <1>3, MergedResults
<1> HIDE DEF m
<1>6. /\ f.present = m.present /\ f.enabled = m.enabled /\ HasTime(j, f)
  BY <1>4 DEF Walked, Keeps
<1>7. /\ s.present => mem[j].present
      /\ s.enabled => mem[j].enabled
      /\ j \notin OneShot => s.present = mem[j].present /\ s.enabled = mem[j].enabled
      /\ Tidy(s)
      /\ s.present \in BOOLEAN /\ s.enabled \in BOOLEAN
      /\ disk[j].present \in BOOLEAN /\ mem[j].present \in BOOLEAN
  BY <1>1, <1>2, <1>3 DEF Resulted, Job
<1>8. CASE ~s.present
  <2>1. ~f.present /\ ~f.enabled /\ j \in OneShot
    BY <1>5, <1>6, <1>7, <1>8, GoneIsJob
  <2> QED
    BY <2>1, <1>6 DEF Tidy
<1>9. CASE s.present /\ ~disk[j].present
  <2>1. f.present = disk[j].present /\ f.enabled = disk[j].enabled
    BY <1>5, <1>6, <1>9
  <2> QED
    BY <2>1, <1>6 DEF Tidy
<1>10. CASE s.present /\ disk[j].present
  <2>1. f.present /\ mem[j].present /\ f.enabled = s.enabled
    BY <1>5, <1>6, <1>7, <1>10
  <2> QED
    BY <2>1, <1>6, <1>7 DEF Tidy
<1> QED
  BY <1>7, <1>8, <1>9, <1>10

LEMMA ManualAppliesKeeps ==
    ASSUME IndInv, NEW i \in Jobs, NEW ok \in BOOLEAN, ManualApplies(i, ok)
    PROVE  IndInv'
<1>0. /\ TypeOK /\ Staged /\ \A j \in Jobs : Good(j)
      /\ disk \in [Jobs -> Job] /\ mem \in [Jobs -> Job] /\ run \in [Causes -> [Jobs -> Stages]]
  BY DEF IndInv, TypeOK
<1>1. run["manual"][i] \in Outcomes /\ run' = [run EXCEPT !["manual"][i] = "no"]
  BY DEF ManualApplies
<1>2. run' \in [Causes -> [Jobs -> Stages]]
      /\ \A c \in Causes : c # "manual" => run'[c] = run[c]
  BY <1>0, <1>1 DEF Stages
<1>3. phase # "new" /\ phase' = phase /\ tick' = tick
  BY <1>0, <1>1 DEF Staged, Idle, Causes, Outcomes, ManualApplies
<1>4. Staged'
  BY <1>0, <1>2, <1>3 DEF Staged, Causes
<1>5. \A j \in Jobs : Unnoted(j)
  BY DEF ManualApplies, Unnoted
<1> DEFINE S == {<<"manual", i>>}
<1>6. S \subseteq Unsettled
  BY <1>1 DEF Unsettled, Causes, Outcomes
<1>7. ASSUME NEW j \in Jobs, NEW c \in Causes, run'[c][j] # "no"
      PROVE  run[c][j] # "no" /\ <<c, j>> \notin S
  BY <1>0, <1>1, <1>7
<1> HIDE DEF S
<1>8. CASE ~mem[i].present
  <2>1. Lift(S, {}) /\ disk' = disk /\ mem' = mem /\ faults' = faults /\ timer' = timer
        /\ attached' = attached
    BY <1>8 DEF ManualApplies, stores, S
  <2>2. lifted' \subseteq Causes \X Jobs
    BY <1>0, <2>1, LiftType
  <2>3. TypeOK'
    BY <1>0, <1>2, <2>1, <2>2 DEF TypeOK, ManualApplies
  <2>4. Arms
    BY <1>3, <2>1 DEF Arms
  <2>5. ASSUME NEW j \in Jobs
        PROVE  Good(j)'
    <3>1. Alone(j) /\ Guarded(j) /\ Timed(j)
      BY <1>0 DEF Good
    <3>2. \A c \in Causes : Live(c, j)' => Live(c, j)
      BY <1>0, <1>6, <1>7, <2>1, <3>1, LiftLive
    <3>3. Runs(j, mem[j])
      BY <2>1, <3>1, <3>2 DEF Runs, Guarded
    <3>4. Entries(j, mem[j]) /\ Agrees(j, mem[j])
      BY <1>3, <2>1, <3>1 DEF Entries, Agrees, Timed
    <3> QED
      BY <1>0, <1>5, <2>3, <2>4, <3>3, <3>4, UnnotedKeeps, DerivesKeepsGood DEF Derives
  <2> QED
    BY <1>4, <2>3, <2>5 DEF IndInv
<1>9. CASE mem[i].present
  <2> DEFINE snapshot == AfterRun(i, mem[i], run["manual"][i])
             merged == [disk EXCEPT ![i] = Merged(i, snapshot, disk[i])]
  <2>1. /\ Save(Maintained(merged), ok) /\ Lift(S, Unmarked(merged))
        /\ ArmTimer(mem', ok) /\ attached' = FALSE
    BY <1>9 DEF ManualApplies, S
  <2>2. snapshot \in Job
    BY <1>0, <1>1, AfterRunResults DEF Resulted
  <2>3. Merged(i, snapshot, disk[i]) \in Job
    BY <1>0, <2>2, MergedResults
  <2>4. merged \in [Jobs -> Job] /\ merged[i] = Merged(i, snapshot, disk[i])
        /\ \A j \in Jobs : j # i => merged[j] = disk[j]
    BY <1>0, <2>3
  <2> HIDE DEF merged, snapshot
  <2>5. Maintained(merged) \in [Jobs -> Job]
    BY <1>0, <2>4, StoreTypes
  <2>6. /\ mem' = Maintained(merged)
        /\ mem' \in [Jobs -> Job] /\ disk' \in [Jobs -> Job]
        /\ faults' \in 0 .. MaxFaults
        /\ \A j \in Jobs : disk'[j] \in {disk[j], mem'[j]}
    BY <1>0, <2>1, <2>5, SaveTypes
  <2>7. lifted' \subseteq Causes \X Jobs
    BY <1>0, <2>1, LiftType
  <2>8. timer' \in BOOLEAN /\ Arms
    BY <1>0, <1>3, <2>1, <2>6, ArmedType DEF ArmTimer, TypeOK, Arms
  <2>9. TypeOK'
    BY <1>0, <1>2, <2>1, <2>6, <2>7, <2>8 DEF TypeOK, ManualApplies
  <2>10. ASSUME NEW j \in Jobs
         PROVE  Good(j)'
    <3>1. Walked(j, merged[j], mem'[j])
      BY <1>0, <2>4, <2>6, MaintainedWalks
    <3>2. Good(j) /\ Alone(j) /\ Guarded(j) /\ Tidy(disk[j]) /\ Tidy(mem[j])
      BY <1>0 DEF Good, Timed
    <3>3. ASSUME NEW c \in Causes, Live(c, j)'
          PROVE  Live(c, j) /\ j \notin Unmarked(merged) /\ <<"manual", j>> \notin S
      <4>1. Live(c, j) /\ j \notin Unmarked(merged) /\ \A d \in Causes : <<d, j>> \notin S
        BY <1>0, <1>6, <1>7, <2>1, <3>2, <3>3, LiftLive
      <4> QED
        BY <4>1 DEF Causes
    <3>4. CASE j = i
      <4>1. PICK e \in {disk[j], mem[j]} :
               /\ mem'[j].present => e.present
               /\ mem'[j].enabled => e.enabled
               /\ HasTime(j, mem'[j]) /\ Tidy(mem'[j])
               /\ j \notin OneShot => mem'[j].present = e.present /\ mem'[j].enabled = e.enabled
        BY <1>0, <1>1, <1>9, <2>4, <3>1, <3>2, <3>4, MergedDerives DEF snapshot
      <4>2. Entries(j, e) /\ Agrees(j, e)
        BY <1>3, <2>6, <4>1 DEF Entries, Agrees
      <4>3. Runs(j, e)
        BY <3>3, <3>4 DEF Runs, S
      <4> QED
        BY <1>0, <1>5, <2>8, <2>9, <4>2, <4>3, UnnotedKeeps, DerivesKeepsGood DEF Derives
    <3>5. CASE j # i
      <4>1. Walked(j, disk[j], mem'[j])
        BY <2>4, <3>1, <3>5
      <4>2. Entries(j, disk[j]) /\ Agrees(j, disk[j])
        BY <2>6, <3>2, <4>1 DEF Entries, Agrees, Walked, Keeps, Tidy
      <4>3. ASSUME NEW c \in Causes, Live(c, j)'
            PROVE  Live(c, j) /\ (mem'[j].present => mem'[j].marker # "no")
        <5>1. Live(c, j) /\ disk[j].enabled /\ disk[j].marker # "stuck"
          BY <2>4, <3>3, <3>5, <4>3 DEF Unmarked
        <5> QED
          BY <5>1, <3>2, <4>1 DEF Guarded, Walked, Keeps
      <4>4. Runs(j, disk[j])
        BY <4>3 DEF Runs
      <4> QED
        BY <1>0, <1>5, <2>8, <2>9, <4>2, <4>4, UnnotedKeeps, DerivesKeepsGood DEF Derives
    <3> QED
      BY <3>4, <3>5
  <2> QED
    BY <1>4, <2>9, <2>10 DEF IndInv
<1> QED
  BY <1>8, <1>9

\* A patch sets a job on or off, or moves the time of a one-shot.
LEMMA PatchResults ==
    ASSUME TypeOK, NEW i \in Jobs, NEW kind \in EditKinds
    PROVE  /\ Patched(i, kind) \in Job
           /\ Patched(i, kind).present = mem[i].present
           /\ Patched(i, kind).marker = mem[i].marker
           /\ kind = "enable" => Patched(i, kind).enabled
           /\ kind = "disable" => ~Patched(i, kind).enabled
           /\ kind # "enable" /\ kind # "disable" => Patched(i, kind).enabled = mem[i].enabled
           /\ kind = "other" => Patched(i, kind) = mem[i]
<1> DEFINE e == Patched(i, kind)
<1>0. mem[i] \in Job /\ passed[i] + 1 \in Slots
  BY CronBoundsAssumption DEF TypeOK, Slots
<1>1. CASE kind = "enable"
  <2>1. e = [mem[i] EXCEPT !.enabled = TRUE]
    BY <1>1 DEF Patched
  <2> QED
    BY <1>1, <2>1, <1>0 DEF Job
<1>2. CASE kind = "disable"
  <2>1. e = [mem[i] EXCEPT !.enabled = FALSE]
    BY <1>2 DEF Patched
  <2> QED
    BY <1>2, <2>1, <1>0 DEF Job
<1>3. CASE kind = "reschedule" /\ i \in OneShot
  <2>1. e = [mem[i] EXCEPT !.at = passed[i] + 1]
    BY <1>3 DEF Patched
  <2> QED
    BY <1>3, <2>1, <1>0 DEF Job
<1>4. CASE kind = "other" \/ (kind = "reschedule" /\ i \notin OneShot)
  <2>1. e = mem[i]
    BY <1>4 DEF Patched
  <2> QED
    BY <1>4, <2>1, <1>0 DEF Job
<1> QED
  BY <1>1, <1>2, <1>3, <1>4 DEF EditKinds

\* An edit that is refused half done: its job counts as unsaved from now on.
LEMMA UpdateRejectedKeeps ==
    ASSUME IndInv, NEW i \in Jobs, NEW kind \in EditKinds, UpdateRejected(i, kind)
    PROVE  IndInv'
<1> DEFINE f == Patched(i, kind)
<1>0. /\ TypeOK /\ Staged /\ \A j \in Jobs : Good(j)
      /\ mem \in [Jobs -> Job] /\ mem[i].present
      /\ wish \in [Jobs -> {"none", "off", "gone"}] /\ fired \in [Jobs -> Nat]
      /\ edits \in [Jobs -> 0 .. MaxEdits] /\ edits[i] < MaxEdits /\ unsaved \subseteq Jobs
  BY DEF IndInv, TypeOK, UpdateRejected
<1>1. /\ mem' = [mem EXCEPT ![i] = f]
      /\ edits' = [edits EXCEPT ![i] = edits[i] + 1]
      /\ fired' = [fired EXCEPT ![i] = 0]
      /\ wish' = IF kind = "enable" THEN [wish EXCEPT ![i] = "none"] ELSE wish
      /\ unsaved' = unsaved \cup {i}
      /\ UNCHANGED <<disk, faults, sched, run, passed, created, lifted>>
  BY DEF UpdateRejected
<1>2. /\ f \in Job /\ f.present /\ f.marker = mem[i].marker
      /\ kind # "enable" => ~f.enabled \/ f.enabled = mem[i].enabled
  BY <1>0, PatchResults
<1> HIDE DEF f
<1>3. TypeOK'
  <2>1. edits[i] + 1 \in 0 .. MaxEdits
    BY <1>0, CronBoundsAssumption
  <2>2. edits' \in [Jobs -> 0 .. MaxEdits] /\ mem' \in [Jobs -> Job]
    BY <1>0, <1>1, <1>2, <2>1
  <2>3. /\ fired' \in [Jobs -> Nat] /\ wish' \in [Jobs -> {"none", "off", "gone"}]
        /\ unsaved' \subseteq Jobs
    BY <1>0, <1>1
  <2> QED
    BY <1>0, <1>1, <2>2, <2>3 DEF TypeOK, sched
<1>4. Staged'
  BY <1>0, <1>1 DEF Staged, sched
<1>5. ASSUME NEW j \in Jobs
      PROVE  Good(j)'
  <2>0. /\ Alone(j) /\ Guarded(j) /\ Known(j) /\ Wished(j) /\ Once(j) /\ Timed(j)
        /\ Agreed(j) /\ Awake(j)
    BY <1>0 DEF Good
  <2>1. /\ UNCHANGED <<disk, timer, tick, phase, created>>
        /\ \A c \in Causes : Live(c, j)' <=> Live(c, j)
    BY <1>1 DEF sched, Live
  <2>2. j # i => mem'[j] = mem[j] /\ wish'[j] = wish[j] /\ fired'[j] = fired[j]
    BY <1>0, <1>1
  <2>3. j = i => mem'[j] = f /\ wish'[j] \in {wish[j], "none"} /\ fired'[j] = 0
                 /\ (kind = "enable" => wish'[j] = "none") /\ j \in unsaved'
    BY <1>0, <1>1
  <2>4. unsaved \subseteq unsaved' /\ mem'[j].present = mem[j].present
        /\ mem'[j].marker = mem[j].marker
    BY <1>0, <1>1, <1>2, <2>2, <2>3
  <2>5. Alone(j)' /\ Guarded(j)'
    BY <2>0, <2>1, <2>4 DEF Alone, Guarded
  <2>6. Known(j)'
    BY <1>0, <2>0, <2>1, <2>2, <2>3, <2>4 DEF Known
  <2>7. Wished(j)'
    BY <1>0, <1>2, <2>0, <2>1, <2>2, <2>3, <2>4 DEF Wished
  <2>8. Once(j)'
    BY <2>0, <2>1, <2>2, <2>3 DEF Once, Causes
  <2>9. Timed(j)'
    BY <1>2, <2>0, <2>1, <2>2, <2>3, <2>4 DEF Timed, HasTime, Tidy
  <2>10. Agreed(j)' /\ Awake(j)'
    BY <2>0, <2>1, <2>2, <2>3, <2>4 DEF Agreed, Awake
  <2> QED
    BY <2>5, <2>6, <2>7, <2>8, <2>9, <2>10 DEF Good
<1> QED
  BY <1>3, <1>4, <1>5 DEF IndInv

LEMMA UpdateKeeps ==
    ASSUME IndInv, NEW i \in Jobs, NEW kind \in EditKinds, NEW ok \in BOOLEAN,
           Update(i, kind, ok)
    PROVE  IndInv'
<1> DEFINE f == Edited(i, kind)
<1>0. /\ TypeOK /\ Staged /\ phase # "new" /\ \A j \in Jobs : Good(j)
      /\ mem \in [Jobs -> Job] /\ mem[i] \in Job /\ mem[i].present /\ passed \in [Jobs -> 0 .. MaxSlots]
      /\ wish \in [Jobs -> {"none", "off", "gone"}] /\ mem[i].next \in Nat /\ mem[i].enabled \in BOOLEAN
  BY CronBoundsAssumption DEF IndInv, TypeOK, Update, Serves, Job, Slots
<1>1. /\ Save([mem EXCEPT ![i] = f], ok)
      /\ Lift({}, IF kind # "other" /\ ~f.enabled THEN {i} ELSE {})
      /\ ArmTimer(mem', ok)
      /\ wish' = CASE kind = "disable" /\ ok -> [wish EXCEPT ![i] = "off"]
                   [] kind = "enable" -> [wish EXCEPT ![i] = "none"]
                   [] OTHER -> wish
      /\ unsaved' = IF ok THEN unsaved ELSE unsaved \cup {i}
      /\ fired' = [fired EXCEPT ![i] = 0]
      /\ edits' = [edits EXCEPT ![i] = @ + 1] /\ edits[i] < MaxEdits
  BY DEF Update
<1>2. /\ f \in Job /\ f.present /\ HasTime(i, f)
      /\ kind = "enable" => f.enabled
      /\ kind = "disable" => ~f.enabled
      /\ kind # "enable" /\ kind # "disable" => f.enabled = mem[i].enabled
      /\ f.marker = mem[i].marker \/ (kind # "other" /\ ~f.enabled)
  <2> DEFINE e == Patched(i, kind)
             g == [e EXCEPT !.next = NextRun(i, e)]
             h == [e EXCEPT !.next = 0, !.marker = "no"]
  <2>1. passed[i] + 1 \in Slots /\ 0 \in Slots
    BY <1>0, CronBoundsAssumption DEF Slots
  <2>2. /\ e \in Job /\ e.present /\ e.marker = mem[i].marker /\ e.next \in Nat
        /\ kind = "enable" => e.enabled
        /\ kind = "disable" => ~e.enabled
        /\ kind # "enable" /\ kind # "disable" => e.enabled = mem[i].enabled
        /\ kind = "other" => e = mem[i]
        /\ e.enabled \in BOOLEAN
    <3>1. e \in Job
      BY <1>0, PatchResults
    <3> QED
      BY <1>0, <3>1, PatchResults, CronBoundsAssumption DEF Job, Slots
  <2>3. f = IF kind # "other"
            THEN IF e.enabled THEN g ELSE h
            ELSE IF e.enabled /\ e.next = 0 THEN g ELSE e
    BY DEF Edited
  <2> HIDE DEF e, f
  <2>4. /\ NextRun(i, e) \in Slots
        /\ i \notin OneShot /\ e.enabled => NextRun(i, e) > 0
    BY <1>0, <2>2, NextRunType
  <2>5. g \in Job /\ Keeps(e, g) /\ g.next = NextRun(i, e) /\ g.marker = e.marker
    BY <2>2, <2>4, SetNext
  <2>6. h \in Job /\ Keeps(e, h)
    BY <2>1, <2>2 DEF Job, Keeps
  <2> HIDE DEF g, h
  <2>7. CASE f = g
    BY <2>7, <2>2, <2>4, <2>5 DEF Keeps, HasTime
  <2>8. CASE f = h /\ kind # "other" /\ ~e.enabled
    BY <2>8, <2>2, <2>6 DEF Keeps, HasTime
  <2>9. CASE f = e /\ kind = "other" /\ ~(e.enabled /\ e.next = 0)
    BY <2>9, <2>2 DEF HasTime
  <2> QED
    BY <2>2, <2>3, <2>7, <2>8, <2>9
<1> HIDE DEF f
<1>3. [mem EXCEPT ![i] = f] \in [Jobs -> Job]
  BY <1>0, <1>2
<1>4. /\ mem' = [mem EXCEPT ![i] = f]
      /\ mem' \in [Jobs -> Job] /\ disk' \in [Jobs -> Job]
      /\ faults' \in 0 .. MaxFaults
      /\ ok => disk' = mem'
      /\ \A j \in Jobs : disk'[j] \in {disk[j], mem'[j]}
  BY <1>0, <1>1, <1>3, SaveTypes
<1>5. lifted' \subseteq Causes \X Jobs
  BY <1>0, <1>1, LiftType
<1>6. /\ phase' = phase /\ tick' = tick /\ run' = run /\ created' = created
      /\ attached' = attached /\ interrupted' = interrupted /\ passed' = passed
  BY DEF Update
<1>7. timer' \in BOOLEAN /\ Arms
  BY <1>0, <1>1, <1>4, <1>6, ArmedType DEF ArmTimer, TypeOK, Arms
<1>8. /\ edits' \in [Jobs -> 0 .. MaxEdits] /\ fired' \in [Jobs -> Nat] /\ unsaved' \subseteq Jobs
      /\ wish' \in [Jobs -> {"none", "off", "gone"}]
      /\ \A j \in Jobs : j # i => wish'[j] = wish[j]
      /\ kind = "disable" /\ ok => wish'[i] = "off"
      /\ kind = "disable" /\ ~ok => wish'[i] = wish[i]
      /\ kind = "enable" => wish'[i] = "none"
      /\ kind # "disable" /\ kind # "enable" => wish'[i] = wish[i]
  <2>1. edits \in [Jobs -> 0 .. MaxEdits] /\ fired \in [Jobs -> Nat] /\ unsaved \subseteq Jobs
    BY <1>0 DEF TypeOK
  <2>2. edits[i] + 1 \in 0 .. MaxEdits
    BY <2>1, <1>1, CronBoundsAssumption
  <2>3. edits' \in [Jobs -> 0 .. MaxEdits] /\ fired' \in [Jobs -> Nat] /\ unsaved' \subseteq Jobs
    BY <2>1, <2>2, <1>1
  <2>4. CASE kind = "disable"
    BY <2>3, <2>4, <1>0, <1>1
  <2>5. CASE kind = "enable"
    BY <2>3, <2>5, <1>0, <1>1
  <2>6. CASE kind # "disable" /\ kind # "enable"
    BY <2>3, <2>6, <1>0, <1>1
  <2> QED
    BY <2>4, <2>5, <2>6
<1>9. TypeOK'
  BY <1>0, <1>4, <1>5, <1>6, <1>7, <1>8 DEF TypeOK
<1>10. Staged'
  BY <1>0, <1>6 DEF Staged
<1>11. ASSUME NEW j \in Jobs
       PROVE  \A c \in Causes : Live(c, j)' =>
                  Live(c, j) /\ (j = i => f.marker = mem[i].marker)
  <2>1. Alone(j)
    BY <1>0 DEF Good
  <2>2. \A c \in Causes : Live(c, j)' =>
            Live(c, j) /\ j \notin (IF kind # "other" /\ ~f.enabled THEN {i} ELSE {})
    BY <1>0, <1>1, <1>6, <2>1, LiftLive DEF Unsettled
  <2> QED
    BY <1>2, <2>2
<1>12. ASSUME NEW j \in Jobs, j # i
       PROVE  Good(j)'
  <2>1. mem'[j] = mem[j] /\ wish'[j] = wish[j] /\ fired'[j] = fired[j]
        /\ unsaved \subseteq unsaved'
    BY <1>0, <1>1, <1>4, <1>8, <1>12 DEF TypeOK
  <2>2. Entries(j, mem[j]) /\ Agrees(j, mem[j]) /\ Wishes(j) /\ Fires(j)
    BY <1>0, <1>4, <1>6, <2>1 DEF Entries, Agrees, Wishes, Fires, Good, Timed
  <2>3. Runs(j, mem[j])
    BY <1>0, <1>11, <2>1 DEF Runs, Good, Guarded
  <2> QED
    BY <1>0, <1>7, <1>9, <2>2, <2>3, DerivesKeepsGood DEF Derives
<1>13. /\ mem'[i] = f /\ fired'[i] = 0 /\ unsaved \subseteq unsaved'
       /\ ok => disk'[i] = f
       /\ ~ok => i \in unsaved'
       /\ disk'[i] \in {disk[i], f}
  BY <1>0, <1>1, <1>4 DEF TypeOK
<1>14. CASE kind # "enable"
  <2>1. Entries(i, mem[i])
    BY <1>0, <1>2, <1>13, <1>14 DEF Entries, Tidy
  <2>2. Agrees(i, mem[i]) /\ Fires(i)
    BY <1>13 DEF Agrees, Fires
  <2>3. Wishes(i)
    BY <1>0, <1>2, <1>6, <1>8, <1>13, <1>14 DEF Wishes
  <2>4. Runs(i, mem[i])
    BY <1>0, <1>11, <1>13 DEF Runs, Good, Guarded
  <2>5. Good(i)'
    BY <1>0, <1>7, <1>9, <2>1, <2>2, <2>3, <2>4, DerivesKeepsGood DEF Derives
  <2> QED
    BY <1>9, <1>10, <1>12, <2>5 DEF IndInv
<1>15. CASE kind = "enable"
  <2>0. Alone(i) /\ Guarded(i) /\ Known(i) /\ Timed(i) /\ i \in created
    BY <1>0 DEF Good, Known
  <2>1. Alone(i)'
    BY <1>11, <2>0 DEF Alone
  <2>2. Guarded(i)'
    <3> SUFFICES ASSUME NEW c \in Causes, Live(c, i)'
                 PROVE  /\ i \in created'
                        /\ disk'[i].present => disk'[i].marker # "no"
                        /\ mem'[i].present => mem'[i].marker # "no"
      BY DEF Guarded
    <3> QED
      BY <1>0, <1>6, <1>11, <1>13, <2>0 DEF Guarded
  <2>3. Known(i)' /\ Wished(i)' /\ Once(i)'
    BY <1>6, <1>8, <1>13, <1>15, <2>0 DEF Known, Wished, Once
  <2>4. Timed(i)'
    BY <1>2, <1>13, <2>0 DEF Timed, HasTime, Tidy
  <2>5. Agreed(i)'
    BY <1>13 DEF Agreed
  <2>6. Awake(i)'
    <3> SUFFICES ASSUME i \notin OneShot, i \notin unsaved', mem'[i].present, mem'[i].enabled
                 PROVE  timer'
      BY DEF Awake
    <3>1. timer' = ArmedFor(mem')
      BY <1>1, <1>13 DEF ArmTimer
    <3>2. mem'[i].next > 0
      BY <1>2, <1>13 DEF HasTime
    <3> QED
      BY <3>1, <3>2 DEF ArmedFor
  <2>7. Good(i)'
    BY <2>1, <2>2, <2>3, <2>4, <2>5, <2>6 DEF Good
  <2> QED
    BY <1>9, <1>10, <1>12, <2>7 DEF IndInv
<1> QED
  BY <1>14, <1>15

LEMMA RemoveKeeps ==
    ASSUME IndInv, NEW i \in Jobs, NEW ok \in BOOLEAN, Remove(i, ok)
    PROVE  IndInv'
<1>0. /\ TypeOK /\ Staged /\ phase # "new" /\ \A j \in Jobs : Good(j)
      /\ mem \in [Jobs -> Job] /\ mem[i].present /\ wish \in [Jobs -> {"none", "off", "gone"}]
      /\ unsaved \subseteq Jobs
  BY DEF IndInv, TypeOK, Remove, Serves
<1>1. /\ Save([mem EXCEPT ![i] = Gone], ok)
      /\ ArmTimer(mem', ok)
      /\ wish' = IF ok THEN [wish EXCEPT ![i] = "gone"] ELSE wish
      /\ unsaved' = IF ok THEN unsaved ELSE unsaved \cup {i}
      /\ UNCHANGED <<tick, attached, phase, interrupted, run, passed, edits, created,
                     lifted, fired>>
  BY DEF Remove
<1>2. [mem EXCEPT ![i] = Gone] \in [Jobs -> Job]
  BY <1>0, GoneIsJob
<1>3. /\ mem' = [mem EXCEPT ![i] = Gone]
      /\ mem' \in [Jobs -> Job] /\ disk' \in [Jobs -> Job]
      /\ faults' \in 0 .. MaxFaults
      /\ ok => disk' = mem'
      /\ \A j \in Jobs : disk'[j] \in {disk[j], mem'[j]}
  BY <1>0, <1>1, <1>2, SaveTypes
<1>4. timer' \in BOOLEAN /\ Arms
  BY <1>0, <1>1, <1>3, ArmedType DEF ArmTimer, TypeOK, Arms
<1>5. wish' \in [Jobs -> {"none", "off", "gone"}] /\ unsaved' \subseteq Jobs
  BY <1>0, <1>1
<1>6. TypeOK'
  BY <1>0, <1>1, <1>3, <1>4, <1>5 DEF TypeOK
<1>7. Staged'
  BY <1>0, <1>1 DEF Staged
<1>8. ASSUME NEW j \in Jobs
      PROVE  Good(j)'
  <2>0. Good(j) /\ Guarded(j) /\ Timed(j)
    BY <1>0 DEF Good
  <2>1. /\ mem'[j] = IF j = i THEN Gone ELSE mem[j]
        /\ wish'[j] = IF ok /\ j = i THEN "gone" ELSE wish[j]
        /\ ~ok /\ j = i => j \in unsaved'
    BY <1>0, <1>1, <1>3
  <2>2. Entries(j, mem[j])
    BY <1>3, <2>0, <2>1, GoneIsJob DEF Entries, Timed, HasTime, Tidy
  <2>3. Runs(j, mem[j])
    BY <1>1, <2>0, <2>1, GoneIsJob DEF Runs, Live, Guarded
  <2>4. Wishes(j) /\ Fires(j)
    BY <1>0, <1>1, <1>3, <2>1, GoneIsJob DEF Wishes, Fires
  <2>5. Agrees(j, mem[j])
    BY <1>0, <1>3, <2>1 DEF Agrees
  <2> QED
    BY <1>0, <1>4, <1>6, <2>0, <2>2, <2>3, <2>4, <2>5, DerivesKeepsGood DEF Derives
<1> QED
  BY <1>6, <1>7, <1>8 DEF IndInv

LEMMA AddKeeps ==
    ASSUME IndInv, NEW i \in Jobs, NEW ok \in BOOLEAN, Add(i, ok)
    PROVE  IndInv'
<1> DEFINE base == [mem EXCEPT ![i] = NewJob(i)]
<1>0. /\ TypeOK /\ Staged /\ phase # "new" /\ \A j \in Jobs : Good(j)
      /\ mem \in [Jobs -> Job] /\ i \notin created /\ passed[i] \in 0 .. MaxSlots
      /\ unsaved \subseteq Jobs /\ created \subseteq Jobs
  BY DEF IndInv, TypeOK, Add, Serves
<1>1. /\ Save(Recomputed(base), ok)
      /\ Lift({}, Unmarked(mem))
      /\ ArmTimer(mem', ok)
      /\ created' = created \cup {i}
      /\ unsaved' = IF ok THEN unsaved ELSE unsaved \cup {i}
      /\ UNCHANGED <<tick, attached, phase, interrupted, run, passed, edits, wish, fired>>
  BY DEF Add
<1>2. NewJob(i) \in Job /\ NewJob(i).present /\ NewJob(i).enabled
  <2>1. passed[i] + 1 \in Slots /\ 0 \in Slots
    BY <1>0, CronBoundsAssumption DEF Slots
  <2> QED
    BY <2>1 DEF NewJob, Job
<1>3. base \in [Jobs -> Job] /\ base[i] = NewJob(i) /\ \A j \in Jobs : j # i => base[j] = mem[j]
  BY <1>0, <1>2
<1> HIDE DEF base
<1>4. Recomputed(base) \in [Jobs -> Job]
  BY <1>0, <1>3, StoreTypes
<1>5. /\ mem' = Recomputed(base)
      /\ mem' \in [Jobs -> Job] /\ disk' \in [Jobs -> Job]
      /\ faults' \in 0 .. MaxFaults
      /\ ok => disk' = mem'
      /\ \A j \in Jobs : disk'[j] \in {disk[j], mem'[j]}
  BY <1>0, <1>1, <1>4, SaveTypes
<1>6. lifted' \subseteq Causes \X Jobs
  BY <1>0, <1>1, LiftType
<1>7. timer' \in BOOLEAN /\ Arms
  BY <1>0, <1>1, <1>5, ArmedType DEF ArmTimer, TypeOK, Arms
<1>8. created' \subseteq Jobs /\ unsaved' \subseteq Jobs
  BY <1>0, <1>1
<1>9. TypeOK'
  BY <1>0, <1>1, <1>5, <1>6, <1>7, <1>8 DEF TypeOK
<1>10. Staged'
  BY <1>0, <1>1 DEF Staged
<1>11. ASSUME NEW j \in Jobs
       PROVE  Walked(j, base[j], mem'[j])
  BY <1>0, <1>3, <1>5, RecomputedWalks
<1>12. ASSUME NEW j \in Jobs, j # i
       PROVE  Good(j)'
  <2>1. Walked(j, mem[j], mem'[j])
    BY <1>3, <1>11, <1>12
  <2>2. Entries(j, mem[j]) /\ Runs(j, mem[j])
    BY <1>0, <1>1, <1>5, <1>9, <2>1, WalkedDerives DEF Unsettled
  <2>3. Agrees(j, mem[j])
    BY <1>0, <2>1 DEF Agrees, Walked, Keeps
  <2>4. Wishes(j) /\ Fires(j)
    BY <1>1 DEF Wishes, Fires
  <2> QED
    BY <1>0, <1>7, <1>9, <2>2, <2>3, <2>4, DerivesKeepsGood DEF Derives
<1>13. Good(i)'
  <2>0. /\ Alone(i) /\ Guarded(i) /\ Timed(i) /\ i \in created'
        /\ wish'[i] = "none" /\ fired'[i] = 0
    BY <1>0, <1>1 DEF Good, Known
  <2>1. ASSUME NEW c \in Causes
        PROVE  ~Live(c, i)'
    <3>1. ~Live(c, i)
      BY <1>0, <2>0 DEF Guarded
    <3>2. Live(c, i)' => Live(c, i)
      BY <1>0, <1>1, <2>0, LiftLive DEF Unsettled
    <3> QED
      BY <3>1, <3>2
  <2>2. Alone(i)' /\ Guarded(i)'
    BY <2>1 DEF Alone, Guarded
  <2>3. Known(i)' /\ Wished(i)' /\ Once(i)'
    BY <2>0 DEF Known, Wished, Once
  <2>4. HasTime(i, mem'[i]) /\ mem'[i].present
    BY <1>2, <1>3, <1>11 DEF Walked, Keeps
  <2>5. Timed(i)'
    BY <1>1, <1>5, <2>0, <2>4 DEF Timed, HasTime, Tidy
  <2>6. ok \/ i \in unsaved'
    BY <1>1
  <2>7. Agreed(i)'
    BY <1>5, <2>6 DEF Agreed
  <2>8. Awake(i)'
    <3> SUFFICES ASSUME i \notin OneShot, i \notin unsaved', mem'[i].present, mem'[i].enabled
                 PROVE  timer'
      BY DEF Awake
    <3>1. timer' = ArmedFor(mem')
      BY <1>1, <2>6 DEF ArmTimer
    <3>2. mem'[i].next > 0
      BY <1>1, <2>4 DEF HasTime
    <3> QED
      BY <3>1, <3>2 DEF ArmedFor
  <2> QED
    BY <2>2, <2>3, <2>5, <2>7, <2>8 DEF Good
<1> QED
  BY <1>9, <1>10, <1>12, <1>13 DEF IndInv

LEMMA ReadKeeps ==
    ASSUME IndInv, NEW ok \in BOOLEAN, Read(ok)
    PROVE  IndInv'
<1>0. TypeOK /\ Staged /\ phase # "new" /\ mem \in [Jobs -> Job] /\ \A j \in Jobs : Good(j)
  BY DEF IndInv, TypeOK, Read, Serves
<1>1. /\ Save(Maintained(mem), ok) /\ Lift({}, Unmarked(mem))
      /\ UNCHANGED <<sched, run, passed, edits, wish, unsaved, created, fired>>
  BY DEF Read
<1>2. Maintained(mem) \in [Jobs -> Job]
  BY <1>0, StoreTypes
<1>3. /\ mem' = Maintained(mem)
      /\ mem' \in [Jobs -> Job] /\ disk' \in [Jobs -> Job]
      /\ faults' \in 0 .. MaxFaults
      /\ \A j \in Jobs : disk'[j] \in {disk[j], mem'[j]}
  BY <1>0, <1>1, <1>2, SaveTypes
<1>4. lifted' \subseteq Causes \X Jobs
  BY <1>0, <1>1, LiftType
<1>5. TypeOK'
  BY <1>0, <1>1, <1>3, <1>4 DEF TypeOK, sched
<1>6. Staged' /\ Arms
  BY <1>0, <1>1 DEF Staged, sched, Arms
<1>7. ASSUME NEW j \in Jobs
      PROVE  Good(j)'
  <2>1. Walked(j, mem[j], mem'[j])
    BY <1>0, <1>3, MaintainedWalks
  <2>2. Entries(j, mem[j]) /\ Runs(j, mem[j])
    BY <1>0, <1>1, <1>3, <1>5, <2>1, WalkedDerives DEF Unsettled
  <2>3. Agrees(j, mem[j]) /\ Unnoted(j)
    BY <1>0, <1>1, <2>1 DEF Agrees, Walked, Keeps, Unnoted
  <2> QED
    BY <1>0, <1>5, <1>6, <2>2, <2>3, UnnotedKeeps, DerivesKeepsGood DEF Derives
<1> QED
  BY <1>5, <1>6, <1>7 DEF IndInv

-----------------------------------------------------------------------------
(* The clock and crashes.                                                  *)

LEMMA SlotPassesKeeps ==
    ASSUME IndInv, NEW i \in Jobs, SlotPasses(i)
    PROVE  IndInv'
<1>0. TypeOK /\ Staged /\ \A j \in Jobs : Good(j)
  BY DEF IndInv
<1>1. passed' \in [Jobs -> 0 .. MaxSlots]
  <2>1. passed \in [Jobs -> 0 .. MaxSlots] /\ passed[i] < MaxSlots
    BY <1>0 DEF TypeOK, SlotPasses
  <2>2. passed[i] + 1 \in 0 .. MaxSlots
    BY <2>1, CronBoundsAssumption
  <2> QED
    BY <2>1, <2>2 DEF SlotPasses
<1>2. TypeOK'
  BY <1>0, <1>1 DEF TypeOK, SlotPasses, stores, sched, history
<1>3. Staged'
  BY <1>0 DEF Staged, SlotPasses, sched
<1>4. ASSUME NEW j \in Jobs
      PROVE  Good(j)'
  <2>1. /\ disk' = disk /\ mem' = mem /\ lifted' = lifted /\ phase' = phase /\ run' = run
        /\ Unnoted(j) /\ Arms
    BY DEF SlotPasses, stores, sched, history, Unnoted, Arms
  <2> QED
    BY <1>0, <1>2, <2>1, QuietKeeps
<1> QED
  BY <1>2, <1>3, <1>4 DEF IndInv

LEMMA AgesKeeps ==
    ASSUME IndInv, NEW i \in Jobs, Ages(i)
    PROVE  IndInv'
<1>0. /\ TypeOK /\ Staged /\ \A j \in Jobs : Good(j)
      /\ disk \in [Jobs -> Job] /\ mem \in [Jobs -> Job]
  BY DEF IndInv, TypeOK
<1>1. ASSUME NEW e \in Job
      PROVE  Older(e) \in Job /\ Keeps(e, Older(e)) /\ Older(e).next = e.next
             /\ (Older(e).marker = "no" <=> e.marker = "no")
  BY DEF Older, Job, Keeps
<1>2. /\ disk' = [disk EXCEPT ![i] = Older(disk[i])]
      /\ mem' = [mem EXCEPT ![i] = Older(mem[i])]
      /\ UNCHANGED <<sched, run, passed, faults, history>>
  BY DEF Ages
<1>3. disk' \in [Jobs -> Job] /\ mem' \in [Jobs -> Job]
  BY <1>0, <1>1, <1>2
<1>4. TypeOK'
  BY <1>0, <1>2, <1>3 DEF TypeOK, sched, history
<1>5. Staged'
  BY <1>0, <1>2 DEF Staged, sched
<1>6. ASSUME NEW j \in Jobs
      PROVE  Good(j)'
  <2>0. /\ Alone(j) /\ Guarded(j) /\ Known(j) /\ Wished(j) /\ Once(j) /\ Timed(j)
        /\ Agreed(j) /\ Awake(j)
    BY <1>0 DEF Good
  <2>1. /\ Keeps(disk[j], disk'[j]) /\ disk'[j].next = disk[j].next
        /\ disk'[j].marker = "no" <=> disk[j].marker = "no"
    BY <1>0, <1>1, <1>2 DEF Keeps
  <2>2. /\ Keeps(mem[j], mem'[j]) /\ mem'[j].next = mem[j].next
        /\ mem'[j].marker = "no" <=> mem[j].marker = "no"
    BY <1>0, <1>1, <1>2 DEF Keeps
  <2>3. /\ UNCHANGED <<timer, tick, phase, wish, unsaved, created, fired>>
        /\ \A c \in Causes : Live(c, j)' <=> Live(c, j)
    BY <1>2 DEF sched, history, Live
  <2>4. Alone(j)' /\ Guarded(j)'
    BY <2>0, <2>1, <2>2, <2>3 DEF Alone, Guarded, Keeps
  <2>5. Known(j)' /\ Wished(j)'
    BY <2>0, <2>1, <2>2, <2>3 DEF Known, Wished, Keeps
  <2>6. Once(j)'
    BY <2>0, <2>1, <2>2, <2>3 DEF Once, Keeps, Causes
  <2>7. Timed(j)' /\ Agreed(j)' /\ Awake(j)'
    BY <2>0, <2>1, <2>2, <2>3 DEF Timed, Agreed, Awake, Keeps, HasTime, Tidy
  <2> QED
    BY <2>4, <2>5, <2>6, <2>7 DEF Good
<1> QED
  BY <1>4, <1>5, <1>6 DEF IndInv

LEMMA CrashKeeps ==
    ASSUME IndInv, Crash
    PROVE  IndInv'
<1>0. TypeOK /\ Staged /\ \A j \in Jobs : Good(j)
  BY DEF IndInv
<1>1. mem' \in [Jobs -> Job] /\ \A j \in Jobs : mem'[j] = Gone
  BY GoneIsJob DEF Crash
<1>2. run' = Idle /\ Idle \in [Causes -> [Jobs -> Stages]]
  BY DEF Crash, Idle, Stages
<1>3. faults' \in 0 .. MaxFaults
  BY <1>0, CronBoundsAssumption DEF TypeOK, Crash
<1>4. TypeOK'
  BY <1>0, <1>1, <1>2, <1>3 DEF TypeOK, Crash
<1>5. Staged'
  BY DEF Staged, Crash, Idle, Causes
<1>6. ASSUME NEW j \in Jobs
      PROVE  Good(j)'
  <2>0. /\ Known(j) /\ Wished(j) /\ Once(j) /\ Timed(j)
        /\ UNCHANGED <<disk, wish, fired, created, unsaved>> /\ phase' = "new"
    BY <1>0 DEF Good, Crash
  <2>1. ASSUME NEW c \in Causes
        PROVE  ~Live(c, j)'
    BY <1>2 DEF Live, Idle
  <2>2. Alone(j)' /\ Guarded(j)'
    BY <2>1 DEF Alone, Guarded
  <2>3. Known(j)' /\ Wished(j)'
    BY <1>1, <2>0, GoneIsJob DEF Known, Wished
  <2>4. Once(j)'
    BY <1>1, <2>0, <2>1, GoneIsJob DEF Once, Causes
  <2>5. Timed(j)'
    BY <1>1, <2>0, GoneIsJob DEF Timed, HasTime, Tidy
  <2>6. Agreed(j)' /\ Awake(j)'
    BY <2>0 DEF Agreed, Awake
  <2> QED
    BY <2>2, <2>3, <2>4, <2>5, <2>6 DEF Good
<1> QED
  BY <1>4, <1>5, <1>6 DEF IndInv

-----------------------------------------------------------------------------
(* Theorems.                                                               *)

LEMMA InitGood == Init => IndInv
<1> SUFFICES ASSUME Init PROVE IndInv
  OBVIOUS
<1>0. /\ passed = [j \in Jobs |-> 0] /\ run = Idle /\ lifted = {} /\ unsaved = {}
      /\ disk = [j \in Jobs |-> IF j \in Initial THEN NewJob(j) ELSE Gone]
      /\ mem = [j \in Jobs |-> Gone] /\ phase = "new" /\ tick = "idle" /\ timer = FALSE
      /\ wish = [j \in Jobs |-> "none"] /\ fired = [j \in Jobs |-> 0] /\ created = Initial
  BY DEF Init
<1>1. ASSUME NEW j \in Jobs
      PROVE  /\ NewJob(j) \in Job /\ NewJob(j).present /\ NewJob(j).enabled
             /\ NewJob(j).next > 0
  <2>1. passed[j] = 0 /\ 1 \in Slots /\ 0 \in Slots
    BY <1>0, CronBoundsAssumption DEF Slots
  <2>2. passed[j] + 1 = 1
    BY <2>1
  <2> QED
    BY <2>1, <2>2 DEF NewJob, Job
<1>2. ASSUME NEW j \in Jobs
      PROVE  /\ disk[j] \in Job /\ mem[j] = Gone /\ Tidy(disk[j]) /\ HasTime(j, disk[j])
             /\ j \notin created => ~disk[j].present
  BY <1>0, <1>1, GoneIsJob DEF Tidy, HasTime
<1>3. disk \in [Jobs -> Job] /\ mem \in [Jobs -> Job]
  BY <1>0, <1>2, GoneIsJob
<1>4. Idle \in [Causes -> [Jobs -> Stages]]
  BY DEF Idle, Stages
<1>5. TypeOK
  <2>1. /\ passed \in [Jobs -> 0 .. MaxSlots] /\ edits \in [Jobs -> 0 .. MaxEdits]
        /\ faults \in 0 .. MaxFaults /\ fired \in [Jobs -> Nat]
        /\ wish \in [Jobs -> {"none", "off", "gone"}]
    BY CronBoundsAssumption DEF Init
  <2>2. /\ timer \in BOOLEAN /\ attached \in BOOLEAN /\ interrupted \subseteq Jobs
        /\ tick \in {"idle", "wants", "runs", "closing"}
        /\ phase \in {"new", "cleared", "catchup", "finish", "on", "failed"}
        /\ unsaved \subseteq Jobs /\ created \subseteq Jobs /\ lifted \subseteq Causes \X Jobs
    BY CronAssumption DEF Init
  <2>3. run \in [Causes -> [Jobs -> Stages]]
    BY <1>0, <1>4
  <2> QED
    BY <1>3, <2>1, <2>2, <2>3 DEF TypeOK
<1>6. Staged
  BY <1>0 DEF Staged, Idle, Causes
<1>7. ASSUME NEW j \in Jobs
      PROVE  Good(j)
  <2>1. ASSUME NEW c \in Causes
        PROVE  ~Live(c, j)
    BY <1>0 DEF Live, Idle
  <2>2. Alone(j) /\ Guarded(j)
    BY <2>1 DEF Alone, Guarded
  <2>3. Known(j) /\ Wished(j) /\ Once(j)
    BY <1>0, <1>2, GoneIsJob DEF Known, Wished, Once
  <2>4. Timed(j) /\ Agreed(j) /\ Awake(j)
    BY <1>0, <1>2, GoneIsJob DEF Timed, Agreed, Awake, HasTime, Tidy
  <2> QED
    BY <2>2, <2>3, <2>4 DEF Good
<1> QED
  BY <1>5, <1>6, <1>7 DEF IndInv

LEMMA StutterKeeps ==
    ASSUME IndInv, UNCHANGED vars
    PROVE  IndInv'
BY DEF vars, stores, sched, history, IndInv, TypeOK, Staged, Good, Alone, Guarded, Known,
       Wished, Once, Timed, HasTime, Agreed, Awake, Live

LEMMA NextKeepsGood == IndInv /\ [Next]_vars => IndInv'
<1> SUFFICES ASSUME IndInv, [Next]_vars PROVE IndInv'
  OBVIOUS
<1>1. CASE Starting
  BY <1>1, StartClearsKeeps, StartTakesMissedKeeps, CatchupAppliesKeeps, StartFinishesKeeps
     DEF Starting
<1>2. CASE TimerFires
  BY <1>2, TimerFiresKeeps
<1>3. CASE Ticking
  BY <1>3, TickTakesKeeps, TickAppliesKeeps, TickEndsKeeps DEF Ticking
<1>4. ASSUME NEW cause \in Causes, Executing(cause)
      PROVE  IndInv'
  BY <1>4, RunEndsKeeps, CatchupStartsKeeps, TickStartsKeeps DEF Executing
<1>5. ASSUME NEW j \in Jobs, Requests(j)
      PROVE  IndInv'
  BY <1>5, ManualTakesKeeps, ManualAppliesKeeps, UpdateKeeps, UpdateRejectedKeeps, RemoveKeeps,
     AddKeeps DEF Requests
<1>6. ASSUME NEW j \in Jobs, SlotPasses(j) \/ Ages(j)
      PROVE  IndInv'
  BY <1>6, SlotPassesKeeps, AgesKeeps
<1>7. CASE \E ok \in BOOLEAN : Read(ok)
  BY <1>7, ReadKeeps
<1>8. CASE Crash
  BY <1>8, CrashKeeps
<1>9. CASE UNCHANGED vars
  BY <1>9, StutterKeeps
<1> QED
  BY <1>1, <1>2, <1>3, <1>4, <1>5, <1>6, <1>7, <1>8, <1>9 DEF Next

THEOREM GoodAlways == Spec => []IndInv
<1>1. Init => IndInv
  BY InitGood
<1>2. IndInv /\ [Next]_vars => IndInv'
  BY NextKeepsGood
<1> QED
  BY <1>1, <1>2, PTL DEF Spec

\* Every variable keeps its type: slots stay within reach of the clock.
THEOREM TypesKept == Spec => []TypeOK
<1>1. IndInv => TypeOK
  BY DEF IndInv
<1> QED
  BY <1>1, GoodAlways, PTL

\* A tick, the catch-up and manual runs never have the same job at once, unless
\* a marker was taken away under a run: however many jobs there are, whatever is
\* edited, and whatever fails.
THEOREM RunsAlone == Spec => []OneRunPerJob
<1>1. IndInv => OneRunPerJob
  <2> SUFFICES ASSUME IndInv, NEW j \in Jobs
               PROVE  Cardinality({x \in Unsettled \ lifted : x[2] = j}) <= 1
    BY DEF OneRunPerJob
  <2> DEFINE R == {x \in Unsettled \ lifted : x[2] = j}
  <2>1. ASSUME NEW x \in R, NEW y \in R
        PROVE  x = y
    <3>1. /\ x \in Causes \X Jobs /\ y \in Causes \X Jobs /\ x[2] = j /\ y[2] = j
          /\ run[x[1]][j] # "no" /\ run[y[1]][j] # "no" /\ x \notin lifted /\ y \notin lifted
      BY DEF Unsettled
    <3>2. x = <<x[1], j>> /\ y = <<y[1], j>>
      BY <3>1
    <3>3. Live(x[1], j) /\ Live(y[1], j) /\ Alone(j)
      BY <3>1, <3>2 DEF Live, IndInv, Good
    <3>4. x[1] = y[1]
      BY <3>1, <3>3 DEF Alone
    <3> QED
      BY <3>2, <3>4
  <2> HIDE DEF R
  <2>2. CASE R = {}
    <3>1. Cardinality(R) = 0
      BY <2>2, FS_EmptySet
    <3> QED
      BY <3>1 DEF R
  <2>3. CASE R # {}
    <3>1. PICK x \in R : TRUE
      BY <2>3
    <3>2. R = {x}
      BY <2>1, <3>1
    <3>3. Cardinality(R) = 1
      BY <3>2, FS_Singleton
    <3> QED
      BY <3>3 DEF R
  <2> QED
    BY <2>2, <2>3
<1> QED
  BY <1>1, GoodAlways, PTL

\* The result of a run that was under way never enables again what a user
\* disabled, and never brings back what a user removed.
THEOREM EditsLast == Spec => []EditsSurviveRuns
<1>1. IndInv => EditsSurviveRuns
  BY DEF IndInv, Good, Wished, EditsSurviveRuns
<1> QED
  BY <1>1, GoodAlways, PTL

\* A one-shot's result is saved at most once for its time, restarts and failed
\* saves included.
THEOREM OneShotsFireOnce == Spec => []OneShotFiresOnce
<1>1. IndInv => OneShotFiresOnce
  <2> SUFFICES ASSUME IndInv, NEW j \in OneShot
               PROVE  fired[j] <= 1
    BY DEF OneShotFiresOnce
  <2>1. j \in Jobs /\ fired[j] \in Nat /\ Once(j)
    BY CronAssumption DEF IndInv, TypeOK, Good
  <2> QED
    BY <2>1 DEF Once
<1> QED
  BY <1>1, GoodAlways, PTL

\* Once started, the scheduler keeps a timer or a tick as long as it holds a
\* recurring job to be run, whatever saves fail but those of the job's edits.
THEOREM SchedulerStaysAlive == Spec => []SchedulerAlive
<1>1. IndInv => SchedulerAlive
  BY DEF IndInv, Good, Awake, SchedulerAlive, Scheduled
<1> QED
  BY <1>1, GoodAlways, PTL

\* Only start's last part, add, an edit of the job or its own result move the
\* saved time of a job that is due; the other steps keep it, as the walk over
\* all jobs keeps a time that is set.
THEOREM NothingSkipped == Spec => NoSilentSkip
<1> DEFINE Skips == created' = created /\ ~(phase = "finish" /\ phase' = "on")
                      => \A j \in Jobs :
                            (/\ Runnable(j, disk[j]) /\ mem[j] = disk[j]
                             /\ edits'[j] = edits[j] /\ disk'[j].present)
                               => disk'[j].next = disk[j].next \/ Answered(j)
<1>1. IndInv /\ [Next]_vars => Skips
  <2> SUFFICES ASSUME IndInv, [Next]_vars, created' = created,
                      ~(phase = "finish" /\ phase' = "on"),
                      NEW j \in Jobs, Runnable(j, disk[j]), mem[j] = disk[j],
                      edits'[j] = edits[j], disk'[j].present, ~Answered(j)
               PROVE  disk'[j].next = disk[j].next
    OBVIOUS
  <2>0. /\ TypeOK /\ disk \in [Jobs -> Job] /\ mem \in [Jobs -> Job]
        /\ disk[j].enabled /\ disk[j].next > 0 /\ mem[j].enabled /\ mem[j].next > 0
        /\ run \in [Causes -> [Jobs -> Stages]] /\ edits \in [Jobs -> 0 .. MaxEdits]
    BY DEF IndInv, TypeOK, Runnable, Due
  <2>1. ASSUME NEW store, NEW ok \in BOOLEAN, Save(store, ok), store[j].next = disk[j].next
        PROVE  disk'[j].next = disk[j].next
    BY <2>1 DEF Save
  <2>2. /\ Maintained(disk)[j].next = disk[j].next
        /\ Maintained(mem)[j].next = disk[j].next
        /\ \A S : Marked(disk, S)[j].next = disk[j].next
        /\ \A S : Marked(mem, S)[j].next = disk[j].next
        /\ [disk[j] EXCEPT !.marker = "no"].next = disk[j].next
    <3>1. disk[j] \in Job /\ mem[j] \in Job
      BY <2>0
    <3>2. \A S : Marked(disk, S)[j].next = disk[j].next /\ Marked(mem, S)[j].next = disk[j].next
      BY <3>1, MarkedIsJob DEF Marked
    <3> QED
      BY <2>0, <3>1, <3>2, MaintainedWalks, MarkedIsJob
  <2>3. ASSUME NEW c \in {"tick", "catchup"}, NEW ok \in BOOLEAN, Save(Applied(disk, c), ok),
               Settle(c, ok)
        PROVE  disk'[j].next = disk[j].next
    <3> DEFINE base == [i \in Jobs |-> IF run[c][i] \in Outcomes /\ disk[i].present
                                       THEN AfterRun(i, disk[i], run[c][i]) ELSE disk[i]]
    <3>1. run'[c][j] = "no"
      BY <2>0, <2>3 DEF Settle, Causes
    <3>2. run[c][j] \notin Outcomes
      BY <3>1 DEF Answered, Causes
    <3>3. base[j] = disk[j]
      BY <3>2
    <3>4. base \in [Jobs -> Job]
      <4>1. ASSUME NEW i \in Jobs
            PROVE  base[i] \in Job
        <5>1. disk[i] \in Job
          BY <2>0
        <5>2. run[c][i] \in Outcomes => AfterRun(i, disk[i], run[c][i]) \in Job
          BY <2>0, <5>1, AfterRunResults DEF Resulted
        <5> QED
          BY <5>1, <5>2
      <4> QED
        BY <4>1
    <3>5. Applied(disk, c) = Maintained(base)
      BY DEF Applied
    <3> HIDE DEF base
    <3>6. Applied(disk, c)[j].next = disk[j].next
      BY <2>0, <3>3, <3>4, <3>5, MaintainedWalks
    <3> QED
      BY <2>1, <2>3, <3>6
  <2>4. CASE Starting
    <3>1. ASSUME NEW ok \in BOOLEAN, StartClears(ok)
          PROVE  disk'[j].next = disk[j].next
      BY <2>1, <2>2, <3>1 DEF StartClears
    <3>2. ASSUME NEW ok \in BOOLEAN, StartTakesMissed(ok)
          PROVE  disk'[j].next = disk[j].next
      BY <2>1, <2>2, <3>2 DEF StartTakesMissed, stores
    <3>3. ASSUME NEW ok \in BOOLEAN, CatchupApplies(ok)
          PROVE  disk'[j].next = disk[j].next
      BY <2>3, <3>3 DEF CatchupApplies
    <3>4. ASSUME NEW ok \in BOOLEAN, StartFinishes(ok)
          PROVE  disk'[j].next = disk[j].next
      BY <3>4 DEF StartFinishes, Save
    <3> QED
      BY <2>4, <3>1, <3>2, <3>3, <3>4 DEF Starting
  <2>5. CASE Ticking
    <3>1. ASSUME NEW ok \in BOOLEAN, TickTakes(ok)
          PROVE  disk'[j].next = disk[j].next
      BY <2>1, <2>2, <3>1 DEF TickTakes
    <3>2. ASSUME NEW ok \in BOOLEAN, TickApplies(ok)
          PROVE  disk'[j].next = disk[j].next
      BY <2>3, <3>2 DEF TickApplies
    <3> QED
      BY <2>5, <3>1, <3>2 DEF Ticking, TickEnds, stores
  <2>6. ASSUME NEW cause \in Causes, Executing(cause)
        PROVE  disk'[j].next = disk[j].next
    BY <2>6 DEF Executing, RunEnds, CatchupStarts, TickStarts, stores
  <2>7. ASSUME NEW i \in Jobs, Requests(i)
        PROVE  disk'[j].next = disk[j].next
    <3>1. ASSUME NEW forced \in BOOLEAN, NEW ok \in BOOLEAN, ManualTakes(i, forced, ok)
          PROVE  disk'[j].next = disk[j].next
      BY <2>1, <2>2, <3>1 DEF ManualTakes
    <3>2. ASSUME NEW ok \in BOOLEAN, ManualApplies(i, ok)
          PROVE  disk'[j].next = disk[j].next
      <4> DEFINE snapshot == AfterRun(i, mem[i], run["manual"][i])
                 merged == [disk EXCEPT ![i] = Merged(i, snapshot, disk[i])]
      <4>1. run["manual"][i] \in Outcomes /\ run'["manual"][i] = "no"
        BY <2>0, <3>2 DEF ManualApplies, Causes
      <4>2. j # i
        BY <4>1 DEF Answered, Causes
      <4>3. CASE ~mem[i].present
        BY <3>2, <4>3 DEF ManualApplies, stores
      <4>4. CASE mem[i].present
        <5>1. Save(Maintained(merged), ok)
          BY <3>2, <4>4 DEF ManualApplies
        <5>2. mem[i] \in Job
          BY <2>0
        <5>3. snapshot \in Job
          BY <2>0, <4>1, <5>2, AfterRunResults DEF Resulted
        <5>4. Merged(i, snapshot, disk[i]) \in Job
          BY <2>0, <5>3, MergedResults
        <5>5. merged \in [Jobs -> Job] /\ merged[j] = disk[j]
          BY <2>0, <4>2, <5>4
        <5> HIDE DEF merged
        <5>6. Maintained(merged)[j].next = disk[j].next
          BY <2>0, <5>5, MaintainedWalks
        <5> QED
          BY <2>1, <5>1, <5>6
      <4> QED
        BY <4>3, <4>4
    <3>3. ASSUME NEW kind \in EditKinds, NEW ok \in BOOLEAN, Update(i, kind, ok)
          PROVE  disk'[j].next = disk[j].next
      <4>1. j # i
        <5>1. edits' = [edits EXCEPT ![i] = edits[i] + 1] /\ edits[i] \in Nat
          BY <2>0, <3>3 DEF Update
        <5>2. edits'[i] # edits[i]
          BY <2>0, <5>1
        <5> QED
          BY <5>2
      <4>2. [mem EXCEPT ![i] = Edited(i, kind)][j].next = disk[j].next
        BY <2>0, <4>1
      <4> QED
        BY <2>1, <3>3, <4>2 DEF Update
    <3>4. ASSUME NEW ok \in BOOLEAN, Remove(i, ok)
          PROVE  disk'[j].next = disk[j].next
      <4>1. CASE i = j
        <5>1. disk' = disk \/ ~disk'[j].present
          BY <2>0, <3>4, <4>1, GoneIsJob DEF Remove, Save
        <5> QED
          BY <5>1
      <4>2. CASE i # j
        <5>1. [mem EXCEPT ![i] = Gone][j].next = disk[j].next
          BY <2>0, <4>2
        <5> QED
          BY <2>1, <3>4, <5>1 DEF Remove
      <4> QED
        BY <4>1, <4>2
    <3>5. ASSUME NEW ok \in BOOLEAN, Add(i, ok)
          PROVE  FALSE
      BY <3>5 DEF Add
    <3>6. ASSUME NEW kind \in EditKinds, UpdateRejected(i, kind)
          PROVE  disk'[j].next = disk[j].next
      BY <3>6 DEF UpdateRejected
    <3> QED
      BY <2>7, <3>1, <3>2, <3>3, <3>4, <3>5, <3>6 DEF Requests
  <2>8. ASSUME NEW i \in Jobs, SlotPasses(i)
        PROVE  disk'[j].next = disk[j].next
    BY <2>8 DEF SlotPasses, stores
  <2>9. ASSUME NEW i \in Jobs, Ages(i)
        PROVE  disk'[j].next = disk[j].next
    <3>1. Older(disk[i]).next = disk[i].next
      BY <2>0 DEF Older, Job
    <3> QED
      BY <2>0, <2>9, <3>1 DEF Ages
  <2>10. ASSUME NEW ok \in BOOLEAN, Read(ok)
         PROVE  disk'[j].next = disk[j].next
    BY <2>1, <2>2, <2>10 DEF Read
  <2>11. CASE TimerFires \/ Crash \/ UNCHANGED vars
    BY <2>11 DEF TimerFires, Crash, vars, stores
  <2> QED
    BY <2>4, <2>5, <2>6, <2>7, <2>8, <2>9, <2>10, <2>11 DEF Next
<1>2. IndInv /\ [Next]_vars => [Skips]_vars
  BY <1>1
<1> QED
  BY <1>2, GoodAlways, PTL DEF Spec, NoSilentSkip

=============================================================================
