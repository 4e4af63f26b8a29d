----------------------- MODULE SubagentRegistry_proofs -----------------------
(***************************************************************************)
(* Theorems about SubagentRegistry for any runs, sessions and bounds.  The *)
(* inductive invariant is local to a run: Good relates its entry, what is  *)
(* saved of it, its process state and its past.  Most handlers are Calm:   *)
(* what they do to a run is one of a few harmless changes, and Calm keeps  *)
(* Good (CalmKeepsGood); the others are treated one by one.                *)
(***************************************************************************)
EXTENDS SubagentRegistry, FiniteSetTheorems, TLAPS

\* The flow of p, or the hook emission that follows it, is under way.
Owned(p) == p.flow # "no" \/ p.emit \in {"announced", "giveUp"}

\* Something may still end or resume the run of p.
Pending(p) == p.grace \/ p.waits \/ p.due > 0 \/ p.early > 0

\* What the invariant needs to know of a run besides the registry's own state.
Past(r) == [announced |-> announced[r], attempts |-> attempts[r],
            killed |-> r \in killed, replaced |-> r \in replaced,
            steering |-> r \in steering,
            fresh |-> child[r] = "none" \/ r \in spawning]

Pasts == [announced : Nat, attempts : Nat, killed : BOOLEAN, replaced : BOOLEAN,
          steering : BOOLEAN, fresh : BOOLEAN]

\* Of a copy c of the entry, in memory or on disk: cleanup is open only for a
\* run that was neither announced nor killed, has no flow, and may be retried.
GoodCopy(c, p, h) ==
    /\ ~c.listed => c = Absent
    /\ c.listed /\ c.handled => Ended(c)
    /\ c.listed /\ ~c.handled =>
          /\ h.announced = 0
          /\ ~h.killed
          /\ ~Owned(p)
          /\ h.attempts <= c.retries
          /\ c.retries < MaxRetries

\* Of a running flow, an awaited end hook and the calls of a run.
GoodFlow(e, p, h) ==
    /\ p.flow = "running" =>
          /\ h.announced = 0
          /\ ~h.killed /\ ~h.replaced /\ ~h.steering
          /\ e.listed => h.attempts <= e.retries /\ e.retries < MaxRetries
    /\ p.flow # "no" /\ e.listed => p.emit \notin {"announced", "giveUp"}
    /\ p.emit = "end" /\ e.listed => Ended(e) /\ e.suppress # "steer"
    /\ Pending(p) => e.listed

\* Of its past.
GoodPast(e, d, p, h) ==
    /\ h.announced <= 1
    /\ h.attempts <= MaxRetries
    /\ h.killed => h.announced = 0 /\ p.flow = "no"
    /\ h.replaced => h.announced = 0 /\ p.flow = "no" /\ e = Absent /\ d = Absent
    /\ h.steering => /\ h.announced = 0
                     /\ p.flow = "no"
                     /\ e.listed => e.suppress = "steer" \/ h.killed
    /\ h.fresh => /\ e = Absent /\ d = Absent
                  /\ p.flow = "no" /\ p.emit = "no"
                  /\ h.announced = 0 /\ h.attempts = 0
                  /\ ~h.killed /\ ~h.replaced /\ ~h.steering
    /\ d.completed /\ e.listed => e.completed

Good(e, d, p, h) ==
    /\ GoodCopy(e, p, h)
    /\ GoodCopy(d, p, h)
    /\ GoodFlow(e, p, h)
    /\ GoodPast(e, d, p, h)

AllGood == \A r \in Runs : Good(reg[r], disk[r], proc[r], Past(r))

\* A process that is not running keeps nothing.
DownIsEmpty ==
    ~up => /\ reg = [r \in Runs |-> Absent]
           /\ steering = {}
           /\ spawning = {}
           /\ crashes > 0

\* A run that was accepted and is not registered yet is running or over.
SpawningStarted == \A r \in spawning : child[r] # "none"

IndInv == TypeOK /\ AllGood /\ DownIsEmpty /\ SpawningStarted /\ MutedOnlyWhileSteering

-----------------------------------------------------------------------------
(* Calm changes of one run.                                                *)

\* From e, p to e2, p2: the entry goes or keeps its marks, a flow is started
\* only by opening no cleanup twice, and only an owner's emission is awaited.
CalmEntry(e, e2) ==
    \/ e2 = Absent
    \/ /\ e.listed /\ e2.listed
       /\ e2.retries = e.retries
       /\ e2.suppress = e.suppress
       /\ e.handled => e2.handled
       /\ e.completed => e2.completed
       /\ Ended(e) => Ended(e2)
       /\ e2.handled => Ended(e2)

CalmFlow(e, p, e2, p2) ==
    \/ p2.flow \in {p.flow, "no"}
    \/ p.flow = "running" /\ p2.flow = "delivered"
    \/ /\ p2.flow = "running"
       /\ e.listed /\ ~e.handled /\ e.suppress # "steer"
       /\ e2.listed /\ e2.handled

CalmEmit(p, e2, p2) ==
    \/ p2.emit \in {p.emit, "no"}
    \/ p2.emit = "end" /\ e2.listed /\ Ended(e2) /\ e2.suppress # "steer"
    \/ p2.emit \in {"announced", "giveUp"} /\ p.flow # "no" /\ p2.flow = "no"

Calm(e, p, e2, p2) ==
    /\ e2 \in Entry /\ p2 \in Proc
    /\ CalmEntry(e, e2)
    /\ CalmFlow(e, p, e2, p2)
    /\ CalmEmit(p, e2, p2)
    /\ Pending(p2) => e2.listed

\* The copy on disk follows, unless nothing was kept that it lacks.
Saved(d, e, e2, d2) == d2 = e2 \/ (d2 = d /\ e2 \in {e, Absent})

LEMMA AbsentInEntry == Absent \in Entry /\ NewEntry \in Entry /\ Idle \in Proc
<1>1. 0 \in 0 .. MaxRetries
  BY RegistryBoundsAssumption
<1>2. Absent \in Entry
  BY <1>1 DEF Absent, Entry, Reasons
<1>3. NewEntry \in Entry
  BY <1>2 DEF NewEntry, Entry
<1>4. Idle \in Proc
  BY DEF Idle, Proc, Flows, Emits
<1> QED
  BY <1>2, <1>3, <1>4

\* A calm change, saved or not, keeps a run good.
LEMMA CalmKeepsGood ==
    ASSUME NEW e \in Entry, NEW d \in Entry, NEW p \in Proc, NEW h \in Pasts,
           NEW e2, NEW d2, NEW p2,
           Good(e, d, p, h), Calm(e, p, e2, p2), Saved(d, e, e2, d2)
    PROVE  Good(e2, d2, p2, h)
<1> USE RegistryBoundsAssumption DEF Calm
<1>0. /\ ~Absent.listed /\ ~Absent.completed /\ d2 \in Entry
  BY AbsentInEntry DEF Absent, Saved
<1>1. GoodCopy(e2, p2, h)
  BY <1>0 DEF Good, GoodCopy, GoodFlow, CalmEntry, CalmFlow, CalmEmit, Owned, Entry, Proc, Pasts, Flows, Emits
<1>2. GoodCopy(d2, p2, h)
  <2>1. CASE d2 = e2
    BY <1>1, <2>1
  <2>2. CASE d2 = d /\ e2 = e
    BY <2>2, <1>0 DEF Good, GoodCopy, GoodFlow, CalmEntry, CalmFlow, CalmEmit, Owned, Entry, Proc, Pasts, Flows, Emits
  <2>3. CASE d2 = d /\ e2 = Absent
    BY <2>3, <1>0 DEF Good, GoodCopy, GoodFlow, CalmEntry, CalmFlow, CalmEmit, Owned, Entry, Proc, Pasts, Flows, Emits
  <2> QED
    BY <2>1, <2>2, <2>3 DEF Saved
<1>3. GoodFlow(e2, p2, h)
  BY <1>0 DEF Good, GoodCopy, GoodFlow, GoodPast, CalmEntry, CalmFlow, CalmEmit, Owned, Entry, Proc, Pasts, Flows, Emits
<1>4. GoodPast(e2, d2, p2, h)
  BY <1>0 DEF Good, GoodCopy, GoodFlow, GoodPast, CalmEntry, CalmFlow, CalmEmit, Owned, Saved, Entry, Proc, Pasts, Flows, Emits
<1> QED
  BY <1>1, <1>2, <1>3, <1>4 DEF Good

-----------------------------------------------------------------------------
(* The shared steps of the handlers are calm.                              *)

Normal(e, p) ==
    /\ e \in Entry /\ p \in Proc
    /\ ~e.listed => e = Absent
    /\ e.listed /\ e.handled => Ended(e)
    /\ Pending(p) => e.listed

LEMMA LeftKeeps ==
    ASSUME NEW p \in Proc
    PROVE  Left(p) \in Proc /\ Left(p).flow = p.flow /\ Left(p).emit = p.emit /\ ~Pending(Left(p))
<1>1. Left(p) \in Proc
  BY DEF Left, Proc
<1>2. Left(p).flow = p.flow /\ Left(p).emit = p.emit
  BY DEF Left, Proc
<1>3. /\ Left(p).due = 0 /\ Left(p).early = 0
      /\ ~Left(p).grace /\ ~Left(p).waits
  BY DEF Left, Proc
<1> QED
  BY <1>1, <1>2, <1>3 DEF Pending

\* Nothing happens, or the process state only changes where Calm does not look.
LEMMA SameIsCalm ==
    ASSUME NEW e, NEW p, NEW p2 \in Proc, Normal(e, p),
           p2.flow = p.flow, p2.emit \in {p.emit, "no"}, Pending(p2) => e.listed
    PROVE  Calm(e, p, e, p2)
BY DEF Normal, Calm, CalmEntry, CalmFlow, CalmEmit, Entry, Proc

\* The entry is completed.
LEMMA CompletedIsCalm ==
    ASSUME NEW e, NEW p, NEW p2 \in Proc, Normal(e, p), e.listed,
           p2.flow \in {p.flow, "no"}, p2.emit \in {p.emit, "no"}
    PROVE  Calm(e, p, [e EXCEPT !.completed = TRUE], p2)
BY DEF Normal, Calm, CalmEntry, CalmFlow, CalmEmit, Entry, Proc, Ended, Reasons

\* The entry goes.
LEMMA DroppedIsCalm ==
    ASSUME NEW e, NEW p, NEW p2 \in Proc, Normal(e, p),
           p2.flow \in {p.flow, "no"}, p2.emit \in {p.emit, "no"}
    PROVE  Calm(e, p, Absent, Left(p2))
BY LeftKeeps, AbsentInEntry DEF Normal, Calm, CalmEntry, CalmFlow, CalmEmit

\* A flow is started for an ended run that no steer mutes.  The process state
\* q it is started in may differ from p where Calm does not look.
LEMMA StartFlowIsCalm ==
    ASSUME NEW e, NEW p, NEW q \in Proc, Normal(e, p),
           e.listed => Ended(e) /\ e.suppress # "steer",
           q.flow = p.flow, q.emit \in {p.emit, "no"}, Pending(q) => e.listed
    PROVE  Calm(e, p, StartFlow(e, q).entry, StartFlow(e, q).proc)
<1>1. CASE ~e.listed \/ e.completed \/ e.handled
  <2>1. StartFlow(e, q).entry = e /\ StartFlow(e, q).proc = q
    BY <1>1 DEF StartFlow, State
  <2> QED
    BY <2>1, SameIsCalm
<1>2. CASE ~(~e.listed \/ e.completed \/ e.handled)
  <2> DEFINE e2 == [e EXCEPT !.handled = TRUE]
             q2 == [q EXCEPT !.flow = "running"]
  <2>1. StartFlow(e, q).entry = e2 /\ StartFlow(e, q).proc = q2
    BY <1>2 DEF StartFlow, State
  <2>2. e2 \in Entry /\ q2 \in Proc /\ q2.emit = q.emit /\ q2.flow = "running"
    BY DEF Normal, Entry, Proc, Flows
  <2>3. Calm(e, p, e2, q2)
    BY <1>2, <2>2 DEF Normal, Calm, CalmEntry, CalmFlow, CalmEmit, Ended, Entry, Proc, Pending
  <2> QED
    BY <2>1, <2>3
<1> QED
  BY <1>1, <1>2

LEMMA ResumeIsCalm ==
    ASSUME NEW r, NEW e, NEW p, NEW q \in Proc, Normal(e, p), e.listed,
           q.flow = p.flow, q.emit = p.emit
    PROVE  Calm(e, p, Resume(r, e, q).entry, Resume(r, e, q).proc)
<1> DEFINE marked == [q EXCEPT !.resumed = TRUE]
           s == Resume(r, e, q)
<1>1. marked \in Proc /\ marked.flow = p.flow /\ marked.emit = p.emit
  BY DEF Proc
<1>2. [marked EXCEPT !.due = @ + 1] \in Proc /\ [marked EXCEPT !.waits = TRUE] \in Proc
  <2>1. marked.due + 1 \in Nat
    BY <1>1 DEF Proc
  <2> QED
    BY <1>1, <2>1 DEF Proc
<1>3. Calm(e, p, Absent, Left(q))
  BY DroppedIsCalm
<1>4. Calm(e, p, e, q) /\ Calm(e, p, e, marked)
  BY <1>1, SameIsCalm
<1>5. Calm(e, p, [e EXCEPT !.completed = TRUE], q)
  BY CompletedIsCalm
<1>6. /\ Calm(e, p, e, [marked EXCEPT !.due = @ + 1])
      /\ Calm(e, p, e, [marked EXCEPT !.waits = TRUE])
  BY <1>1, <1>2, SameIsCalm DEF Proc
<1>7. Ended(e) /\ e.suppress # "steer"
         => Calm(e, p, StartFlow(e, marked).entry, StartFlow(e, marked).proc)
  BY <1>1, StartFlowIsCalm
<1> HIDE DEF marked
<1>8. \/ s = State(Absent, Left(q))
      \/ s = State(e, q)
      \/ s = State([e EXCEPT !.completed = TRUE], q)
      \/ s = State(e, [marked EXCEPT !.due = @ + 1])
      \/ s = State(e, [marked EXCEPT !.waits = TRUE])
      \/ s = State(e, marked)
      \/ s = StartFlow(e, marked) /\ Ended(e) /\ e.suppress # "steer"
  BY DEF Resume, marked
<1>9. ASSUME NEW e2, NEW p2, Calm(e, p, e2, p2), s = State(e2, p2)
      PROVE  Calm(e, p, s.entry, s.proc)
  BY <1>9 DEF State
<1> HIDE DEF s
<1>10. Calm(e, p, s.entry, s.proc)
  BY <1>3, <1>4, <1>5, <1>6, <1>7, <1>8, <1>9
<1> QED
  BY <1>10 DEF s

LEMMA AwakeIsCalm ==
    ASSUME NEW r, NEW e, NEW p, Normal(e, p)
    PROVE  Calm(e, p, Awake(r, e, p).entry, Awake(r, e, p).proc)
<1> DEFINE q == [p EXCEPT !.resumed = FALSE]
           s == Awake(r, e, p)
<1>1. p \in Proc /\ q \in Proc /\ q.flow = p.flow /\ q.emit = p.emit
  BY DEF Normal, Proc
<1>2. Calm(e, p, e, p)
  BY <1>1, SameIsCalm DEF Normal
<1>3. e.listed => Calm(e, p, [e EXCEPT !.completed = TRUE], p)
  BY <1>1, CompletedIsCalm
<1>4. e.listed => Calm(e, p, Resume(r, e, q).entry, Resume(r, e, q).proc)
  BY <1>1, ResumeIsCalm
<1>5. \/ s = State(e, p)
      \/ e.listed /\ s = State([e EXCEPT !.completed = TRUE], p)
      \/ e.listed /\ s = Resume(r, e, q)
  BY DEF Awake
<1>6. ASSUME NEW e2, NEW p2, Calm(e, p, e2, p2), s = State(e2, p2)
      PROVE  Calm(e, p, s.entry, s.proc)
  BY <1>6 DEF State
<1> HIDE DEF s, q
<1>7. Calm(e, p, s.entry, s.proc)
  BY <1>2, <1>3, <1>4, <1>5, <1>6
<1> QED
  BY <1>7 DEF s

\* Recording an end changes nothing that Calm looks at in the old entry.
LEMMA CalmAfterEnd ==
    ASSUME NEW e \in Entry, NEW reason \in Reasons, NEW p, NEW e2, NEW p2, reason # "none",
           Calm([e EXCEPT !.reason = reason], p, e2, p2)
    PROVE  Calm(e, p, e2, p2)
<1> DEFINE f == [e EXCEPT !.reason = reason]
<1>1. /\ f.listed = e.listed /\ f.handled = e.handled /\ f.completed = e.completed
      /\ f.retries = e.retries /\ f.suppress = e.suppress /\ Ended(f)
  BY DEF Entry, Ended, Reasons
<1> HIDE DEF f
<1> QED
  BY <1>1 DEF Calm, CalmEntry, CalmFlow, CalmEmit, f

\* Nor does the answer of an agent.wait call.
LEMMA CalmAfterWait ==
    ASSUME NEW e, NEW p, NEW e2, NEW p2, Calm(e, p, e2, p2)
    PROVE  Calm(e, p, e2, [p2 EXCEPT !.waits = FALSE])
BY DEF Calm, CalmFlow, CalmEmit, Proc, Pending

\* A report of the end of a listed run.
LEMMA CompleteRunIsCalm ==
    ASSUME NEW r \in Runs, NEW reason \in {"complete", "error"},
           Normal(reg[r], proc[r]), reg[r].listed
    PROVE  Calm(reg[r], proc[r], CompleteRun(r, reason).entry, CompleteRun(r, reason).proc)
<1> DEFINE e == [reg[r] EXCEPT !.reason = reason]
           p == [proc[r] EXCEPT !.grace = FALSE]
           s == CompleteRun(r, reason)
<1>1. /\ e \in Entry /\ e.listed /\ Ended(e)
      /\ reg[r] \in Entry /\ proc[r] \in Proc
      /\ p \in Proc /\ p.flow = proc[r].flow /\ p.emit = proc[r].emit
      /\ [p EXCEPT !.emit = "end"] \in Proc
  BY DEF Normal, Entry, Proc, Ended, Reasons, Emits
<1>2. Normal(e, proc[r])
  BY <1>1 DEF Normal
<1>3. Calm(e, proc[r], e, p)
  BY <1>1, <1>2, SameIsCalm
<1>4. e.suppress # "steer"
         => Calm(e, proc[r], StartFlow(e, p).entry, StartFlow(e, p).proc)
  BY <1>1, <1>2, StartFlowIsCalm
<1>5. e.suppress # "steer" => Calm(e, proc[r], e, [p EXCEPT !.emit = "end"])
  BY <1>1 DEF Calm, CalmEntry, CalmFlow, CalmEmit, Proc, Pending, Entry
<1>6. \/ s = State(e, p)
      \/ e.suppress # "steer" /\ s = State(e, [p EXCEPT !.emit = "end"])
      \/ e.suppress # "steer" /\ s = StartFlow(e, p)
  BY DEF CompleteRun
<1>7. ASSUME NEW e2, NEW p2, Calm(e, proc[r], e2, p2), s = State(e2, p2)
      PROVE  Calm(e, proc[r], s.entry, s.proc)
  BY <1>7 DEF State
<1>8. reason \in Reasons /\ reason # "none"
  BY DEF Reasons
<1> HIDE DEF s, p
<1>9. Calm(e, proc[r], s.entry, s.proc)
  BY <1>3, <1>4, <1>5, <1>6, <1>7
<1> QED
  BY <1>1, <1>8, <1>9, CalmAfterEnd DEF s

-----------------------------------------------------------------------------
(* Steps that are calm for every run.                                      *)

LEMMA GoodIsNormal ==
    ASSUME IndInv, NEW r \in Runs
    PROVE  /\ Normal(reg[r], proc[r])
           /\ reg[r] \in Entry /\ disk[r] \in Entry /\ proc[r] \in Proc
           /\ Past(r) \in Pasts
           /\ Good(reg[r], disk[r], proc[r], Past(r))
<1>1. reg[r] \in Entry /\ disk[r] \in Entry /\ proc[r] \in Proc
  BY DEF IndInv, TypeOK
<1>2. Past(r) \in Pasts
  BY DEF IndInv, TypeOK, Past, Pasts
<1>3. Good(reg[r], disk[r], proc[r], Past(r))
  BY DEF IndInv, AllGood
<1> QED
  BY <1>1, <1>2, <1>3 DEF Normal, Good, GoodCopy, GoodFlow

\* What a step leaves behind, besides the types of the variables around.
Kept ==
    /\ AllGood
    /\ DownIsEmpty
    /\ SpawningStarted
    /\ MutedOnlyWhileSteering

TablesOK ==
    /\ reg \in [Runs -> Entry]
    /\ proc \in [Runs -> Proc]
    /\ disk \in [Runs -> Entry]

LEMMA CalmStep ==
    ASSUME IndInv, TablesOK',
           \A q \in Runs : Calm(reg[q], proc[q], reg'[q], proc'[q]),
           \A q \in Runs : Saved(disk[q], reg[q], reg'[q], disk'[q]),
           \A q \in Runs : Past(q)' = Past(q),
           \A q \in Runs : child'[q] = "none" => child[q] = "none",
           UNCHANGED <<up, crashes, steering, spawning>>
    PROVE  Kept'
<1>1. AllGood'
  <2>1. ASSUME NEW q \in Runs
        PROVE  Good(reg'[q], disk'[q], proc'[q], Past(q)')
    BY GoodIsNormal, CalmKeepsGood
  <2> QED
    BY <2>1 DEF AllGood
<1>2. ASSUME NEW q \in Runs
      PROVE  reg'[q] = Absent
             \/ (reg[q].listed /\ reg'[q].suppress = reg[q].suppress)
  BY DEF Calm, CalmEntry
<1>3. DownIsEmpty'
  <2> SUFFICES ASSUME ~up'
               PROVE  reg' = [r \in Runs |-> Absent]
    BY DEF IndInv, DownIsEmpty
  <2>1. ASSUME NEW q \in Runs
        PROVE  ~reg[q].listed
    <3>1. reg[q] = Absent
      BY DEF IndInv, DownIsEmpty
    <3> QED
      BY <3>1 DEF Absent
  <2>2. \A q \in Runs : reg'[q] = Absent
    BY <1>2, <2>1
  <2>3. reg' \in [Runs -> Entry]
    BY DEF TablesOK
  <2> QED
    BY <2>2, <2>3
<1>4. SpawningStarted'
  BY DEF IndInv, SpawningStarted, TypeOK
<1>5. MutedOnlyWhileSteering'
  <2> SUFFICES ASSUME crashes' = 0, NEW q \in Runs, reg'[q].suppress = "steer"
               PROVE  q \in steering'
    BY DEF MutedOnlyWhileSteering
  <2>1. reg[q].suppress = "steer" /\ crashes = 0 /\ steering' = steering
    BY <1>2 DEF Absent
  <2>2. crashes = 0 => \A x \in Runs : reg[x].suppress = "steer" => x \in steering
    BY DEF IndInv, MutedOnlyWhileSteering
  <2> QED
    BY <2>1, <2>2
<1> QED
  BY <1>1, <1>3, <1>4, <1>5 DEF Kept

\* One run changes calmly, and the table is saved with it.
LEMMA BecomesCalmly ==
    ASSUME IndInv, NEW r \in Runs, NEW s,
           Calm(reg[r], proc[r], s.entry, s.proc), Becomes(r, s)
    PROVE  /\ TablesOK'
           /\ \A q \in Runs : Calm(reg[q], proc[q], reg'[q], proc'[q])
           /\ \A q \in Runs : Saved(disk[q], reg[q], reg'[q], disk'[q])
<1>1. s.entry \in Entry /\ s.proc \in Proc
  BY DEF Calm
<1>2. TablesOK'
  BY <1>1 DEF Becomes, TablesOK, IndInv, TypeOK
<1>3. ASSUME NEW q \in Runs
      PROVE  /\ Calm(reg[q], proc[q], reg'[q], proc'[q])
             /\ Saved(disk[q], reg[q], reg'[q], disk'[q])
  <2>1. CASE q = r
    BY <2>1 DEF Becomes, Saved, IndInv, TypeOK
  <2>2. CASE q # r
    <3>1. reg'[q] = reg[q] /\ proc'[q] = proc[q]
      BY <2>2 DEF Becomes, IndInv, TypeOK
    <3>2. Calm(reg[q], proc[q], reg[q], proc[q])
      BY GoodIsNormal, SameIsCalm DEF Normal
    <3> QED
      BY <3>1, <3>2 DEF Becomes, Saved
  <2> QED
    BY <2>1, <2>2
<1> QED
  BY <1>2, <1>3

\* One run is completed or goes, and every other one is woken.
LEMMA BookkeepCalmly ==
    ASSUME IndInv, NEW r \in Runs, NEW e \in Entry, NEW p \in Proc, NEW drop \in BOOLEAN,
           Bookkeep(r, e, p, drop),
           Calm(reg[r], proc[r], Absent, Left(p)),
           e.listed => Calm(reg[r], proc[r], [e EXCEPT !.completed = TRUE], p)
    PROVE  /\ TablesOK'
           /\ \A q \in Runs : Calm(reg[q], proc[q], reg'[q], proc'[q])
           /\ \A q \in Runs : Saved(disk[q], reg[q], reg'[q], disk'[q])
<1> DEFINE after(q) == IF q # r THEN Awake(q, reg[q], proc[q])
                       ELSE IF drop \/ ~e.listed THEN State(Absent, Left(p))
                       ELSE State([e EXCEPT !.completed = TRUE], p)
<1>1. ASSUME NEW q \in Runs
      PROVE  Calm(reg[q], proc[q], after(q).entry, after(q).proc)
  <2>1. CASE q # r
    BY <2>1, GoodIsNormal, AwakeIsCalm
  <2>2. CASE q = r
    BY <2>2 DEF State
  <2> QED
    BY <2>1, <2>2
<1>2. /\ reg' = [q \in Runs |-> after(q).entry]
      /\ proc' = [q \in Runs |-> after(q).proc]
      /\ disk' = reg'
  BY DEF Bookkeep
<1> HIDE DEF after
<1>3. TablesOK'
  BY <1>1, <1>2 DEF TablesOK, Calm
<1> QED
  BY <1>1, <1>2, <1>3 DEF Saved

\* One run changes in a way of its own, calmly or not, the others calmly.
LEMMA MixedStep ==
    ASSUME IndInv, NEW r \in Runs, TablesOK',
           \A q \in Runs \ {r} : /\ Calm(reg[q], proc[q], reg'[q], proc'[q])
                                 /\ Saved(disk[q], reg[q], reg'[q], disk'[q])
                                 /\ Past(q)' = Past(q),
           Good(reg'[r], disk'[r], proc'[r], Past(r)')
    PROVE  AllGood'
<1>1. ASSUME NEW q \in Runs
      PROVE  Good(reg'[q], disk'[q], proc'[q], Past(q)')
  <2>1. CASE q # r
    BY <2>1, GoodIsNormal, CalmKeepsGood
  <2> QED
    BY <2>1
<1> QED
  BY <1>1 DEF AllGood

LEMMA UnchangedIsCalm ==
    ASSUME IndInv, NEW q \in Runs, reg'[q] = reg[q], proc'[q] = proc[q],
           disk'[q] \in {disk[q], reg[q]}
    PROVE  /\ Calm(reg[q], proc[q], reg'[q], proc'[q])
           /\ Saved(disk[q], reg[q], reg'[q], disk'[q])
<1>1. Calm(reg[q], proc[q], reg[q], proc[q])
  BY GoodIsNormal, SameIsCalm DEF Normal
<1> QED
  BY <1>1 DEF Saved

LEMMA BecomesOthers ==
    ASSUME IndInv, NEW r \in Runs, NEW s, s.entry \in Entry, s.proc \in Proc, Becomes(r, s)
    PROVE  /\ TablesOK'
           /\ reg'[r] = s.entry /\ proc'[r] = s.proc
           /\ disk'[r] = s.entry \/ (disk'[r] = disk[r] /\ s.entry = reg[r])
           /\ \A q \in Runs \ {r} : /\ reg'[q] = reg[q]
                                     /\ Calm(reg[q], proc[q], reg'[q], proc'[q])
                                     /\ Saved(disk[q], reg[q], reg'[q], disk'[q])
<1>1. TablesOK'
  BY DEF Becomes, TablesOK, IndInv, TypeOK
<1>2. /\ reg'[r] = s.entry /\ proc'[r] = s.proc
      /\ disk'[r] = s.entry \/ (disk'[r] = disk[r] /\ s.entry = reg[r])
  BY DEF Becomes, IndInv, TypeOK
<1>3. ASSUME NEW q \in Runs \ {r}
      PROVE  /\ reg'[q] = reg[q]
             /\ Calm(reg[q], proc[q], reg'[q], proc'[q])
             /\ Saved(disk[q], reg[q], reg'[q], disk'[q])
  <2>1. reg'[q] = reg[q] /\ proc'[q] = proc[q] /\ disk'[q] \in {disk[q], reg[q]}
    BY DEF Becomes, IndInv, TypeOK
  <2> QED
    BY <2>1, UnchangedIsCalm
<1> QED
  BY <1>1, <1>2, <1>3

LEMMA UpWhen ==
    ASSUME IndInv, NEW r \in Runs, reg[r].listed \/ r \in spawning \/ r \in steering
    PROVE  up
BY DEF IndInv, DownIsEmpty, Absent

-----------------------------------------------------------------------------
(* The steps, one lemma per kind.                                          *)

LEMMA InitGood == Init => IndInv
<1> SUFFICES ASSUME Init PROVE IndInv
  OBVIOUS
<1> USE DEF Init, RegistryInit
<1>1. TypeOK
  <2>1. reg \in [Runs -> Entry] /\ disk \in [Runs -> Entry] /\ proc \in [Runs -> Proc]
    BY AbsentInEntry
  <2>2. crashes \in 0 .. MaxCrashes
    BY RegistryBoundsAssumption
  <2> QED
    BY <2>1, <2>2 DEF TypeOK
<1>2. AllGood
  <2> SUFFICES ASSUME NEW r \in Runs
               PROVE  Good(Absent, Absent, Idle, Past(r))
    BY DEF AllGood
  <2>1. /\ Past(r).announced = 0 /\ Past(r).attempts = 0
        /\ ~Past(r).killed /\ ~Past(r).replaced /\ ~Past(r).steering
    BY DEF Past
  <2>2. ~Absent.listed /\ ~Absent.completed
    BY DEF Absent
  <2>3. Idle.flow = "no" /\ Idle.emit = "no" /\ ~Pending(Idle)
    BY DEF Idle, Pending
  <2> QED
    BY <2>1, <2>2, <2>3, RegistryBoundsAssumption DEF Good, GoodCopy, GoodFlow, GoodPast
<1>3. DownIsEmpty /\ SpawningStarted /\ MutedOnlyWhileSteering
  BY DEF DownIsEmpty, SpawningStarted, MutedOnlyWhileSteering, Absent
<1> QED
  BY <1>1, <1>2, <1>3 DEF IndInv

LEMMA SpawnKeeps ==
    ASSUME IndInv, NEW r \in Runs, Spawn(r)
    PROVE  IndInv'
<1> USE DEF Spawn, registryVars, history
<1>1. child[r] = "none" /\ up
  OBVIOUS
<1>2. ASSUME NEW q \in Runs PROVE Past(q)' = Past(q)
  BY <1>1 DEF Past, IndInv, TypeOK
<1>3. AllGood'
  BY <1>2 DEF IndInv, AllGood
<1>4. TypeOK'
  BY RunsAssumption DEF IndInv, TypeOK
<1>5. DownIsEmpty' /\ SpawningStarted' /\ MutedOnlyWhileSteering'
  BY <1>1 DEF IndInv, TypeOK, DownIsEmpty, SpawningStarted, MutedOnlyWhileSteering
<1> QED
  BY <1>3, <1>4, <1>5 DEF IndInv

LEMMA RegisterKeeps ==
    ASSUME IndInv, NEW r \in Runs, Register(r)
    PROVE  IndInv'
<1> USE DEF Register, history
<1> DEFINE p == [proc[r] EXCEPT !.waits = TRUE]
           s == State(NewEntry, p)
<1>1. /\ s.entry = NewEntry /\ s.proc = p /\ p \in Proc
      /\ p.flow = proc[r].flow /\ p.emit = proc[r].emit
  BY GoodIsNormal DEF State, Proc
<1>2. Becomes(r, s) /\ NewEntry \in Entry
  BY AbsentInEntry
<1>3. /\ reg[r] = Absent /\ disk[r] = Absent
      /\ proc[r].flow = "no" /\ proc[r].emit = "no"
      /\ announced[r] = 0 /\ attempts[r] = 0
      /\ r \notin killed /\ r \notin replaced /\ r \notin steering
  BY GoodIsNormal DEF Good, GoodPast, Past
<1> HIDE DEF s
<1>4. TablesOK' /\ reg'[r] = NewEntry /\ proc'[r] = p /\ disk'[r] = NewEntry
  BY <1>1, <1>2, <1>3, BecomesOthers DEF NewEntry, Absent
<1>5. ASSUME NEW q \in Runs \ {r} PROVE Past(q)' = Past(q)
  BY DEF Past
<1>6. Good(NewEntry, NewEntry, p, Past(r)')
  <2>1. child[r] # "none"
    BY DEF IndInv, SpawningStarted
  <2>2. /\ Past(r)'.announced = 0 /\ Past(r)'.attempts = 0
        /\ ~Past(r)'.killed /\ ~Past(r)'.replaced /\ ~Past(r)'.steering /\ ~Past(r)'.fresh
    BY <1>3, <2>1 DEF Past
  <2>3. /\ NewEntry.listed /\ ~NewEntry.handled /\ ~NewEntry.completed
        /\ NewEntry.retries = 0
    BY DEF NewEntry, Absent
  <2> QED
    BY <1>1, <1>3, <2>2, <2>3, RegistryBoundsAssumption
       DEF Good, GoodCopy, GoodFlow, GoodPast, Owned
<1>7. AllGood'
  BY <1>1, <1>2, <1>4, <1>5, <1>6, BecomesOthers, MixedStep
<1>8. TypeOK'
  BY <1>4 DEF TablesOK, IndInv, TypeOK
<1>9. DownIsEmpty' /\ SpawningStarted'
  BY UpWhen DEF IndInv, DownIsEmpty, SpawningStarted
<1>10. MutedOnlyWhileSteering'
  BY <1>1, <1>2, <1>4, BecomesOthers DEF IndInv, MutedOnlyWhileSteering, NewEntry, Absent
<1> QED
  BY <1>7, <1>8, <1>9, <1>10 DEF IndInv

\* A step that changes only the process state of r, where Calm does not look
\* or from running to delivered, and leaves the tables alone.
LEMMA ProcStep ==
    ASSUME IndInv, NEW r \in Runs, NEW p, p \in Proc,
           proc' = [proc EXCEPT ![r] = p], UNCHANGED <<reg, disk>>,
           Calm(reg[r], proc[r], reg[r], p)
    PROVE  /\ TablesOK'
           /\ \A q \in Runs : Calm(reg[q], proc[q], reg'[q], proc'[q])
           /\ \A q \in Runs : Saved(disk[q], reg[q], reg'[q], disk'[q])
<1>1. TablesOK'
  BY DEF TablesOK, IndInv, TypeOK
<1>2. ASSUME NEW q \in Runs
      PROVE  /\ Calm(reg[q], proc[q], reg'[q], proc'[q])
             /\ Saved(disk[q], reg[q], reg'[q], disk'[q])
  <2>1. CASE q = r
    BY <2>1 DEF Saved, IndInv, TypeOK
  <2>2. CASE q # r
    BY <2>2, UnchangedIsCalm DEF IndInv, TypeOK
  <2> QED
    BY <2>1, <2>2
<1> QED
  BY <1>1, <1>2

LEMMA LifecycleKeeps ==
    ASSUME IndInv, NEW r \in Runs, LifecycleStart(r) \/ LifecycleError(r) \/ LifecycleEnd(r)
    PROVE  IndInv'
<1>1. UNCHANGED <<up, crashes, steering, spawning, dirty, sessions, cooling>>
  BY DEF LifecycleStart, LifecycleError, LifecycleEnd
<1>2. UNCHANGED history
  BY DEF LifecycleStart, LifecycleError, LifecycleEnd
<1>3. /\ child' \in [Runs -> {"none", "running", "failed", "over", "gone"}]
      /\ \A q \in Runs : child'[q] = "none" <=> child[q] = "none"
  BY DEF LifecycleStart, LifecycleError, LifecycleEnd, IndInv, TypeOK
<1>4. ASSUME NEW q \in Runs PROVE Past(q)' = Past(q)
  BY <1>1, <1>2, <1>3 DEF Past, history
<1>5. expired' \subseteq Runs
  BY DEF LifecycleStart, LifecycleError, LifecycleEnd, IndInv, TypeOK
<1>6. /\ TablesOK'
      /\ \A q \in Runs : Calm(reg[q], proc[q], reg'[q], proc'[q])
      /\ \A q \in Runs : Saved(disk[q], reg[q], reg'[q], disk'[q])
  <2>1. CASE LifecycleStart(r)
    <3> DEFINE p == [proc[r] EXCEPT !.grace = FALSE]
    <3>1. p \in Proc /\ p.flow = proc[r].flow /\ p.emit = proc[r].emit /\ (Pending(p) => Pending(proc[r]))
      BY GoodIsNormal DEF Proc, Pending
    <3>2. Calm(reg[r], proc[r], reg[r], p)
      BY <3>1, GoodIsNormal, SameIsCalm DEF Normal
    <3> QED
      BY <2>1, <3>1, <3>2, ProcStep DEF LifecycleStart
  <2>2. CASE LifecycleError(r)
    <3> DEFINE p == [proc[r] EXCEPT !.grace = @ \/ reg[r].listed]
    <3>1. p \in Proc /\ p.flow = proc[r].flow /\ p.emit = proc[r].emit
          /\ (Pending(p) => Pending(proc[r]) \/ reg[r].listed)
      BY GoodIsNormal DEF Proc, Pending
    <3>2. Calm(reg[r], proc[r], reg[r], p)
      BY <3>1, GoodIsNormal, SameIsCalm DEF Normal
    <3> QED
      BY <2>2, <3>1, <3>2, ProcStep DEF LifecycleError
  <2>3. CASE LifecycleEnd(r)
    <3>1. CASE reg[r].listed
      BY <2>3, <3>1, GoodIsNormal, CompleteRunIsCalm, BecomesCalmly DEF LifecycleEnd
    <3>2. CASE ~reg[r].listed
      BY <2>3, <3>2, UnchangedIsCalm DEF LifecycleEnd, TablesOK, IndInv, TypeOK
    <3> QED
      BY <3>1, <3>2
  <2> QED
    BY <2>1, <2>2, <2>3
<1>7. Kept'
  BY <1>1, <1>3, <1>4, <1>6, CalmStep
<1>8. TypeOK'
  BY <1>1, <1>2, <1>3, <1>5, <1>6 DEF TablesOK, IndInv, TypeOK, history
<1> QED
  BY <1>7, <1>8 DEF IndInv, Kept

\* The other reports, the emission of the hook, the timers, the sweeper and
\* the clock leave the child runs and the past alone.
LEMMA QuietStep ==
    ASSUME IndInv, TablesOK',
           \A q \in Runs : Calm(reg[q], proc[q], reg'[q], proc'[q]),
           \A q \in Runs : Saved(disk[q], reg[q], reg'[q], disk'[q]),
           dirty' \in BOOLEAN, sessions' \subseteq Sessions, cooling' \subseteq Runs,
           expired' \subseteq Runs,
           UNCHANGED <<up, child, spawning, steering, crashes, history>>
    PROVE  IndInv'
<1>1. \A q \in Runs : Past(q)' = Past(q)
  BY DEF Past, history
<1>2. Kept'
  BY <1>1, CalmStep
<1>3. TypeOK'
  BY DEF TablesOK, IndInv, TypeOK, history
<1> QED
  BY <1>2, <1>3 DEF IndInv, Kept

LEMMA ReportKeeps ==
    ASSUME IndInv, NEW r \in Runs, GraceEnds(r) \/ WaitAnswered(r) \/ WaitFails(r)
    PROVE  IndInv'
<1>1. CASE GraceEnds(r) /\ reg[r].reason = "complete"
  <2> DEFINE p == [proc[r] EXCEPT !.grace = FALSE]
  <2>1. p \in Proc /\ p.flow = proc[r].flow /\ p.emit = proc[r].emit /\ (Pending(p) => Pending(proc[r]))
    BY GoodIsNormal DEF Proc, Pending
  <2>2. Calm(reg[r], proc[r], reg[r], p)
    BY <2>1, GoodIsNormal, SameIsCalm DEF Normal
  <2>3. proc' = [proc EXCEPT ![r] = p] /\ UNCHANGED <<reg, disk>>
    BY <1>1 DEF GraceEnds
  <2> HIDE DEF p
  <2> QED
    BY <1>1, <2>1, <2>2, <2>3, ProcStep, QuietStep DEF GraceEnds, IndInv, TypeOK, history
<1>2. CASE GraceEnds(r) /\ reg[r].reason # "complete"
  <2>1. reg[r].listed
    BY <1>2, GoodIsNormal DEF GraceEnds, Normal, Pending
  <2>2. Becomes(r, CompleteRun(r, "error"))
    BY <1>2 DEF GraceEnds
  <2>3. Calm(reg[r], proc[r], CompleteRun(r, "error").entry, CompleteRun(r, "error").proc)
    BY <2>1, GoodIsNormal, CompleteRunIsCalm
  <2> QED
    BY <1>2, <2>2, <2>3, BecomesCalmly, QuietStep DEF GraceEnds, IndInv, TypeOK, history
<1>3. CASE WaitAnswered(r)
  <2>1. PICK reason \in {"complete", "error"} :
            LET s == CompleteRun(r, reason)
            IN  Becomes(r, State(s.entry, [s.proc EXCEPT !.waits = FALSE]))
    BY <1>3 DEF WaitAnswered, Answers
  <2> DEFINE s == CompleteRun(r, reason)
             t == State(s.entry, [s.proc EXCEPT !.waits = FALSE])
  <2>2. reg[r].listed
    BY <1>3, GoodIsNormal DEF WaitAnswered, Normal, Pending
  <2>3. Calm(reg[r], proc[r], s.entry, s.proc)
    BY <2>2, GoodIsNormal, CompleteRunIsCalm
  <2>4. Becomes(r, t)
    BY <2>1
  <2> HIDE DEF s
  <2>5. Calm(reg[r], proc[r], t.entry, t.proc)
    BY <2>3, CalmAfterWait DEF State
  <2> QED
    BY <1>3, <2>4, <2>5, BecomesCalmly, QuietStep
       DEF WaitAnswered, worldVars, IndInv, TypeOK, history
<1>4. CASE WaitFails(r)
  <2> DEFINE p == [proc[r] EXCEPT !.waits = FALSE]
  <2>1. p \in Proc /\ p.flow = proc[r].flow /\ p.emit = proc[r].emit /\ (Pending(p) => Pending(proc[r]))
    BY GoodIsNormal DEF Proc, Pending
  <2>2. Calm(reg[r], proc[r], reg[r], p)
    BY <2>1, GoodIsNormal, SameIsCalm DEF Normal
  <2>3. proc' = [proc EXCEPT ![r] = p] /\ UNCHANGED <<reg, disk>>
    BY <1>4 DEF WaitFails
  <2> HIDE DEF p
  <2> QED
    BY <1>4, <2>1, <2>2, <2>3, ProcStep, QuietStep DEF WaitFails, worldVars, IndInv, TypeOK, history
<1> QED
  BY <1>1, <1>2, <1>3, <1>4

LEMMA FlowSkipsKeeps ==
    ASSUME IndInv, NEW r \in Runs, FlowSkips(r)
    PROVE  IndInv'
<1> DEFINE p == [proc[r] EXCEPT !.flow = "delivered"]
<1>1. /\ p \in Proc /\ p.flow = "delivered" /\ p.emit = proc[r].emit
      /\ proc[r].flow = "running" /\ (Pending(p) => Pending(proc[r]))
  BY GoodIsNormal DEF FlowSkips, Proc, Pending, Flows
<1>2. Calm(reg[r], proc[r], reg[r], p)
  BY <1>1, GoodIsNormal DEF Normal, Calm, CalmEntry, CalmFlow, CalmEmit
<1>3. proc' = [proc EXCEPT ![r] = p] /\ UNCHANGED <<reg, disk>>
  BY DEF FlowSkips
<1> HIDE DEF p
<1> QED
  BY <1>1, <1>2, <1>3, ProcStep, QuietStep DEF FlowSkips, worldVars, IndInv, TypeOK, history

LEMMA FlowReturnsKeeps ==
    ASSUME IndInv, NEW r \in Runs, FlowReturns(r)
    PROVE  IndInv'
<1> DEFINE done == [proc[r] EXCEPT !.flow = "no"]
           awaits == [proc[r] EXCEPT !.flow = "no", !.emit = "announced"]
           drop == SessionOf[r] \in Deleting
<1>1. /\ done \in Proc /\ done.flow = "no" /\ done.emit = proc[r].emit
      /\ awaits \in Proc /\ awaits.flow = "no" /\ awaits.emit = "announced"
      /\ proc[r].flow = "delivered"
      /\ (Pending(done) => Pending(proc[r])) /\ (Pending(awaits) => Pending(proc[r]))
      /\ drop \in BOOLEAN
  <2>1. proc[r] \in Proc /\ proc[r].flow = "delivered"
    BY GoodIsNormal DEF FlowReturns
  <2>2. /\ done \in Proc /\ done.flow = "no" /\ done.emit = proc[r].emit
        /\ (Pending(done) => Pending(proc[r]))
    BY <2>1 DEF Proc, Pending, Flows
  <2>3. /\ awaits \in Proc /\ awaits.flow = "no" /\ awaits.emit = "announced"
        /\ (Pending(awaits) => Pending(proc[r]))
    BY <2>1 DEF Proc, Pending, Flows, Emits
  <2>4. drop \in BOOLEAN
    OBVIOUS
  <2> QED
    BY <2>1, <2>2, <2>3, <2>4
<1>2. Calm(reg[r], proc[r], reg[r], done) /\ Calm(reg[r], proc[r], reg[r], awaits)
  BY <1>1, GoodIsNormal DEF Normal, Calm, CalmEntry, CalmFlow, CalmEmit
<1>3. sessions' \subseteq Sessions
  BY DEF FlowReturns, SessionsAfter, IndInv, TypeOK
<1>4. CASE ~reg[r].listed
  <2>1. proc' = [proc EXCEPT ![r] = done] /\ UNCHANGED <<reg, disk>>
    BY <1>4 DEF FlowReturns
  <2> HIDE DEF done
  <2> QED
    BY <1>1, <1>2, <1>3, <2>1, ProcStep, QuietStep DEF FlowReturns, IndInv, TypeOK, history
<1>5. CASE reg[r].listed
  <2>1. Settle(r, reg[r], "announced", drop)
    BY <1>5 DEF FlowReturns
  <2>2. CASE Expects(r) /\ EmitsHook(r) /\ MustEmit(r)
    <3>1. proc' = [proc EXCEPT ![r] = awaits] /\ UNCHANGED <<reg, disk>>
      BY <2>1, <2>2 DEF Settle, IndInv, TypeOK
    <3> HIDE DEF awaits
    <3> QED
      BY <1>1, <1>2, <1>3, <3>1, ProcStep, QuietStep DEF FlowReturns, IndInv, TypeOK, history
  <2>3. CASE ~(Expects(r) /\ EmitsHook(r) /\ MustEmit(r))
    <3>1. Bookkeep(r, reg[r], done, drop)
      BY <2>1, <2>3 DEF Settle
    <3>2. Calm(reg[r], proc[r], Absent, Left(done))
      BY <1>1, GoodIsNormal, DroppedIsCalm
    <3>3. Calm(reg[r], proc[r], [reg[r] EXCEPT !.completed = TRUE], done)
      BY <1>1, <1>5, GoodIsNormal, CompletedIsCalm
    <3>4. reg[r] \in Entry
      BY GoodIsNormal
    <3> HIDE DEF done, drop
    <3> QED
      BY <1>1, <1>3, <3>1, <3>2, <3>3, <3>4, BookkeepCalmly, QuietStep
         DEF FlowReturns, IndInv, TypeOK, history
  <2> QED
    BY <2>2, <2>3
<1> QED
  BY <1>4, <1>5

\* That the hook was emitted is recorded where Calm does not look.
LEMMA CalmAfterHook ==
    ASSUME NEW e \in Entry, NEW hooked \in BOOLEAN, NEW p, NEW e2, NEW p2,
           Calm([e EXCEPT !.hooked = hooked], p, e2, p2)
    PROVE  Calm(e, p, e2, p2)
<1> DEFINE f == [e EXCEPT !.hooked = hooked]
<1>1. /\ f.listed = e.listed /\ f.handled = e.handled /\ f.completed = e.completed
      /\ f.retries = e.retries /\ f.suppress = e.suppress /\ f.reason = e.reason
  BY DEF Entry
<1> HIDE DEF f
<1> QED
  BY <1>1 DEF Calm, CalmEntry, CalmFlow, CalmEmit, Ended, f

LEMMA HookEmittedKeeps ==
    ASSUME IndInv, NEW r \in Runs, NEW ok \in BOOLEAN, HookEmitted(r, ok)
    PROVE  IndInv'
<1> DEFINE hooked == reg[r].hooked \/ (ok /\ reg[r].listed)
           e == [reg[r] EXCEPT !.hooked = hooked]
           p == [proc[r] EXCEPT !.emit = "no"]
           drop == SessionOf[r] \in Deleting
<1>1. /\ reg[r] \in Entry /\ proc[r] \in Proc /\ hooked \in BOOLEAN
      /\ e \in Entry /\ e.listed = reg[r].listed /\ e.handled = reg[r].handled
      /\ e.reason = reg[r].reason /\ e.suppress = reg[r].suppress
  BY GoodIsNormal DEF Entry
<1>2. /\ p \in Proc /\ p.flow = proc[r].flow /\ p.emit = "no"
      /\ (Pending(p) => Pending(proc[r]))
  BY GoodIsNormal DEF Proc, Emits, Pending
<1>3. ~reg[r].listed => e = Absent
  <2> SUFFICES ASSUME ~reg[r].listed
               PROVE  e = reg[r]
    BY GoodIsNormal DEF Normal
  <2>1. reg[r] = Absent
    BY GoodIsNormal DEF Normal
  <2>2. reg[r].hooked = FALSE /\ reg[r].listed = FALSE
    BY <2>1 DEF Absent
  <2>3. hooked = FALSE
    BY <2>2
  <2> HIDE DEF hooked
  <2> QED
    BY <1>1, <2>2, <2>3 DEF Entry
<1>4. Normal(e, proc[r])
  BY <1>1, <1>2, <1>3, GoodIsNormal DEF Normal, Ended
<1>5. ASSUME NEW e2, NEW p2, Calm(e, proc[r], e2, p2)
      PROVE  Calm(reg[r], proc[r], e2, p2)
  BY <1>1, <1>5, CalmAfterHook
<1>6. CASE proc[r].emit = "end" /\ Becomes(r, StartFlow(e, p))
  <2>1. e.listed => Ended(e) /\ e.suppress # "steer"
    BY <1>1, <1>6, GoodIsNormal DEF Good, GoodFlow, Ended
  <2>2. Calm(e, proc[r], StartFlow(e, p).entry, StartFlow(e, p).proc)
    BY <1>2, <1>4, <2>1, StartFlowIsCalm DEF Normal
  <2> HIDE DEF e, p
  <2> QED
    BY <1>5, <1>6, <2>2, BecomesCalmly, QuietStep DEF HookEmitted, worldVars, IndInv, TypeOK, history
<1>7. CASE proc[r].emit = "kill" /\ Becomes(r, State(e, p))
  <2>1. Calm(e, proc[r], e, p)
    BY <1>2, <1>4, SameIsCalm DEF Normal
  <2> HIDE DEF e, p
  <2>2. Calm(reg[r], proc[r], State(e, p).entry, State(e, p).proc)
    BY <1>5, <2>1 DEF State
  <2> QED
    BY <1>7, <2>2, BecomesCalmly, QuietStep DEF HookEmitted, worldVars, IndInv, TypeOK, history
<1>8. ASSUME NEW d \in BOOLEAN, Bookkeep(r, e, p, d)
      PROVE  IndInv'
  <2>1. Calm(e, proc[r], Absent, Left(p))
    BY <1>2, <1>4, DroppedIsCalm
  <2>2. e.listed => Calm(e, proc[r], [e EXCEPT !.completed = TRUE], p)
    BY <1>2, <1>4, CompletedIsCalm
  <2> HIDE DEF e, p
  <2> QED
    BY <1>1, <1>2, <1>5, <1>8, <2>1, <2>2, BookkeepCalmly, QuietStep
       DEF HookEmitted, worldVars, IndInv, TypeOK, history
<1>9. \/ proc[r].emit = "end" /\ Becomes(r, StartFlow(e, p))
      \/ proc[r].emit = "kill" /\ Becomes(r, State(e, p))
      \/ Bookkeep(r, e, p, drop)
      \/ Bookkeep(r, e, p, FALSE)
  BY DEF HookEmitted
<1>10. drop \in BOOLEAN /\ FALSE \in BOOLEAN
  OBVIOUS
<1> HIDE DEF e, p, drop
<1> QED
  BY <1>6, <1>7, <1>8, <1>9, <1>10

LEMMA ResumeTimerKeeps ==
    ASSUME IndInv, NEW r \in Runs, ResumeTimer(r)
    PROVE  IndInv'
<1> DEFINE timer(p) == Becomes(r, IF p.resumed THEN State(reg[r], p) ELSE Resume(r, reg[r], p))
<1>1. ASSUME NEW p \in Proc, p.flow = proc[r].flow, p.emit = proc[r].emit, reg[r].listed, timer(p)
      PROVE  IndInv'
  <2>1. Calm(reg[r], proc[r], reg[r], p)
    BY <1>1, GoodIsNormal, SameIsCalm DEF Normal
  <2>2. Calm(reg[r], proc[r], Resume(r, reg[r], p).entry, Resume(r, reg[r], p).proc)
    BY <1>1, GoodIsNormal, ResumeIsCalm
  <2>3. PICK s : Becomes(r, s) /\ Calm(reg[r], proc[r], s.entry, s.proc)
    BY <1>1, <2>1, <2>2 DEF State
  <2> QED
    BY <2>3, BecomesCalmly, QuietStep DEF ResumeTimer, worldVars, IndInv, TypeOK, history
<1>2. ASSUME proc[r].due > 0
      PROVE  /\ [proc[r] EXCEPT !.due = @ - 1] \in Proc /\ reg[r].listed
             /\ [proc[r] EXCEPT !.due = @ - 1].flow = proc[r].flow
             /\ [proc[r] EXCEPT !.due = @ - 1].emit = proc[r].emit
  <2>1. proc[r] \in Proc /\ proc[r].due - 1 \in Nat /\ Pending(proc[r])
    BY <1>2, GoodIsNormal DEF Proc, Pending
  <2> QED
    BY <2>1, GoodIsNormal DEF Proc, Normal
<1>3. ASSUME proc[r].early > 0
      PROVE  /\ [proc[r] EXCEPT !.early = @ - 1] \in Proc /\ reg[r].listed
             /\ [proc[r] EXCEPT !.early = @ - 1].flow = proc[r].flow
             /\ [proc[r] EXCEPT !.early = @ - 1].emit = proc[r].emit
  <2>1. proc[r] \in Proc /\ proc[r].early - 1 \in Nat /\ Pending(proc[r])
    BY <1>3, GoodIsNormal DEF Proc, Pending
  <2> QED
    BY <2>1, GoodIsNormal DEF Proc, Normal
<1>4. \/ proc[r].due > 0 /\ timer([proc[r] EXCEPT !.due = @ - 1])
      \/ proc[r].early > 0 /\ timer([proc[r] EXCEPT !.early = @ - 1])
  BY DEF ResumeTimer
<1> HIDE DEF timer
<1> QED
  BY <1>1, <1>2, <1>3, <1>4

LEMMA SweepKeeps ==
    ASSUME IndInv, NEW r \in Runs, SweepTakes(r) \/ SweepDeletes(r) \/ SweepEnds
    PROVE  IndInv'
<1>1. CASE SweepTakes(r)
  <2> DEFINE l == Left(proc[r])
             p == [l EXCEPT !.swept = TRUE]
  <2>1. /\ p \in Proc /\ p.flow = proc[r].flow /\ p.emit = proc[r].emit
        /\ ~Pending(p)
    <3>1. l \in Proc /\ l.flow = proc[r].flow /\ l.emit = proc[r].emit /\ ~Pending(l)
      BY GoodIsNormal, LeftKeeps
    <3> HIDE DEF l
    <3> QED
      BY <3>1 DEF Proc, Pending
  <2>2. Calm(reg[r], proc[r], Absent, p)
    BY <2>1, GoodIsNormal, LeftKeeps, AbsentInEntry DEF Calm, CalmEntry, CalmFlow, CalmEmit
  <2>3. proc' = [proc EXCEPT ![r] = p] /\ reg' = [reg EXCEPT ![r] = Absent] /\ disk' = disk
    BY <1>1 DEF SweepTakes
  <2> HIDE DEF p
  <2>4. TablesOK'
    BY <2>1, <2>3, AbsentInEntry DEF TablesOK, IndInv, TypeOK
  <2>5. ASSUME NEW q \in Runs
        PROVE  /\ Calm(reg[q], proc[q], reg'[q], proc'[q])
               /\ Saved(disk[q], reg[q], reg'[q], disk'[q])
    <3>1. CASE q = r
      BY <2>2, <2>3, <3>1 DEF Saved, IndInv, TypeOK
    <3>2. CASE q # r
      BY <2>3, <3>2, UnchangedIsCalm DEF IndInv, TypeOK
    <3> QED
      BY <3>1, <3>2
  <2> QED
    BY <1>1, <2>4, <2>5, QuietStep DEF SweepTakes, worldVars, IndInv, TypeOK, history
<1>2. CASE SweepDeletes(r)
  <2> DEFINE p == [proc[r] EXCEPT !.swept = FALSE]
  <2>1. p \in Proc /\ p.flow = proc[r].flow /\ p.emit = proc[r].emit /\ (Pending(p) => Pending(proc[r]))
    BY GoodIsNormal DEF Proc, Pending
  <2>2. Calm(reg[r], proc[r], reg[r], p)
    BY <2>1, GoodIsNormal, SameIsCalm DEF Normal
  <2>3. proc' = [proc EXCEPT ![r] = p] /\ UNCHANGED <<reg, disk>> /\ sessions' \subseteq Sessions
    BY <1>2 DEF SweepDeletes, IndInv, TypeOK
  <2> HIDE DEF p
  <2> QED
    BY <1>2, <2>1, <2>2, <2>3, ProcStep, QuietStep DEF SweepDeletes, IndInv, TypeOK, history
<1>3. CASE SweepEnds
  <2>1. TablesOK'
    BY <1>3 DEF SweepEnds, TablesOK, IndInv, TypeOK
  <2>2. ASSUME NEW q \in Runs
        PROVE  /\ Calm(reg[q], proc[q], reg'[q], proc'[q])
               /\ Saved(disk[q], reg[q], reg'[q], disk'[q])
    BY <1>3, UnchangedIsCalm DEF SweepEnds
  <2> QED
    BY <1>3, <2>1, <2>2, QuietStep DEF SweepEnds, worldVars, IndInv, TypeOK, history
<1> QED
  BY <1>1, <1>2, <1>3

LEMMA ClockKeeps ==
    ASSUME IndInv, NEW r \in Runs, BackoffEnds(r) \/ Expires(r)
    PROVE  IndInv'
<1>1. /\ UNCHANGED <<reg, proc, disk, dirty, up, child, sessions, spawning, steering, crashes>>
      /\ UNCHANGED history
      /\ cooling' \subseteq Runs /\ expired' \subseteq Runs
  BY DEF BackoffEnds, Expires, registryVars, IndInv, TypeOK
<1>2. TablesOK'
  BY <1>1 DEF TablesOK, IndInv, TypeOK
<1>3. ASSUME NEW q \in Runs
      PROVE  /\ Calm(reg[q], proc[q], reg'[q], proc'[q])
             /\ Saved(disk[q], reg[q], reg'[q], disk'[q])
  BY <1>1, UnchangedIsCalm
<1> QED
  BY <1>1, <1>2, <1>3, QuietStep DEF IndInv, TypeOK, history

\* What is known of a run whose flow is running.
LEMMA WhileRunning ==
    ASSUME IndInv, NEW r \in Runs, proc[r].flow = "running"
    PROVE  /\ announced[r] = 0 /\ r \notin killed /\ r \notin replaced /\ r \notin steering
           /\ ~Past(r).fresh
           /\ reg[r].listed => /\ reg[r].handled /\ Ended(reg[r])
                              /\ attempts[r] <= reg[r].retries /\ reg[r].retries < MaxRetries
                              /\ proc[r].emit \notin {"announced", "giveUp"}
           /\ disk[r].listed => disk[r].handled
           /\ disk[r].completed /\ reg[r].listed => reg[r].completed
BY GoodIsNormal DEF Good, GoodCopy, GoodFlow, GoodPast, Past, Owned

LEMMA FlowDeliversKeeps ==
    ASSUME IndInv, NEW r \in Runs, FlowDelivers(r)
    PROVE  IndInv'
<1> DEFINE p == [proc[r] EXCEPT !.flow = "delivered"]
<1>1. /\ p \in Proc /\ p.flow = "delivered" /\ p.emit = proc[r].emit
      /\ proc[r].flow = "running" /\ (Pending(p) => Pending(proc[r]))
  BY GoodIsNormal DEF FlowDelivers, Proc, Pending, Flows
<1>2. /\ UNCHANGED <<reg, disk, dirty, worldVars, attempts, killed, replaced>>
      /\ proc' = [proc EXCEPT ![r] = p]
      /\ announced' = [announced EXCEPT ![r] = @ + 1]
  BY DEF FlowDelivers
<1> HIDE DEF p
<1>3. TablesOK' /\ reg'[r] = reg[r] /\ disk'[r] = disk[r] /\ proc'[r] = p
  BY <1>1, <1>2 DEF TablesOK, IndInv, TypeOK
<1>4. \A q \in Runs \ {r} : /\ Calm(reg[q], proc[q], reg'[q], proc'[q])
                            /\ Saved(disk[q], reg[q], reg'[q], disk'[q])
                            /\ Past(q)' = Past(q)
  <2>1. ASSUME NEW q \in Runs \ {r}
        PROVE  reg'[q] = reg[q] /\ proc'[q] = proc[q] /\ disk'[q] = disk[q] /\ Past(q)' = Past(q)
    BY <1>2 DEF IndInv, TypeOK, Past, worldVars
  <2> QED
    BY <2>1, UnchangedIsCalm
<1>5. Good(reg[r], disk[r], p, Past(r)')
  <2> DEFINE h == Past(r)'
  <2>1. /\ h.announced = 1 /\ h.attempts = attempts[r]
        /\ ~h.killed /\ ~h.replaced /\ ~h.steering /\ ~h.fresh
    BY <1>1, <1>2, WhileRunning DEF Past, worldVars, IndInv, TypeOK
  <2> HIDE DEF h
  <2>2. /\ GoodCopy(reg[r], proc[r], Past(r)) /\ GoodCopy(disk[r], proc[r], Past(r))
        /\ GoodFlow(reg[r], proc[r], Past(r)) /\ attempts[r] <= MaxRetries
    BY GoodIsNormal DEF Good, GoodPast, Past
  <2>3. GoodCopy(reg[r], p, h) /\ GoodCopy(disk[r], p, h)
    BY <1>1, <2>2, WhileRunning DEF GoodCopy
  <2>4. GoodFlow(reg[r], p, h)
    BY <1>1, <2>2, WhileRunning DEF GoodFlow
  <2>5. GoodPast(reg[r], disk[r], p, h)
    BY <1>1, <2>1, <2>2, WhileRunning DEF GoodPast
  <2> QED
    BY <2>3, <2>4, <2>5 DEF h, Good
<1>6. AllGood'
  BY <1>3, <1>4, <1>5, MixedStep
<1>7. TypeOK'
  BY <1>2, <1>3 DEF TablesOK, IndInv, TypeOK, worldVars
<1>8. DownIsEmpty' /\ SpawningStarted' /\ MutedOnlyWhileSteering'
  BY <1>2 DEF IndInv, DownIsEmpty, SpawningStarted, MutedOnlyWhileSteering, worldVars
<1> QED
  BY <1>6, <1>7, <1>8 DEF IndInv

\* A failed announce of a listed run.  e is its entry, maybe with one retry
\* more, when the announce is given up.
LEMMA GiveUpKeeps ==
    ASSUME IndInv, NEW r \in Runs, NEW e, proc[r].flow = "running", reg[r].listed,
           Settle(r, e, "giveUp", FALSE),
           \/ e = reg[r] /\ attempts' = attempts
           \/ /\ e = [reg[r] EXCEPT !.retries = @ + 1]
              /\ attempts' = [attempts EXCEPT ![r] = @ + 1],
           sessions' \subseteq Sessions, cooling' \subseteq Runs,
           UNCHANGED <<dirty, up, child, spawning, steering, expired, crashes,
                       announced, killed, replaced>>
    PROVE  IndInv'
<1> DEFINE done == [proc[r] EXCEPT !.flow = "no"]
           awaits == [proc[r] EXCEPT !.flow = "no", !.emit = "giveUp"]
           f == [e EXCEPT !.completed = TRUE]
           h == Past(r)'
<1> USE RegistryBoundsAssumption
<1>1. /\ done \in Proc /\ done.flow = "no" /\ done.emit = proc[r].emit
      /\ (Pending(done) => Pending(proc[r]))
  BY GoodIsNormal DEF Proc, Pending, Flows
<1>2. /\ awaits \in Proc /\ awaits.flow = "no" /\ awaits.emit = "giveUp"
      /\ (Pending(awaits) => Pending(proc[r]))
  BY GoodIsNormal DEF Proc, Pending, Flows, Emits
<1>3. reg[r] \in Entry /\ disk[r] \in Entry /\ attempts[r] \in Nat /\ announced[r] \in Nat
  BY GoodIsNormal DEF IndInv, TypeOK
<1>4. /\ e \in Entry /\ e.listed /\ e.handled /\ Ended(e)
      /\ e.suppress = reg[r].suppress /\ e.completed = reg[r].completed
  <2>1. reg[r].retries + 1 \in 0 .. MaxRetries
    BY <1>3, WhileRunning DEF Entry
  <2> QED
    BY <1>3, <2>1, WhileRunning DEF Entry, Ended
<1>5. /\ f \in Entry /\ f.listed /\ f.handled /\ Ended(f)
      /\ f.suppress = reg[r].suppress /\ f.completed
  BY <1>4 DEF Entry, Ended
<1>6. /\ h.announced = 0 /\ h.attempts \in Nat /\ h.attempts <= MaxRetries
      /\ ~h.killed /\ ~h.replaced /\ ~h.steering /\ ~h.fresh
  <2>1. attempts'[r] \in Nat /\ attempts'[r] <= MaxRetries
    BY <1>3, WhileRunning DEF IndInv, TypeOK, Entry
  <2> QED
    BY <2>1, WhileRunning DEF Past
<1>7. attempts' \in [Runs -> Nat]
  BY DEF IndInv, TypeOK
<1>8. ASSUME NEW q \in Runs \ {r}
      PROVE  Past(q)' = Past(q)
  BY DEF Past, IndInv, TypeOK
<1>9. /\ TablesOK'
      /\ \A q \in Runs \ {r} : /\ Calm(reg[q], proc[q], reg'[q], proc'[q])
                               /\ Saved(disk[q], reg[q], reg'[q], disk'[q])
      /\ Good(reg'[r], disk'[r], proc'[r], h)
      /\ reg'[r].suppress = reg[r].suppress
  <2>1. CASE Expects(r) /\ EmitsHook(r) /\ MustEmit(r)
    <3> HIDE DEF awaits, h
    <3>1. /\ reg' = [reg EXCEPT ![r] = e] /\ disk' = disk
          /\ proc' = [proc EXCEPT ![r] = awaits]
      BY <2>1 DEF Settle, awaits
    <3>2. TablesOK' /\ reg'[r] = e /\ disk'[r] = disk[r] /\ proc'[r] = awaits
      BY <1>2, <1>4, <3>1 DEF TablesOK, IndInv, TypeOK
    <3>3. \A q \in Runs \ {r} : /\ Calm(reg[q], proc[q], reg'[q], proc'[q])
                                /\ Saved(disk[q], reg[q], reg'[q], disk'[q])
      BY <3>1, UnchangedIsCalm DEF IndInv, TypeOK
    <3>4. Good(e, disk[r], awaits, h)
      BY <1>2, <1>4, <1>6, WhileRunning, GoodIsNormal
         DEF Good, GoodCopy, GoodFlow, GoodPast, Normal
    <3> QED
      BY <1>4, <3>2, <3>3, <3>4
  <2>2. CASE ~(Expects(r) /\ EmitsHook(r) /\ MustEmit(r))
    <3>1. Bookkeep(r, e, done, FALSE)
      BY <2>2 DEF Settle
    <3> DEFINE after(q) == IF q # r THEN Awake(q, reg[q], proc[q]) ELSE State(f, done)
    <3> HIDE DEF done, f, h
    <3>2. /\ reg' = [q \in Runs |-> after(q).entry]
          /\ proc' = [q \in Runs |-> after(q).proc]
          /\ disk' = reg'
      BY <1>4, <3>1 DEF Bookkeep, f
    <3>3. ASSUME NEW q \in Runs, q # r
          PROVE  Calm(reg[q], proc[q], after(q).entry, after(q).proc)
      BY <3>3, GoodIsNormal, AwakeIsCalm
    <3>4. after(r).entry = f /\ after(r).proc = done
      BY DEF State
    <3> HIDE DEF after
    <3>5. TablesOK'
      BY <1>1, <1>5, <3>2, <3>3, <3>4 DEF TablesOK, Calm
    <3>6. \A q \in Runs \ {r} : /\ Calm(reg[q], proc[q], reg'[q], proc'[q])
                                /\ Saved(disk[q], reg[q], reg'[q], disk'[q])
      BY <3>2, <3>3 DEF Saved
    <3>7. Good(f, f, done, h)
      BY <1>1, <1>5, <1>6, WhileRunning, GoodIsNormal
         DEF Good, GoodCopy, GoodFlow, GoodPast, Normal
    <3> QED
      BY <1>5, <3>2, <3>4, <3>5, <3>6, <3>7
  <2> QED
    BY <2>1, <2>2
<1>10. AllGood'
  BY <1>8, <1>9, MixedStep
<1>11. TypeOK'
  BY <1>7, <1>9 DEF TablesOK, IndInv, TypeOK
<1>12. DownIsEmpty' /\ SpawningStarted'
  BY UpWhen DEF IndInv, DownIsEmpty, SpawningStarted
<1>13. MutedOnlyWhileSteering'
  <2> SUFFICES ASSUME crashes' = 0, NEW q \in Runs, reg'[q].suppress = "steer"
               PROVE  q \in steering
    BY DEF MutedOnlyWhileSteering
  <2>1. reg[q].suppress = "steer"
    BY <1>9 DEF Calm, CalmEntry, Absent
  <2>2. crashes = 0 => \A x \in Runs : reg[x].suppress = "steer" => x \in steering
    BY DEF IndInv, MutedOnlyWhileSteering
  <2> QED
    BY <2>1, <2>2
<1> QED
  BY <1>10, <1>11, <1>12, <1>13 DEF IndInv

\* A failed announce of a listed run that may be tried again.
LEMMA RetryKeeps ==
    ASSUME IndInv, NEW r \in Runs, NEW e, NEW deferred \in BOOLEAN,
           proc[r].flow = "running", reg[r].listed, Retry(r, e, deferred),
           \/ e = reg[r] /\ attempts' = attempts
           \/ /\ e = [reg[r] EXCEPT !.retries = @ + 1]
              /\ e.retries < MaxRetries
              /\ attempts' = [attempts EXCEPT ![r] = @ + 1],
           sessions' \subseteq Sessions, cooling' \subseteq Runs,
           UNCHANGED <<dirty, up, child, spawning, steering, expired, crashes,
                       announced, killed, replaced>>
    PROVE  IndInv'
<1> DEFINE p == [proc[r] EXCEPT !.flow = "no", !.resumed = FALSE,
                                !.early = proc[r].due + proc[r].early, !.due = 0]
           f == [e EXCEPT !.handled = FALSE]
           h == Past(r)'
<1> USE RegistryBoundsAssumption
<1>1. /\ p \in Proc /\ p.flow = "no" /\ p.emit = proc[r].emit /\ p.early \in Nat
  <2>1. proc[r] \in Proc /\ proc[r].due + proc[r].early \in Nat
    BY GoodIsNormal DEF Proc
  <2> QED
    BY <2>1 DEF Proc, Flows
<1>2. PICK p2 \in Proc : /\ Becomes(r, State(f, p2))
                         /\ p2.flow = "no" /\ p2.emit = proc[r].emit
  <2>1. \/ Becomes(r, State(f, p))
        \/ Becomes(r, State(f, [p EXCEPT !.due = 1]))
        \/ Becomes(r, State(f, [p EXCEPT !.early = @ + 1]))
    BY DEF Retry
  <2> HIDE DEF p, f
  <2>2. /\ [p EXCEPT !.due = 1] \in Proc
        /\ [p EXCEPT !.due = 1].flow = "no" /\ [p EXCEPT !.due = 1].emit = proc[r].emit
    BY <1>1 DEF Proc
  <2>3. /\ [p EXCEPT !.early = @ + 1] \in Proc
        /\ [p EXCEPT !.early = @ + 1].flow = "no" /\ [p EXCEPT !.early = @ + 1].emit = proc[r].emit
    <3>1. p.early + 1 \in Nat
      BY <1>1
    <3> QED
      BY <1>1, <3>1 DEF Proc
  <2> QED
    BY <1>1, <2>1, <2>2, <2>3
<1>3. reg[r] \in Entry /\ disk[r] \in Entry /\ attempts[r] \in Nat
  BY GoodIsNormal DEF IndInv, TypeOK
<1>4. /\ e \in Entry /\ e.listed /\ e.suppress = reg[r].suppress
      /\ e.completed = reg[r].completed /\ e.retries < MaxRetries
      /\ attempts'[r] \in Nat /\ attempts'[r] <= e.retries
  <2>1. reg[r].retries + 1 \in 0 .. MaxRetries /\ attempts[r] <= reg[r].retries
        /\ reg[r].retries < MaxRetries /\ reg[r].retries \in Nat
    BY <1>3, WhileRunning DEF Entry
  <2>2. CASE e = reg[r] /\ attempts' = attempts
    <3> HIDE DEF p, f, h
    <3> QED
      BY <1>3, <2>1, <2>2
  <2>3. CASE /\ e = [reg[r] EXCEPT !.retries = @ + 1]
             /\ attempts' = [attempts EXCEPT ![r] = @ + 1]
    <3>1. /\ e \in Entry /\ e.listed = reg[r].listed /\ e.suppress = reg[r].suppress
          /\ e.completed = reg[r].completed /\ e.retries = reg[r].retries + 1
      BY <1>3, <2>1, <2>3 DEF Entry
    <3>2. attempts'[r] = attempts[r] + 1
      BY <2>3 DEF IndInv, TypeOK
    <3>3. e.retries < MaxRetries
      BY <2>1
    <3> HIDE DEF p, f, h
    <3> QED
      BY <1>3, <2>1, <3>1, <3>2, <3>3
  <2> QED
    BY <2>2, <2>3
<1>5. /\ f \in Entry /\ f.listed /\ ~f.handled /\ f.suppress = reg[r].suppress
      /\ f.completed = reg[r].completed /\ f.retries = e.retries /\ f.reason = e.reason
  BY <1>4 DEF Entry
<1>6. /\ h.announced = 0 /\ h.attempts = attempts'[r]
      /\ ~h.killed /\ ~h.replaced /\ ~h.steering /\ ~h.fresh
  BY WhileRunning DEF Past
<1>7. State(f, p2).entry = f /\ State(f, p2).proc = p2
  BY DEF State
<1>8. /\ p2.emit \notin {"announced", "giveUp"}
      /\ Pending(p2) => f.listed
      /\ e.reason = reg[r].reason
      /\ p2.emit = "end" => Ended(f) /\ f.suppress # "steer"
  <2>1. e.reason = reg[r].reason
    BY <1>3 DEF Entry
  <2> QED
    BY <1>2, <1>5, <2>1, WhileRunning, GoodIsNormal DEF Good, GoodFlow, Ended
<1> HIDE DEF f, h
<1>9. Good(f, f, p2, h)
  <2>1. GoodCopy(f, p2, h)
    BY <1>2, <1>4, <1>5, <1>6, <1>8 DEF GoodCopy, Owned
  <2>2. GoodFlow(f, p2, h)
    BY <1>2, <1>5, <1>8 DEF GoodFlow
  <2>3. GoodPast(f, f, p2, h)
    BY <1>4, <1>6 DEF GoodPast, Entry
  <2> QED
    BY <2>1, <2>2, <2>3 DEF Good
<1>10. /\ TablesOK' /\ reg'[r] = f /\ proc'[r] = p2 /\ disk'[r] = f
       /\ \A q \in Runs \ {r} : /\ reg'[q] = reg[q]
                                /\ Calm(reg[q], proc[q], reg'[q], proc'[q])
                                /\ Saved(disk[q], reg[q], reg'[q], disk'[q])
  <2>1. f # reg[r]
    BY <1>5, WhileRunning
  <2> QED
    BY <1>2, <1>5, <1>7, <2>1, BecomesOthers
<1>11. ASSUME NEW q \in Runs \ {r}
       PROVE  Past(q)' = Past(q)
  BY DEF Past, IndInv, TypeOK
<1>12. AllGood'
  BY <1>9, <1>10, <1>11, MixedStep DEF h
<1>13. attempts' \in [Runs -> Nat]
  BY DEF IndInv, TypeOK
<1>14. TypeOK'
  BY <1>10, <1>13 DEF TablesOK, IndInv, TypeOK
<1>15. DownIsEmpty' /\ SpawningStarted'
  BY UpWhen DEF IndInv, DownIsEmpty, SpawningStarted
<1>16. MutedOnlyWhileSteering'
  BY <1>5, <1>10 DEF IndInv, MutedOnlyWhileSteering
<1> QED
  BY <1>12, <1>14, <1>15, <1>16 DEF IndInv

LEMMA FlowFailsKeeps ==
    ASSUME IndInv, NEW r \in Runs, NEW kept \in BOOLEAN, FlowFails(r, kept)
    PROVE  IndInv'
<1>1. /\ proc[r].flow = "running"
      /\ sessions' \subseteq Sessions
      /\ UNCHANGED <<dirty, up, child, spawning, steering, expired, crashes,
                     announced, killed, replaced>>
  BY DEF FlowFails, SessionsAfter, IndInv, TypeOK
<1>2. CASE ~reg[r].listed
  <2> DEFINE p == [proc[r] EXCEPT !.flow = "no"]
  <2>1. /\ p \in Proc /\ p.flow = "no" /\ p.emit = proc[r].emit
        /\ (Pending(p) => Pending(proc[r]))
    BY GoodIsNormal DEF Proc, Pending, Flows
  <2>2. Calm(reg[r], proc[r], reg[r], p)
    BY <2>1, GoodIsNormal DEF Normal, Calm, CalmEntry, CalmFlow, CalmEmit
  <2>3. proc' = [proc EXCEPT ![r] = p] /\ UNCHANGED <<reg, disk, cooling, attempts>>
    BY <1>2 DEF FlowFails
  <2> HIDE DEF p
  <2> QED
    BY <1>1, <2>1, <2>2, <2>3, ProcStep, QuietStep DEF IndInv, TypeOK, history
<1>3. CASE reg[r].listed
  <2> DEFINE waiting == Expects(r) /\ ActiveDescendants(SessionOf[r]) # {}
             e == [reg[r] EXCEPT !.retries = @ + 1]
  <2>1. Deferred(r)
    BY <1>3 DEF FlowFails
  <2>2. /\ cooling' \subseteq Runs
        /\ attempts' = [attempts EXCEPT ![r] = IF waiting THEN @ ELSE @ + 1]
    BY <2>1 DEF Deferred, IndInv, TypeOK
  <2>3. CASE waiting
    <3>1. attempts' = attempts
      BY <2>2, <2>3 DEF IndInv, TypeOK
    <3>2. Settle(r, reg[r], "giveUp", FALSE) \/ Retry(r, reg[r], TRUE)
      BY <2>1, <2>3 DEF Deferred
    <3> QED
      BY <1>1, <1>3, <2>2, <3>1, <3>2, GiveUpKeeps, RetryKeeps
  <2>4. CASE ~waiting
    <3>1. attempts' = [attempts EXCEPT ![r] = @ + 1]
      BY <2>2, <2>4
    <3>2. Settle(r, e, "giveUp", FALSE) \/ (Retry(r, e, FALSE) /\ ~Spent(r, e))
      BY <2>1, <2>4 DEF Deferred
    <3>3. ~Spent(r, e) => e.retries < MaxRetries
      <4>1. reg[r].retries \in Nat /\ reg[r] \in Entry
        BY GoodIsNormal DEF Entry
      <4>2. e.retries = reg[r].retries + 1
        BY <4>1 DEF Entry
      <4> QED
        BY <4>1, <4>2, RegistryBoundsAssumption DEF Spent
    <3> QED
      BY <1>1, <1>3, <2>2, <3>1, <3>2, <3>3, GiveUpKeeps, RetryKeeps
  <2> QED
    BY <2>3, <2>4
<1> QED
  BY <1>2, <1>3

\* What is known of a listed run that has not ended.
LEMMA WhileActive ==
    ASSUME IndInv, NEW r \in Runs, reg[r].listed, ~Ended(reg[r])
    PROVE  /\ announced[r] = 0 /\ r \notin killed /\ r \notin replaced
           /\ ~reg[r].handled /\ ~Owned(proc[r]) /\ proc[r].emit # "end"
           /\ attempts[r] <= reg[r].retries /\ reg[r].retries < MaxRetries
           /\ attempts[r] <= MaxRetries
           /\ ~Past(r).fresh
<1>1. GoodCopy(reg[r], proc[r], Past(r)) /\ ~reg[r].handled
  BY GoodIsNormal DEF Good, GoodCopy
<1>2. /\ announced[r] = 0 /\ r \notin killed /\ ~Owned(proc[r])
      /\ attempts[r] <= reg[r].retries /\ reg[r].retries < MaxRetries
  BY <1>1 DEF GoodCopy, Past
<1>3. proc[r].emit # "end"
  BY GoodIsNormal DEF Good, GoodFlow
<1>4. /\ r \notin replaced /\ attempts[r] <= MaxRetries /\ ~Past(r).fresh
  <2>1. reg[r] # Absent
    BY DEF Absent
  <2>2. GoodPast(reg[r], disk[r], proc[r], Past(r))
    BY GoodIsNormal DEF Good
  <2>3. ~Past(r).replaced /\ Past(r).attempts <= MaxRetries /\ ~Past(r).fresh
    BY <2>1, <2>2 DEF GoodPast
  <2> QED
    BY <2>3 DEF Past
<1> QED
  BY <1>1, <1>2, <1>3, <1>4

LEMMA KillKeeps ==
    ASSUME IndInv, NEW r \in Runs, Kill(r)
    PROVE  IndInv'
<1> DEFINE f == [reg[r] EXCEPT !.reason = "killed", !.handled = TRUE,
                               !.completed = TRUE, !.suppress = "killed"]
           p == [proc[r] EXCEPT !.grace = FALSE, !.emit = IF MustEmit(r) THEN "kill" ELSE @]
           h == Past(r)'
<1>1. reg[r].listed /\ ~Ended(reg[r])
  BY DEF Kill
<1>2. /\ f \in Entry /\ f.listed /\ f.handled /\ f.completed /\ Ended(f) /\ f.suppress = "killed"
  BY <1>1, GoodIsNormal DEF Entry, Reasons, Ended
<1>3. /\ p \in Proc /\ p.flow = proc[r].flow /\ p.emit \in {proc[r].emit, "kill"}
  <2>1. (IF MustEmit(r) THEN "kill" ELSE proc[r].emit) \in Emits
    BY GoodIsNormal DEF Proc, Emits
  <2> QED
    BY <2>1, GoodIsNormal DEF Proc
<1>4. /\ Becomes(r, State(f, p))
      /\ killed' = killed \cup {r}
      /\ UNCHANGED <<dirty, worldVars, announced, attempts, replaced>>
  BY DEF Kill
<1>5. State(f, p).entry = f /\ State(f, p).proc = p /\ f # reg[r]
  BY <1>1, <1>2 DEF State
<1>6. /\ h.announced = 0 /\ h.attempts = attempts[r] /\ h.killed
      /\ ~h.replaced /\ ~h.fresh
  BY <1>1, <1>4, WhileActive DEF Past, worldVars
<1> HIDE DEF f, p, h
<1>7. /\ TablesOK' /\ reg'[r] = f /\ proc'[r] = p /\ disk'[r] = f
      /\ \A q \in Runs \ {r} : /\ reg'[q] = reg[q]
                               /\ Calm(reg[q], proc[q], reg'[q], proc'[q])
                               /\ Saved(disk[q], reg[q], reg'[q], disk'[q])
  BY <1>2, <1>3, <1>4, <1>5, BecomesOthers
<1>8. Good(f, f, p, h)
  <2>1. p.flow = "no" /\ proc[r].emit # "end"
    BY <1>1, <1>3, WhileActive DEF Owned
  <2>2. GoodCopy(f, p, h) /\ GoodFlow(f, p, h)
    BY <1>2, <1>3, <2>1 DEF GoodCopy, GoodFlow
  <2>3. GoodPast(f, f, p, h)
    BY <1>1, <1>2, <1>6, <2>1, WhileActive DEF GoodPast
  <2> QED
    BY <2>2, <2>3 DEF Good
<1>9. ASSUME NEW q \in Runs \ {r}
      PROVE  Past(q)' = Past(q)
  BY <1>4 DEF Past, worldVars
<1>10. AllGood'
  BY <1>7, <1>8, <1>9, MixedStep DEF h
<1>11. TypeOK'
  BY <1>4, <1>7 DEF TablesOK, IndInv, TypeOK, worldVars
<1>12. DownIsEmpty' /\ SpawningStarted'
  BY <1>1, <1>4, UpWhen DEF IndInv, DownIsEmpty, SpawningStarted, worldVars
<1>13. MutedOnlyWhileSteering'
  BY <1>2, <1>4, <1>7 DEF IndInv, MutedOnlyWhileSteering, worldVars
<1> QED
  BY <1>10, <1>11, <1>12, <1>13 DEF IndInv

LEMMA SteerMarksKeeps ==
    ASSUME IndInv, NEW r \in Runs, SteerMarks(r)
    PROVE  IndInv'
<1> DEFINE f == [reg[r] EXCEPT !.suppress = "steer"]
           p == proc[r]
           h == Past(r)'
<1>1. reg[r].listed /\ ~Ended(reg[r])
  BY DEF SteerMarks
<1>2. /\ f \in Entry /\ f.listed /\ ~f.handled /\ f.completed = reg[r].completed
      /\ ~Ended(f) /\ f.suppress = "steer" /\ f.retries = reg[r].retries
  BY <1>1, GoodIsNormal, WhileActive DEF Entry, Ended
<1>3. p \in Proc
  BY GoodIsNormal
<1>4. /\ Becomes(r, State(f, p))
      /\ steering' = steering \cup {r}
      /\ UNCHANGED <<dirty, up, child, sessions, spawning, cooling, expired, crashes, history>>
  BY DEF SteerMarks
<1>5. State(f, p).entry = f /\ State(f, p).proc = p
  BY DEF State
<1>6. /\ h.announced = 0 /\ h.attempts = attempts[r] /\ ~h.killed /\ h.steering
      /\ ~h.replaced /\ ~h.fresh
  BY <1>1, <1>4, WhileActive DEF Past, history
<1> HIDE DEF f, p, h
<1>7. /\ TablesOK' /\ reg'[r] = f /\ proc'[r] = p
      /\ disk'[r] = f \/ (disk'[r] = disk[r] /\ f = reg[r])
      /\ \A q \in Runs \ {r} : /\ reg'[q] = reg[q]
                               /\ Calm(reg[q], proc[q], reg'[q], proc'[q])
                               /\ Saved(disk[q], reg[q], reg'[q], disk'[q])
  BY <1>2, <1>3, <1>4, <1>5, BecomesOthers
<1>8. Good(f, disk'[r], p, h)
  <2>1. /\ p.flow = "no" /\ p.emit # "end" /\ ~Owned(p)
        /\ attempts[r] <= f.retries /\ f.retries < MaxRetries /\ attempts[r] <= MaxRetries
    BY <1>1, <1>2, WhileActive DEF Owned, p
  <2>2. GoodCopy(f, p, h) /\ GoodFlow(f, p, h)
    BY <1>2, <1>6, <2>1 DEF GoodCopy, GoodFlow
  <2>3. GoodCopy(disk'[r], p, h)
    <3>1. GoodCopy(disk[r], p, Past(r))
      BY GoodIsNormal DEF Good, p
    <3>2. GoodCopy(disk[r], p, h)
      BY <1>1, <1>6, <3>1, WhileActive DEF GoodCopy, Past
    <3> QED
      BY <1>7, <2>2, <3>2
  <2>4. disk'[r].completed => f.completed
    BY <1>1, <1>2, <1>7, GoodIsNormal DEF Good, GoodPast
  <2>5. GoodPast(f, disk'[r], p, h)
    BY <1>2, <1>6, <2>1, <2>4 DEF GoodPast
  <2> QED
    BY <2>2, <2>3, <2>5 DEF Good
<1>9. ASSUME NEW q \in Runs \ {r}
      PROVE  Past(q)' = Past(q)
  BY <1>4 DEF Past, history
<1>10. AllGood'
  BY <1>7, <1>8, <1>9, MixedStep DEF h
<1>11. TypeOK'
  BY <1>4, <1>7 DEF TablesOK, IndInv, TypeOK, history
<1>12. DownIsEmpty' /\ SpawningStarted'
  BY <1>1, <1>4, UpWhen DEF IndInv, DownIsEmpty, SpawningStarted
<1>13. MutedOnlyWhileSteering'
  BY <1>4, <1>7 DEF IndInv, MutedOnlyWhileSteering
<1> QED
  BY <1>10, <1>11, <1>12, <1>13 DEF IndInv

LEMMA SteerFailsKeeps ==
    ASSUME IndInv, NEW r \in Runs, SteerFails(r)
    PROVE  IndInv'
<1> DEFINE h == Past(r)'
<1>1. /\ r \in steering /\ steering' = steering \ {r}
      /\ UNCHANGED <<dirty, up, child, sessions, spawning, cooling, expired, crashes, history>>
  BY DEF SteerFails
<1>2. /\ h \in Pasts /\ ~h.steering /\ ~h.fresh
      /\ h.announced = Past(r).announced /\ h.attempts = Past(r).attempts
      /\ h.killed = Past(r).killed /\ h.replaced = Past(r).replaced
      /\ Past(r).steering /\ ~Past(r).fresh
  <2>1. Past(r).steering
    BY <1>1 DEF Past
  <2>2. ~Past(r).fresh
    BY <2>1, GoodIsNormal DEF Good, GoodPast
  <2> QED
    BY <1>1, <2>1, <2>2 DEF Past, Pasts, history, IndInv, TypeOK
<1>3. \A q \in Runs \ {r} : Past(q)' = Past(q)
  BY <1>1 DEF Past, history
<1> HIDE DEF h
<1>4. /\ TablesOK'
      /\ \A q \in Runs \ {r} : /\ reg'[q] = reg[q]
                               /\ Calm(reg[q], proc[q], reg'[q], proc'[q])
                               /\ Saved(disk[q], reg[q], reg'[q], disk'[q])
      /\ Good(reg'[r], disk'[r], proc'[r], h)
      /\ reg'[r].suppress # "steer"
  <2>1. CASE reg[r].suppress # "steer"
    <3>1. UNCHANGED <<reg, proc, disk>>
      BY <2>1 DEF SteerFails
    <3>2. Good(reg[r], disk[r], proc[r], h)
      BY <1>2, GoodIsNormal DEF Good, GoodCopy, GoodFlow, GoodPast
    <3>3. TablesOK'
      BY <3>1 DEF TablesOK, IndInv, TypeOK
    <3> QED
      BY <2>1, <3>1, <3>2, <3>3, UnchangedIsCalm
  <2>2. CASE reg[r].suppress = "steer"
    <3> DEFINE e == [reg[r] EXCEPT !.suppress = "none"]
               p == [proc[r] EXCEPT !.resumed = FALSE]
    <3>1. /\ e \in Entry /\ e.listed = reg[r].listed /\ e.handled = reg[r].handled
          /\ e.reason = reg[r].reason /\ e.completed = reg[r].completed
          /\ e.retries = reg[r].retries /\ e.suppress = "none"
      BY GoodIsNormal DEF Entry
    <3>2. reg[r].listed
      BY <2>2, GoodIsNormal DEF Normal, Absent
    <3>3. p \in Proc /\ p.flow = proc[r].flow /\ p.emit = proc[r].emit /\ (Pending(p) => Pending(proc[r]))
      BY GoodIsNormal DEF Proc, Pending
    <3>4. PICK s : /\ Becomes(r, s)
                   /\ s = State(e, p) \/ s = Resume(r, e, p)
      BY <2>2 DEF SteerFails
    <3> HIDE DEF e, p
    <3>5. Normal(e, proc[r])
      BY <3>1, <3>2, GoodIsNormal DEF Normal, Ended
    <3>6. Calm(e, proc[r], s.entry, s.proc)
      <4>1. Calm(e, proc[r], e, p)
        BY <3>1, <3>2, <3>3, <3>5, SameIsCalm
      <4>2. Calm(e, proc[r], Resume(r, e, p).entry, Resume(r, e, p).proc)
        BY <3>1, <3>2, <3>3, <3>5, ResumeIsCalm
      <4> QED
        BY <3>4, <4>1, <4>2 DEF State
    <3>7. Good(e, disk[r], proc[r], h)
      <4>1. /\ GoodCopy(reg[r], proc[r], Past(r)) /\ GoodCopy(disk[r], proc[r], Past(r))
            /\ GoodFlow(reg[r], proc[r], Past(r)) /\ GoodPast(reg[r], disk[r], proc[r], Past(r))
        BY GoodIsNormal DEF Good
      <4>2. GoodCopy(e, proc[r], h) /\ GoodCopy(disk[r], proc[r], h)
        BY <1>2, <3>1, <3>2, <4>1 DEF GoodCopy, Ended
      <4>3. GoodFlow(e, proc[r], h)
        BY <1>2, <3>1, <3>2, <4>1 DEF GoodFlow, GoodPast, Ended
      <4>4. GoodPast(e, disk[r], proc[r], h)
        BY <1>2, <3>1, <3>2, <4>1 DEF GoodPast, Absent
      <4> QED
        BY <4>2, <4>3, <4>4 DEF Good
    <3>8. s.entry \in Entry /\ s.proc \in Proc /\ s.entry.suppress # "steer"
      BY <3>1, <3>6 DEF Calm, CalmEntry, Absent
    <3>9. Good(s.entry, s.entry, s.proc, h)
      BY <1>2, <3>1, <3>6, <3>7, GoodIsNormal, CalmKeepsGood DEF Saved
    <3> QED
      BY <2>2, <3>4, <3>8, <3>9, BecomesOthers
  <2> QED
    BY <2>1, <2>2
<1>5. AllGood'
  BY <1>3, <1>4, MixedStep DEF h
<1>6. TypeOK'
  BY <1>1, <1>4 DEF TablesOK, IndInv, TypeOK, history
<1>7. DownIsEmpty' /\ SpawningStarted'
  BY <1>1, UpWhen DEF IndInv, DownIsEmpty, SpawningStarted
<1>8. MutedOnlyWhileSteering'
  BY <1>1, <1>4 DEF IndInv, MutedOnlyWhileSteering
<1> QED
  BY <1>5, <1>6, <1>7, <1>8 DEF IndInv

LEMMA SteerReplacesKeeps ==
    ASSUME IndInv, NEW r \in Runs, NEW q \in Runs, SteerReplaces(r, q)
    PROVE  IndInv'
<1> DEFINE left == Left(proc[r])
           p == [proc[q] EXCEPT !.waits = TRUE]
<1>1. /\ r \in steering /\ child[q] = "none" /\ steering' = steering \ {r}
      /\ child' = [child EXCEPT ![q] = "running"]
      /\ sessions' = sessions \cup {SessionOf[r]}
      /\ reg' = [reg EXCEPT ![r] = Absent, ![q] = NewEntry]
      /\ disk' = reg' /\ replaced' = replaced \cup {r}
      /\ UNCHANGED <<dirty, up, spawning, cooling, expired, crashes, announced, attempts, killed>>
  BY DEF SteerReplaces
<1>2. /\ Past(r).steering /\ ~Past(r).fresh /\ Past(q).fresh
  BY <1>1, GoodIsNormal DEF Past, Good, GoodPast
<1>3. r # q
  BY <1>2
<1>4. /\ left \in Proc /\ left.flow = proc[r].flow /\ left.emit = proc[r].emit /\ ~Pending(left)
      /\ p \in Proc /\ p.flow = proc[q].flow /\ p.emit = proc[q].emit
  <2>1. left \in Proc /\ left.flow = proc[r].flow /\ left.emit = proc[r].emit /\ ~Pending(left)
    BY GoodIsNormal, LeftKeeps
  <2>2. p \in Proc /\ p.flow = proc[q].flow /\ p.emit = proc[q].emit
    BY GoodIsNormal DEF Proc
  <2> QED
    BY <2>1, <2>2
<1>5. proc' = [proc EXCEPT ![r] = left, ![q] = p]
  BY <1>3 DEF SteerReplaces, IndInv, TypeOK
<1> HIDE DEF left, p
<1>6. /\ TablesOK'
      /\ reg'[r] = Absent /\ disk'[r] = Absent /\ proc'[r] = left
      /\ reg'[q] = NewEntry /\ disk'[q] = NewEntry /\ proc'[q] = p
  BY <1>1, <1>3, <1>4, <1>5, AbsentInEntry DEF TablesOK, IndInv, TypeOK
<1>7. Good(Absent, Absent, left, Past(r)')
  <2> DEFINE h == Past(r)'
  <2>1. /\ h.announced = 0 /\ h.attempts = attempts[r] /\ ~h.steering /\ ~h.fresh
        /\ left.flow = "no" /\ attempts[r] <= MaxRetries
    <3>1. /\ Past(r).announced = 0 /\ Past(r).attempts <= MaxRetries /\ proc[r].flow = "no"
      BY <1>2, GoodIsNormal DEF Good, GoodPast
    <3> QED
      BY <1>1, <1>2, <1>3, <1>4, <3>1 DEF Past, IndInv, TypeOK
  <2>2. ~Absent.listed /\ ~Absent.completed
    BY DEF Absent
  <2> HIDE DEF h
  <2>3. Good(Absent, Absent, left, h)
    BY <1>4, <2>1, <2>2 DEF Good, GoodCopy, GoodFlow, GoodPast
  <2> QED
    BY <2>3 DEF h
<1>8. Good(NewEntry, NewEntry, p, Past(q)')
  <2> DEFINE h == Past(q)'
  <2>1. /\ h.announced = 0 /\ h.attempts = 0
        /\ ~h.killed /\ ~h.replaced /\ ~h.steering /\ ~h.fresh
        /\ p.flow = "no" /\ p.emit = "no"
    <3>1. /\ Past(q).announced = 0 /\ Past(q).attempts = 0
          /\ ~Past(q).killed /\ ~Past(q).replaced /\ ~Past(q).steering
          /\ proc[q].flow = "no" /\ proc[q].emit = "no"
      BY <1>2, GoodIsNormal DEF Good, GoodPast
    <3>2. q \notin spawning
      BY <1>1 DEF IndInv, SpawningStarted
    <3> QED
      BY <1>1, <1>3, <1>4, <3>1, <3>2 DEF Past, IndInv, TypeOK
  <2>2. /\ NewEntry.listed /\ ~NewEntry.handled /\ ~NewEntry.completed
        /\ NewEntry.retries = 0
    BY DEF NewEntry, Absent
  <2> HIDE DEF h
  <2>3. Good(NewEntry, NewEntry, p, h)
    BY <2>1, <2>2, RegistryBoundsAssumption DEF Good, GoodCopy, GoodFlow, GoodPast, Owned
  <2> QED
    BY <2>3 DEF h
<1>9. ASSUME NEW x \in Runs, x # r, x # q
      PROVE  /\ Past(x)' = Past(x) /\ reg'[x] = reg[x]
             /\ Calm(reg[x], proc[x], reg'[x], proc'[x])
             /\ Saved(disk[x], reg[x], reg'[x], disk'[x])
  <2>1. /\ Past(x)' = Past(x)
        /\ reg'[x] = reg[x] /\ proc'[x] = proc[x] /\ disk'[x] \in {disk[x], reg[x]}
    BY <1>1, <1>5, <1>9 DEF Past, IndInv, TypeOK
  <2> QED
    BY <2>1, UnchangedIsCalm
<1>10. AllGood'
  <2>1. ASSUME NEW x \in Runs
        PROVE  Good(reg'[x], disk'[x], proc'[x], Past(x)')
    <3>1. CASE x = r
      BY <1>6, <1>7, <3>1
    <3>2. CASE x = q
      BY <1>6, <1>8, <3>2
    <3>3. CASE x # r /\ x # q
      BY <1>9, <3>3, GoodIsNormal, CalmKeepsGood
    <3> QED
      BY <3>1, <3>2, <3>3
  <2> QED
    BY <2>1 DEF AllGood
<1>11. TypeOK'
  BY <1>1, <1>6, RunsAssumption DEF TablesOK, IndInv, TypeOK
<1>12. DownIsEmpty' /\ SpawningStarted'
  BY <1>1, UpWhen DEF IndInv, DownIsEmpty, SpawningStarted, TypeOK
<1>13. MutedOnlyWhileSteering'
  <2>1. Absent.suppress = "none" /\ NewEntry.suppress = "none"
    BY DEF Absent, NewEntry
  <2> QED
    BY <1>1, <1>6, <1>9, <2>1 DEF IndInv, MutedOnlyWhileSteering
<1> QED
  BY <1>10, <1>11, <1>12, <1>13 DEF IndInv

LEMMA CrashKeeps ==
    ASSUME IndInv, Crash
    PROVE  IndInv'
<1>1. /\ up' = FALSE /\ crashes' = crashes + 1 /\ crashes < MaxCrashes /\ dirty' = FALSE
      /\ reg' = [r \in Runs |-> Absent] /\ proc' = [r \in Runs |-> Idle]
      /\ child' = [r \in Runs |-> IF child[r] = "none" THEN "none" ELSE "gone"]
      /\ spawning' = {} /\ steering' = {}
      /\ UNCHANGED <<disk, sessions, cooling, expired>> /\ UNCHANGED history
  BY DEF Crash
<1>2. crashes' \in 0 .. MaxCrashes /\ crashes' > 0
  BY <1>1, RegistryBoundsAssumption DEF IndInv, TypeOK
<1>3. TypeOK'
  BY <1>1, <1>2, AbsentInEntry DEF IndInv, TypeOK, history
<1>4. ASSUME NEW r \in Runs
      PROVE  Good(Absent, disk[r], Idle, Past(r)')
  <2> DEFINE h == Past(r)'
  <2>1. /\ h.announced = Past(r).announced /\ h.attempts = Past(r).attempts
        /\ h.killed = Past(r).killed /\ h.replaced = Past(r).replaced
        /\ ~h.steering /\ (h.fresh => Past(r).fresh)
    BY <1>1 DEF Past, history
  <2>2. ~Absent.listed /\ ~Absent.completed
    BY DEF Absent
  <2>3. Idle.flow = "no" /\ Idle.emit = "no" /\ ~Pending(Idle)
    BY DEF Idle, Pending
  <2> HIDE DEF h
  <2>4. GoodCopy(disk[r], proc[r], Past(r)) /\ GoodPast(reg[r], disk[r], proc[r], Past(r))
    BY GoodIsNormal DEF Good
  <2>5. Good(Absent, disk[r], Idle, h)
    BY <2>1, <2>2, <2>3, <2>4 DEF Good, GoodCopy, GoodFlow, GoodPast, Owned
  <2> QED
    BY <2>5 DEF h
<1>5. AllGood'
  BY <1>1, <1>4 DEF AllGood
<1>6. DownIsEmpty' /\ SpawningStarted'
  BY <1>1, <1>2 DEF DownIsEmpty, SpawningStarted
<1>7. MutedOnlyWhileSteering'
  BY <1>1 DEF MutedOnlyWhileSteering, Absent
<1> QED
  BY <1>3, <1>5, <1>6, <1>7 DEF IndInv

\* What is restored of a run is good, and at least as far as its saved entry.
LEMMA RestoredGood ==
    ASSUME IndInv, Restart, NEW r \in Runs
    PROVE  /\ reg'[r] \in Entry /\ proc'[r] \in Proc
           /\ disk'[r] = reg'[r]
           /\ Good(reg'[r], reg'[r], proc'[r], Past(r))
           /\ disk[r].completed /\ reg'[r].listed => reg'[r].completed
<1> DEFINE s == IF disk[r].listed THEN Resume(r, disk[r], Idle) ELSE State(Absent, Idle)
<1>1. reg'[r] = s.entry /\ proc'[r] = s.proc /\ disk'[r] = reg'[r]
  BY DEF Restart
<1>2. Idle.flow = "no" /\ Idle.emit = "no" /\ ~Pending(Idle) /\ Idle \in Proc
  BY AbsentInEntry DEF Idle, Pending
<1>3. r \notin steering /\ disk[r] \in Entry
  BY DEF Restart, IndInv, DownIsEmpty, TypeOK
<1>4. Good(disk[r], disk[r], Idle, Past(r))
  <2>1. ~Past(r).steering
    BY <1>3 DEF Past
  <2>2. GoodCopy(disk[r], proc[r], Past(r)) /\ GoodPast(reg[r], disk[r], proc[r], Past(r))
    BY GoodIsNormal DEF Good
  <2> QED
    BY <1>2, <2>1, <2>2 DEF Good, GoodCopy, GoodFlow, GoodPast, Owned
<1>5. Normal(disk[r], Idle)
  BY <1>2, <1>3, <1>4 DEF Normal, Good, GoodCopy
<1>6. Calm(disk[r], Idle, s.entry, s.proc)
  <2>1. CASE disk[r].listed
    BY <1>2, <1>5, <2>1, ResumeIsCalm
  <2>2. CASE ~disk[r].listed
    <3>1. s.entry = disk[r] /\ s.proc = Idle
      BY <1>5, <2>2 DEF State, Normal
    <3> HIDE DEF s
    <3> QED
      BY <1>2, <1>5, <3>1, SameIsCalm
  <2> QED
    BY <2>1, <2>2
<1> HIDE DEF s
<1>7. Past(r) \in Pasts
  BY GoodIsNormal
<1>8. Good(s.entry, s.entry, s.proc, Past(r))
  BY <1>2, <1>3, <1>4, <1>6, <1>7, CalmKeepsGood DEF Saved
<1> QED
  BY <1>1, <1>6, <1>8 DEF Calm, CalmEntry, Absent

LEMMA RestartKeeps ==
    ASSUME IndInv, Restart
    PROVE  IndInv'
<1>1. /\ up' = TRUE /\ crashes > 0 /\ spawning = {}
      /\ UNCHANGED <<dirty, child, sessions, spawning, steering, cooling, expired, crashes>>
      /\ UNCHANGED history
  BY DEF Restart, IndInv, DownIsEmpty
<1>2. TablesOK'
  <2>1. /\ DOMAIN reg' = Runs /\ DOMAIN proc' = Runs /\ disk' = reg'
        /\ reg' = [r \in Runs |-> reg'[r]] /\ proc' = [r \in Runs |-> proc'[r]]
    BY DEF Restart
  <2> QED
    BY <2>1, RestoredGood DEF TablesOK
<1>3. \A r \in Runs : Past(r)' = Past(r)
  BY <1>1 DEF Past, history
<1>4. AllGood'
  BY <1>3, RestoredGood DEF AllGood
<1>5. TypeOK'
  BY <1>1, <1>2 DEF TablesOK, IndInv, TypeOK, history
<1>6. DownIsEmpty' /\ SpawningStarted' /\ MutedOnlyWhileSteering'
  BY <1>1 DEF DownIsEmpty, SpawningStarted, MutedOnlyWhileSteering
<1> QED
  BY <1>4, <1>5, <1>6 DEF IndInv

LEMMA StutterKeeps ==
    ASSUME IndInv, UNCHANGED vars
    PROVE  IndInv'
<1> USE DEF vars, registryVars, worldVars, history
<1>1. \A r \in Runs : Past(r)' = Past(r)
  BY DEF Past
<1> QED
  BY <1>1 DEF IndInv, TypeOK, AllGood, DownIsEmpty, SpawningStarted, MutedOnlyWhileSteering

LEMMA NextKeeps == IndInv /\ [Next]_vars => IndInv'
<1> SUFFICES ASSUME IndInv, [Next]_vars PROVE IndInv'
  OBVIOUS
<1>1. ASSUME NEW r \in Runs, Step(r)
      PROVE  IndInv'
  <2>1. \/ Spawn(r) \/ Register(r)
        \/ LifecycleStart(r) \/ LifecycleError(r) \/ LifecycleEnd(r)
        \/ GraceEnds(r) \/ WaitAnswered(r) \/ WaitFails(r)
        \/ FlowDelivers(r) \/ FlowSkips(r) \/ FlowReturns(r)
        \/ \E kept \in BOOLEAN : FlowFails(r, kept)
        \/ \E ok \in BOOLEAN : HookEmitted(r, ok)
        \/ ResumeTimer(r)
        \/ Kill(r) \/ SteerMarks(r) \/ SteerFails(r)
        \/ \E q \in Runs : SteerReplaces(r, q)
        \/ SweepTakes(r) \/ SweepDeletes(r)
        \/ BackoffEnds(r) \/ Expires(r)
    BY <1>1 DEF Step
  <2> QED
    BY <2>1, SpawnKeeps, RegisterKeeps, LifecycleKeeps, ReportKeeps, FlowDeliversKeeps,
       FlowSkipsKeeps, FlowReturnsKeeps, FlowFailsKeeps, HookEmittedKeeps, ResumeTimerKeeps,
       KillKeeps, SteerMarksKeeps, SteerFailsKeeps, SteerReplacesKeeps, SweepKeeps, ClockKeeps
<1>2. CASE SweepEnds
  <2>1. CASE Runs = {}
    <3>1. AllGood' /\ SpawningStarted' /\ MutedOnlyWhileSteering'
      BY <1>2, <2>1 DEF AllGood, SpawningStarted, MutedOnlyWhileSteering, SweepEnds, worldVars,
                        IndInv
    <3>2. TypeOK' /\ DownIsEmpty'
      BY <1>2 DEF SweepEnds, worldVars, history, IndInv, TypeOK, DownIsEmpty
    <3> QED
      BY <3>1, <3>2 DEF IndInv
  <2> QED
    BY <1>2, <2>1, SweepKeeps
<1> QED
  BY <1>1, <1>2, CrashKeeps, RestartKeeps, StutterKeeps DEF Next

-----------------------------------------------------------------------------
(* Completed cleanups stay completed on disk.                              *)

\* From entry e to e2 the run is not listed anew, and stays completed.
Advances(e, e2) == e2.listed => e.listed /\ (e.completed => e2.completed)

NothingReopened ==
    \A r \in Runs : disk[r].completed /\ disk'[r].listed => disk'[r].completed

LEMMA CalmAdvances ==
    ASSUME NEW e, NEW p, NEW e2, NEW p2, Calm(e, p, e2, p2)
    PROVE  Advances(e, e2)
BY DEF Calm, CalmEntry, Advances, Absent

\* The copy on disk is never ahead of the listed entry.
LEMMA AdvancesReopensNothing ==
    ASSUME IndInv,
           \A q \in Runs : disk'[q] = disk[q] \/ (disk'[q] = reg'[q] /\ Advances(reg[q], reg'[q]))
    PROVE  NothingReopened
<1>1. ASSUME NEW q \in Runs
      PROVE  disk[q].completed /\ reg[q].listed => reg[q].completed
  BY GoodIsNormal DEF Good, GoodPast
<1> QED
  BY <1>1 DEF NothingReopened, Advances

LEMMA BecomesReopensNothing ==
    ASSUME IndInv, NEW r \in Runs, NEW s, Becomes(r, s), Advances(reg[r], s.entry)
    PROVE  NothingReopened
<1>1. ASSUME NEW q \in Runs
      PROVE  disk'[q] = disk[q] \/ (disk'[q] = reg'[q] /\ Advances(reg[q], reg'[q]))
  <2>1. CASE q = r
    BY <2>1 DEF Becomes, IndInv, TypeOK
  <2>2. CASE q # r
    BY <2>2 DEF Becomes, IndInv, TypeOK, Advances
  <2> QED
    BY <2>1, <2>2
<1> QED
  BY <1>1, AdvancesReopensNothing

LEMMA BookkeepReopensNothing ==
    ASSUME IndInv, NEW r \in Runs, NEW e \in Entry, NEW p, NEW drop \in BOOLEAN,
           Bookkeep(r, e, p, drop), e.listed => reg[r].listed
    PROVE  NothingReopened
<1> DEFINE after(q) == IF q # r THEN Awake(q, reg[q], proc[q])
                       ELSE IF drop \/ ~e.listed THEN State(Absent, Left(p))
                       ELSE State([e EXCEPT !.completed = TRUE], p)
<1>1. ASSUME NEW q \in Runs
      PROVE  Advances(reg[q], after(q).entry)
  <2>1. CASE q # r
    BY <2>1, GoodIsNormal, AwakeIsCalm, CalmAdvances
  <2>2. CASE q = r
    BY <2>2 DEF State, Absent, Entry, Advances
  <2> QED
    BY <2>1, <2>2
<1>2. reg' = [q \in Runs |-> after(q).entry] /\ disk' = reg'
  BY DEF Bookkeep
<1> HIDE DEF after
<1>3. ASSUME NEW q \in Runs
      PROVE  disk'[q] = reg'[q] /\ Advances(reg[q], reg'[q])
  BY <1>1, <1>2
<1> QED
  BY <1>3, AdvancesReopensNothing

LEMMA SettleReopensNothing ==
    ASSUME IndInv, NEW r \in Runs, NEW e \in Entry, NEW emit, NEW drop \in BOOLEAN,
           Settle(r, e, emit, drop), reg[r].listed
    PROVE  NothingReopened
<1>1. CASE Expects(r) /\ EmitsHook(r) /\ MustEmit(r)
  BY <1>1 DEF Settle, NothingReopened
<1>2. CASE ~(Expects(r) /\ EmitsHook(r) /\ MustEmit(r))
  BY <1>2, BookkeepReopensNothing DEF Settle
<1> QED
  BY <1>1, <1>2

LEMMA ReportReopensNothing ==
    ASSUME IndInv, NEW r \in Runs, GraceEnds(r) \/ WaitAnswered(r) \/ LifecycleEnd(r)
    PROVE  NothingReopened
<1>1. ASSUME NEW reason \in {"complete", "error"}, reg[r].listed
      PROVE  Advances(reg[r], CompleteRun(r, reason).entry)
  BY <1>1, GoodIsNormal, CompleteRunIsCalm, CalmAdvances
<1>2. CASE UNCHANGED disk
  BY <1>2 DEF NothingReopened
<1>3. CASE GraceEnds(r) /\ reg[r].reason # "complete"
  <2>1. reg[r].listed /\ Becomes(r, CompleteRun(r, "error"))
    BY <1>3, GoodIsNormal DEF GraceEnds, Normal, Pending
  <2> QED
    BY <1>1, <2>1, BecomesReopensNothing
<1>4. CASE WaitAnswered(r)
  <2>1. PICK reason \in {"complete", "error"} :
            LET s == CompleteRun(r, reason)
            IN  Becomes(r, State(s.entry, [s.proc EXCEPT !.waits = FALSE]))
    BY <1>4 DEF WaitAnswered, Answers
  <2>2. reg[r].listed
    BY <1>4, GoodIsNormal DEF WaitAnswered, Normal, Pending
  <2> DEFINE s == CompleteRun(r, reason)
             t == State(s.entry, [s.proc EXCEPT !.waits = FALSE])
  <2>3. t.entry = s.entry /\ Becomes(r, t)
    BY <2>1 DEF State
  <2> HIDE DEF t
  <2> QED
    BY <1>1, <2>2, <2>3, BecomesReopensNothing
<1>5. CASE LifecycleEnd(r) /\ reg[r].listed
  BY <1>1, <1>5, BecomesReopensNothing DEF LifecycleEnd
<1> QED
  BY <1>2, <1>3, <1>4, <1>5 DEF GraceEnds, LifecycleEnd

LEMMA RetryReopensNothing ==
    ASSUME IndInv, NEW r \in Runs, NEW e \in Entry, NEW deferred, Retry(r, e, deferred),
           e.listed => reg[r].listed, e.completed = reg[r].completed
    PROVE  NothingReopened
<1> DEFINE f == [e EXCEPT !.handled = FALSE]
<1>1. f.listed = e.listed /\ f.completed = e.completed
  BY DEF Entry
<1>2. PICK p : Becomes(r, State(f, p))
  BY DEF Retry
<1> HIDE DEF f
<1>3. Advances(reg[r], State(f, p).entry)
  BY <1>1 DEF Advances, State
<1> QED
  BY <1>2, <1>3, BecomesReopensNothing

LEMMA FlowReopensNothing ==
    ASSUME IndInv, NEW r \in Runs, FlowReturns(r) \/ \E kept \in BOOLEAN : FlowFails(r, kept)
    PROVE  NothingReopened
<1>1. CASE UNCHANGED disk
  BY <1>1 DEF NothingReopened
<1>2. CASE FlowReturns(r) /\ reg[r].listed
  <2>1. Settle(r, reg[r], "announced", SessionOf[r] \in Deleting) /\ reg[r].listed
    BY <1>2 DEF FlowReturns
  <2>2. (SessionOf[r] \in Deleting) \in BOOLEAN /\ reg[r] \in Entry
    BY GoodIsNormal
  <2> QED
    BY <2>1, <2>2, SettleReopensNothing
<1>3. CASE reg[r].listed /\ \E kept \in BOOLEAN : FlowFails(r, kept)
  <2> DEFINE e == [reg[r] EXCEPT !.retries = @ + 1]
  <2>1. e \in Entry /\ e.listed = reg[r].listed /\ e.completed = reg[r].completed
    <3>1. proc[r].flow = "running"
      BY <1>3 DEF FlowFails
    <3>2. reg[r].retries + 1 \in 0 .. MaxRetries
      BY <1>3, <3>1, GoodIsNormal, RegistryBoundsAssumption DEF Good, GoodFlow, Entry
    <3> QED
      BY <3>2, GoodIsNormal DEF Entry
  <2>2. Deferred(r)
    BY <1>3 DEF FlowFails
  <2> HIDE DEF e
  <2>3. \/ Settle(r, reg[r], "giveUp", FALSE)
        \/ Settle(r, e, "giveUp", FALSE)
        \/ Retry(r, reg[r], TRUE)
        \/ Retry(r, e, FALSE)
    BY <2>2 DEF Deferred, e
  <2> QED
    BY <1>3, <2>1, <2>3, GoodIsNormal, SettleReopensNothing, RetryReopensNothing
<1> QED
  BY <1>1, <1>2, <1>3 DEF FlowReturns, FlowFails

LEMMA HookReopensNothing ==
    ASSUME IndInv, NEW r \in Runs, NEW ok \in BOOLEAN, HookEmitted(r, ok)
    PROVE  NothingReopened
<1> DEFINE e == [reg[r] EXCEPT !.hooked = @ \/ (ok /\ reg[r].listed)]
           p == [proc[r] EXCEPT !.emit = "no"]
<1>1. e \in Entry /\ e.listed = reg[r].listed /\ e.completed = reg[r].completed
  BY GoodIsNormal DEF Entry
<1>2. \/ Becomes(r, StartFlow(e, p))
      \/ Becomes(r, State(e, p))
      \/ Bookkeep(r, e, p, SessionOf[r] \in Deleting)
      \/ Bookkeep(r, e, p, FALSE)
  BY DEF HookEmitted
<1> HIDE DEF e, p
<1>3. CASE Becomes(r, StartFlow(e, p))
  <2>1. Advances(reg[r], StartFlow(e, p).entry)
    BY <1>1 DEF StartFlow, State, Advances, Entry
  <2> QED
    BY <1>3, <2>1, BecomesReopensNothing
<1>4. CASE Becomes(r, State(e, p))
  <2>1. Advances(reg[r], State(e, p).entry)
    BY <1>1 DEF State, Advances
  <2> QED
    BY <1>4, <2>1, BecomesReopensNothing
<1>5. ASSUME NEW drop \in BOOLEAN, Bookkeep(r, e, p, drop)
      PROVE  NothingReopened
  BY <1>1, <1>5, BookkeepReopensNothing
<1>6. (SessionOf[r] \in Deleting) \in BOOLEAN /\ FALSE \in BOOLEAN
  OBVIOUS
<1> QED
  BY <1>2, <1>3, <1>4, <1>5, <1>6

LEMMA ControlReopensNothing ==
    ASSUME IndInv, NEW r \in Runs, Kill(r) \/ SteerMarks(r) \/ SteerFails(r)
    PROVE  NothingReopened
<1>1. CASE Kill(r)
  <2> DEFINE f == [reg[r] EXCEPT !.reason = "killed", !.handled = TRUE,
                                 !.completed = TRUE, !.suppress = "killed"]
  <2>1. f.completed /\ reg[r].listed
    BY <1>1, GoodIsNormal DEF Entry, Kill
  <2>2. PICK p : Becomes(r, State(f, p))
    BY <1>1 DEF Kill
  <2> HIDE DEF f
  <2>3. Advances(reg[r], State(f, p).entry)
    BY <2>1 DEF State, Advances
  <2> QED
    BY <2>2, <2>3, BecomesReopensNothing
<1>2. CASE SteerMarks(r)
  <2> DEFINE f == [reg[r] EXCEPT !.suppress = "steer"]
  <2>1. f.completed = reg[r].completed /\ reg[r].listed
    BY <1>2, GoodIsNormal DEF Entry, SteerMarks
  <2>2. PICK p : Becomes(r, State(f, p))
    BY <1>2 DEF SteerMarks
  <2> HIDE DEF f
  <2>3. Advances(reg[r], State(f, p).entry)
    BY <2>1 DEF State, Advances
  <2> QED
    BY <2>2, <2>3, BecomesReopensNothing
<1>3. CASE SteerFails(r) /\ reg[r].suppress = "steer"
  <2> DEFINE e == [reg[r] EXCEPT !.suppress = "none"]
             p == [proc[r] EXCEPT !.resumed = FALSE]
  <2>1. /\ e \in Entry /\ e.listed = reg[r].listed /\ e.handled = reg[r].handled
        /\ e.reason = reg[r].reason /\ e.completed = reg[r].completed
    BY GoodIsNormal DEF Entry
  <2>2. reg[r].listed
    BY <1>3, GoodIsNormal DEF Normal, Absent
  <2>3. p \in Proc /\ p.flow = proc[r].flow /\ p.emit = proc[r].emit
    BY GoodIsNormal DEF Proc
  <2>4. PICK s : Becomes(r, s) /\ (s = State(e, p) \/ s = Resume(r, e, p))
    BY <1>3 DEF SteerFails
  <2> HIDE DEF e, p
  <2>5. Normal(e, proc[r])
    BY <2>1, <2>2, GoodIsNormal DEF Normal, Ended
  <2>6. Calm(e, proc[r], Resume(r, e, p).entry, Resume(r, e, p).proc)
    BY <2>1, <2>2, <2>3, <2>5, ResumeIsCalm
  <2>7. Advances(e, Resume(r, e, p).entry)
    BY <2>6, CalmAdvances
  <2>8. Advances(reg[r], s.entry)
    BY <2>1, <2>4, <2>7 DEF Advances, State
  <2> QED
    BY <2>4, <2>8, BecomesReopensNothing
<1>4. CASE SteerFails(r) /\ reg[r].suppress # "steer"
  BY <1>4 DEF SteerFails, NothingReopened
<1> QED
  BY <1>1, <1>2, <1>3, <1>4

LEMMA TimerReopensNothing ==
    ASSUME IndInv, NEW r \in Runs, ResumeTimer(r)
    PROVE  NothingReopened
<1>1. PICK kind \in {"due", "early"} :
          /\ IF kind = "due" THEN proc[r].due > 0 /\ r \notin cooling ELSE proc[r].early > 0
          /\ LET p == IF kind = "due" THEN [proc[r] EXCEPT !.due = @ - 1]
                                      ELSE [proc[r] EXCEPT !.early = @ - 1]
             IN  Becomes(r, IF p.resumed THEN State(reg[r], p) ELSE Resume(r, reg[r], p))
  BY DEF ResumeTimer
<1> DEFINE p == IF kind = "due" THEN [proc[r] EXCEPT !.due = @ - 1]
                                ELSE [proc[r] EXCEPT !.early = @ - 1]
<1>2. reg[r].listed
  BY <1>1, GoodIsNormal DEF Normal, Pending
<1>3. p \in Proc /\ p.flow = proc[r].flow /\ p.emit = proc[r].emit
  <2>1. (kind = "due" => proc[r].due - 1 \in Nat) /\ (kind = "early" => proc[r].early - 1 \in Nat)
    BY <1>1, GoodIsNormal DEF Proc
  <2> QED
    BY <2>1, GoodIsNormal DEF Proc
<1> HIDE DEF p
<1>4. Calm(reg[r], proc[r], Resume(r, reg[r], p).entry, Resume(r, reg[r], p).proc)
  BY <1>2, <1>3, GoodIsNormal, ResumeIsCalm
<1>5. Advances(reg[r], Resume(r, reg[r], p).entry) /\ Advances(reg[r], State(reg[r], p).entry)
  BY <1>4, CalmAdvances DEF Advances, State
<1> QED
  BY <1>1, <1>5, BecomesReopensNothing DEF p

LEMMA SpawnedReopensNothing ==
    ASSUME IndInv, NEW r \in Runs, Register(r) \/ \E q \in Runs : SteerReplaces(r, q)
    PROVE  NothingReopened
<1>1. PICK q \in Runs : /\ Past(q).fresh
                        /\ \A x \in Runs \ {q} : disk'[x] \in {disk[x], reg[x], Absent}
  <2>1. CASE Register(r)
    <3>1. Past(r).fresh
      BY <2>1 DEF Register, Past
    <3>2. \A x \in Runs \ {r} : disk'[x] \in {disk[x], reg[x]}
      BY <2>1 DEF Register, Becomes, IndInv, TypeOK
    <3> QED
      BY <3>1, <3>2
  <2>2. CASE \E q \in Runs : SteerReplaces(r, q)
    <3>1. PICK q \in Runs : SteerReplaces(r, q)
      BY <2>2
    <3>2. Past(q).fresh
      BY <3>1 DEF SteerReplaces, Past
    <3>3. \A x \in Runs \ {q} : disk'[x] \in {disk[x], reg[x], Absent}
      BY <3>1 DEF SteerReplaces, IndInv, TypeOK
    <3> QED
      BY <3>2, <3>3
  <2> QED
    BY <2>1, <2>2
<1>2. ~disk[q].completed
  BY <1>1, GoodIsNormal DEF Good, GoodPast, Absent
<1>3. ASSUME NEW x \in Runs \ {q}
      PROVE  disk[x].completed /\ disk'[x].listed => disk'[x].completed
  BY <1>1, GoodIsNormal DEF Good, GoodPast, Absent
<1> QED
  BY <1>2, <1>3 DEF NothingReopened

LEMMA NextReopensNothing == IndInv /\ [Next]_vars => NothingReopened
<1> SUFFICES ASSUME IndInv, [Next]_vars PROVE NothingReopened
  OBVIOUS
<1>1. CASE UNCHANGED disk
  BY <1>1 DEF NothingReopened
<1>2. ASSUME NEW r \in Runs, Step(r)
      PROVE  NothingReopened
  <2>1. \/ UNCHANGED disk
        \/ Register(r) \/ \E q \in Runs : SteerReplaces(r, q)
        \/ GraceEnds(r) \/ WaitAnswered(r) \/ LifecycleEnd(r)
        \/ FlowReturns(r) \/ \E kept \in BOOLEAN : FlowFails(r, kept)
        \/ \E ok \in BOOLEAN : HookEmitted(r, ok)
        \/ ResumeTimer(r)
        \/ Kill(r) \/ SteerMarks(r) \/ SteerFails(r)
    BY <1>2 DEF Step, Spawn, LifecycleStart, LifecycleError, WaitFails, FlowDelivers, FlowSkips,
                SweepTakes, SweepDeletes, BackoffEnds, Expires, registryVars
  <2> QED
    BY <1>1, <2>1, SpawnedReopensNothing, ReportReopensNothing, FlowReopensNothing,
       HookReopensNothing, TimerReopensNothing, ControlReopensNothing
<1>3. CASE SweepEnds
  <2>1. ASSUME NEW q \in Runs
        PROVE  disk[q].completed /\ reg[q].listed => reg[q].completed
    BY GoodIsNormal DEF Good, GoodPast
  <2> QED
    BY <1>3, <2>1 DEF SweepEnds, NothingReopened
<1>4. CASE Crash
  BY <1>1, <1>4 DEF Crash
<1>5. CASE Restart
  BY <1>5, RestoredGood DEF NothingReopened
<1> QED
  BY <1>1, <1>2, <1>3, <1>4, <1>5 DEF Next, vars, registryVars

-----------------------------------------------------------------------------
(* The theorems.                                                           *)

LEMMA Inductive == Spec => []IndInv
<1>1. Init => IndInv
  BY InitGood
<1>2. IndInv /\ [Next]_vars => IndInv'
  BY NextKeeps
<1> QED
  BY <1>1, <1>2, PTL DEF Spec

\* The registry's table, its saved copy and the state of its process keep
\* their types; the retry count of an entry never exceeds its limit.
THEOREM TypesKept == Spec => []TypeOK
<1>1. IndInv => TypeOK
  BY DEF IndInv
<1> QED
  BY <1>1, Inductive, PTL

\* No run is announced twice, however its reports, retries, wakes, timers,
\* steers, kills, crashes and restarts interleave.
THEOREM NoSecondAnnounce == Spec => []AnnouncedAtMostOnce
<1>1. ASSUME IndInv
      PROVE  AnnouncedAtMostOnce
  BY <1>1, GoodIsNormal DEF AnnouncedAtMostOnce, Good, GoodPast, Past
<1>2. IndInv => AnnouncedAtMostOnce
  BY <1>1
<1> QED
  BY <1>2, Inductive, PTL

\* The failed announces that count as retries are bounded over the life of a
\* run, whatever is restored from disk.
THEOREM FiniteAttempts == Spec => []AttemptsBounded
<1>1. ASSUME IndInv
      PROVE  AttemptsBounded
  BY <1>1, GoodIsNormal DEF AttemptsBounded, Good, GoodPast, Past
<1>2. IndInv => AttemptsBounded
  BY <1>1
<1> QED
  BY <1>2, Inductive, PTL

\* A killed run is never announced.
THEOREM KilledStaysQuiet == Spec => []KilledNeverAnnounced
<1>1. ASSUME IndInv
      PROVE  KilledNeverAnnounced
  <2>1. killed \subseteq Runs
    BY <1>1 DEF IndInv, TypeOK
  <2> QED
    BY <1>1, <2>1, GoodIsNormal DEF KilledNeverAnnounced, Good, GoodPast, Past
<1>2. IndInv => KilledNeverAnnounced
  BY <1>1
<1> QED
  BY <1>2, Inductive, PTL

\* A run replaced by a steer is never announced.
THEOREM ReplacedStaysQuiet == Spec => []SteeredNeverAnnounced
<1>1. ASSUME IndInv
      PROVE  SteeredNeverAnnounced
  <2>1. replaced \subseteq Runs
    BY <1>1 DEF IndInv, TypeOK
  <2> QED
    BY <1>1, <2>1, GoodIsNormal DEF SteeredNeverAnnounced, Good, GoodPast, Past
<1>2. IndInv => SteeredNeverAnnounced
  BY <1>1
<1> QED
  BY <1>2, Inductive, PTL

\* A flow, and the hook emission after it, own the cleanup of their run.
THEOREM FlowOwns == Spec => []FlowOwnsCleanup
<1>1. ASSUME IndInv
      PROVE  FlowOwnsCleanup
  BY <1>1, GoodIsNormal DEF FlowOwnsCleanup, Good, GoodCopy, Owned
<1>2. IndInv => FlowOwnsCleanup
  BY <1>1
<1> QED
  BY <1>2, Inductive, PTL

\* Without a crash no run stays muted after its steer.
THEOREM MutedWhileSteering == Spec => []MutedOnlyWhileSteering
<1>1. IndInv => MutedOnlyWhileSteering
  BY DEF IndInv
<1> QED
  BY <1>1, Inductive, PTL

\* No step reopens a cleanup that was saved as completed.
THEOREM CompletedForGood == Spec => CleanupNeverReopened
<1>1. IndInv /\ [Next]_vars
          => [\A r \in Runs : disk[r].completed /\ disk'[r].listed => disk'[r].completed]_vars
  BY NextReopensNothing DEF NothingReopened
<1> QED
  BY <1>1, Inductive, PTL DEF Spec, CleanupNeverReopened
=============================================================================
