--------------------------- MODULE LifecycleProofs --------------------------
(***************************************************************************)
(* Theorems of WorkerLifecycle, for every number of consumer slots,        *)
(* entries, measurements, failures, retries and leases.                    *)
(***************************************************************************)
EXTENDS WorkerLifecycle, FiniteSetTheorems, TLAPS

\* The goroutines that record are all different.
LEMMA GoroutineNames ==
  /\ Loop \in Goroutines
  /\ \A c \in Consumers :
       /\ Polling(c) \in Goroutines /\ Renewal(c) \in Goroutines
       /\ Polling(c) # Loop /\ Renewal(c) # Loop
       /\ \A d \in Consumers : /\ Polling(c) # Renewal(d)
                               /\ Polling(c) = Polling(d) => c = d
                               /\ Renewal(c) = Renewal(d) => c = d
  /\ \A g \in Goroutines :
       g = Loop \/ \E c \in Consumers : g = Polling(c) \/ g = Renewal(c)
  BY DEF Goroutines, Loop, Polling, Renewal

\* What a goroutine is recording.
RecType == [pc   : {"idle", "store", "add"},
            kind : Kinds \cup {"gained", "lost"},
            ref  : Objects \cup {NoObject}]

\* A goroutine that has stored an entry goes on with that one.
LEMMA StoredType ==
  ASSUME NEW r \in RecType, NEW o \in Objects
  PROVE  /\ [r EXCEPT !.pc = "add", !.ref = o] \in RecType
         /\ [r EXCEPT !.pc = "add", !.ref = o].pc = "add"
         /\ [r EXCEPT !.pc = "add", !.ref = o].ref = o
         /\ [r EXCEPT !.pc = "add", !.ref = o].kind = r.kind
  BY DEF RecType

\* Looking the entry up leaves a goroutine that records.
LEMMA LoadType ==
  ASSUME MetricsTypeOK, NEW g \in Goroutines, NEW kind \in Kinds \cup {"gained", "lost"},
         Load(g, kind)
  PROVE  /\ rec' \in [Goroutines -> RecType]
         /\ UNCHANGED <<entry, made, count, held, recorded>>
<1>1. [pc |-> IF entry = NoObject THEN "store" ELSE "add", kind |-> kind, ref |-> entry]
        \in RecType
  BY DEF MetricsTypeOK, RecType
<1> QED
  BY <1>1 DEF Load, MetricsTypeOK, RecType

\* Every step keeps the types: those of Start ...
LEMMA StartTypes ==
  ASSUME TypeOK, StartCall \/ StartStep \/ Registration
  PROVE  TypeOK'
<1> USE DEF TypeOK, MetricsTypeOK, StartGoes, Works, Fails, metricsVars,
            entryVars, monVars, shutVars, loopVars
<1>1. CASE StartCall
  BY <1>1, LifecycleAssumption DEF StartCall
<1>2. CASE FetchARN
  <2>1. faults' \in 0 .. MaxFaults
    BY <1>2, MetricsAssumption DEF FetchARN
  <2>2. arn' \in {"none", "creating", "active"}
    BY <1>2 DEF FetchARN
  <2>3. RetryARN \/ (start' = "monitor" /\ retry' = retry)
    BY <1>2, Zenon DEF FetchARN
  <2>4. retry' \in 0 .. MaxRetries
    BY <2>3, LifecycleAssumption DEF RetryARN, MayRetry, CountRetry
  <2>5. start' \in {"arn", "monitor", "failed"}
    BY <1>2, <2>3 DEF FetchARN, RetryARN
  <2> QED
    BY <1>2, <2>1, <2>2, <2>4, <2>5 DEF FetchARN
<1>3. CASE InitMonitor
  BY <1>3 DEF InitMonitor, MonitorInit
<1>4. CASE InitCheckpointer
  BY <1>4, MetricsAssumption DEF InitCheckpointer
<1>5. CASE MakeStop
  BY <1>5 DEF MakeStop
<1>9. CASE MakeWaitGroup
  BY <1>9 DEF MakeWaitGroup
<1>6. CASE StartMonitor
  BY <1>6 DEF StartMonitor, MonitorStart
<1>7. CASE StartLoop
  BY <1>7 DEF StartLoop
<1>8. CASE Registration
  BY <1>8 DEF Registration
<1> QED
  BY <1>1, <1>2, <1>3, <1>4, <1>5, <1>6, <1>7, <1>8, <1>9 DEF StartStep

\* ... those of the event loop and the consumers ...
LEMMA LoopTypes ==
  ASSUME TypeOK,
         \/ LoopGain \/ LoopStarts \/ LoopExit
         \/ \E c \in Consumers :
              ConProcess(c) \/ ConStep(c) \/ Renewed(c) \/ RenewalEnds(c)
  PROVE  TypeOK'
<1> USE DEF TypeOK, Keep, metricsVars, entryVars, monVars, startVars, shutVars, loopVars
<1>a. ASSUME UNCHANGED <<entry, made, count, held, recorded>>,
             rec' \in [Goroutines -> RecType], Keep
      PROVE  /\ MetricsTypeOK'
             /\ UNCHANGED <<start, retry, arn, stop, done, shut, early>>
  BY <1>a DEF MetricsTypeOK, RecType
<1>b. rec \in [Goroutines -> RecType]
  BY DEF MetricsTypeOK, RecType
<1>1. CASE LoopGain
  <2>1. Load(Loop, "gained") /\ Keep
    BY <1>1 DEF LoopGain
  <2>2. MetricsTypeOK' /\ UNCHANGED <<start, retry, arn, stop, done, shut, early>>
    BY <1>a, <2>1, LoadType, GoroutineNames
  <2>3. leases' \in 0 .. MaxLeases
    BY <1>1, LifecycleAssumption DEF LoopGain
  <2> QED
    BY <1>1, <2>2, <2>3 DEF LoopGain
<1>2. CASE LoopStarts
  <2>1. MetricsTypeOK' /\ UNCHANGED <<start, retry, arn, stop, done, shut, early>>
    BY <1>2, <1>a, <1>b DEF LoopStarts
  <2> QED
    BY <1>2, <2>1 DEF LoopStarts
<1>3. CASE LoopExit
  <2>1. MetricsTypeOK' /\ UNCHANGED <<start, retry, arn, stop, done, shut, early>>
    BY <1>3, <1>a, <1>b DEF LoopExit
  <2> QED
    BY <1>3, <2>1 DEF LoopExit
<1>4. ASSUME NEW c \in Consumers, ConProcess(c)
      PROVE  TypeOK'
  <2>1. MetricsTypeOK' /\ UNCHANGED <<start, retry, arn, stop, done, shut, early>>
    BY <1>4, <1>a, LoadType, GoroutineNames DEF ConProcess, Kinds
  <2> QED
    BY <1>4, <2>1 DEF ConProcess
<1>5. ASSUME NEW c \in Consumers, ConReturn(c)
      PROVE  TypeOK'
  <2>1. MetricsTypeOK' /\ UNCHANGED <<start, retry, arn, stop, done, shut, early>>
    BY <1>5, <1>a, LoadType, GoroutineNames DEF ConReturn
  <2> QED
    BY <1>5, <2>1 DEF ConReturn
<1>9. ASSUME NEW c \in Consumers, WaitEnds(c)
      PROVE  TypeOK'
  <2>1. MetricsTypeOK' /\ UNCHANGED <<start, retry, arn, stop, done, shut, early>>
    BY <1>9, <1>a, <1>b, LoadType, GoroutineNames DEF WaitEnds
  <2>2. con' \in [Consumers -> {"off", "wait", "run", "lost"}] /\ ren' \subseteq Consumers
    BY <1>9 DEF WaitEnds
  <2> QED
    BY <1>9, <2>1, <2>2 DEF WaitEnds
<1>6. ASSUME NEW c \in Consumers, ConDone(c)
      PROVE  TypeOK'
  <2>1. MetricsTypeOK' /\ UNCHANGED <<start, retry, arn, stop, done, shut, early>>
    BY <1>6, <1>a, <1>b DEF ConDone
  <2> QED
    BY <1>6, <2>1 DEF ConDone
<1>7. ASSUME NEW c \in Consumers, Renewed(c)
      PROVE  TypeOK'
  <2>1. MetricsTypeOK' /\ UNCHANGED <<start, retry, arn, stop, done, shut, early>>
    BY <1>7, <1>a, LoadType, GoroutineNames DEF Renewed, Kinds
  <2> QED
    BY <1>7, <2>1 DEF Renewed
<1>8. ASSUME NEW c \in Consumers, RenewalEnds(c)
      PROVE  TypeOK'
  <2>1. MetricsTypeOK' /\ UNCHANGED <<start, retry, arn, stop, done, shut, early>>
    BY <1>8, <1>a, <1>b DEF RenewalEnds
  <2> QED
    BY <1>8, <2>1 DEF RenewalEnds
<1> QED
  BY <1>1, <1>2, <1>3, <1>4, <1>5, <1>6, <1>7, <1>8, <1>9 DEF ConStep

\* ... of the recorders, whose reference is an entry by the time they add ...
LEMMA RecordTypes ==
  ASSUME TypeOK, NEW g \in Goroutines, RecordStep(g),
         rec[g].pc = "add" => rec[g].ref \in Objects
  PROVE  TypeOK'
<1> USE DEF TypeOK, MetricsTypeOK
<1>1. /\ Store(g) \/ Add(g)
      /\ UNCHANGED <<published, monStop, monPc, faults, start, retry, arn, stop,
                     done, shut, early, loop, leases, con, ren>>
  BY DEF RecordStep, Record, monVars, startVars, shutVars, loopVars
<1>2. CASE Store(g)
  <2>1. PICK o \in Objects \ made :
          /\ entry' = o /\ made' = made \cup {o}
          /\ rec' = [rec EXCEPT ![g].pc = "add", ![g].ref = o]
          /\ UNCHANGED <<count, held, recorded>>
    BY <1>2, Zenon DEF Store
  <2>2. rec' \in [Goroutines -> RecType]
    <3> DEFINE r == [rec[g] EXCEPT !.pc = "add", !.ref = o]
    <3>1. rec' = [rec EXCEPT ![g] = r]
      BY <2>1
    <3>2. rec[g] \in RecType
      BY DEF RecType
    <3>3. r \in RecType
      BY <3>2, StoredType, Zenon
    <3> QED
      BY <3>1, <3>3 DEF RecType
  <2>3. MetricsTypeOK'
    BY <1>1, <2>1, <2>2 DEF RecType
  <2> QED
    BY <1>1, <2>3
<1>3. CASE Add(g)
  <2> DEFINE o == rec[g].ref
             k == rec[g].kind
  <2>1. /\ o \in Objects
        /\ rec' = [rec EXCEPT ![g] = Idle]
        /\ UNCHANGED <<entry, made>>
    BY <1>3 DEF Add
  <2>2. rec' \in [Goroutines -> RecType]
    <3>1. Idle \in RecType
      BY DEF Idle, RecType, Kinds
    <3> QED
      BY <2>1, <3>1 DEF RecType
  <2>3. \/ /\ k \in Kinds
           /\ count' = [count EXCEPT ![o][k] = @ + 1]
           /\ recorded' = [recorded EXCEPT ![k] = @ + 1]
           /\ held' = held
        \/ /\ held' = [held EXCEPT ![o] = @ + (IF k = "gained" THEN 1 ELSE -1)]
           /\ UNCHANGED <<count, recorded>>
    BY <1>3 DEF Add
  <2> HIDE DEF o, k
  <2>4. /\ count' \in [Objects -> [Kinds -> Nat]]
        /\ held' \in [Objects -> Int]
        /\ recorded' \in [Kinds -> Nat]
    <3>1. CASE UNCHANGED <<count, recorded>>
      BY <2>1, <2>3, <3>1
    <3>2. CASE /\ k \in Kinds /\ held' = held
               /\ count' = [count EXCEPT ![o][k] = @ + 1]
               /\ recorded' = [recorded EXCEPT ![k] = @ + 1]
      <4>1. [count[o] EXCEPT ![k] = @ + 1] \in [Kinds -> Nat]
        BY <2>1, <3>2
      <4>2. recorded' \in [Kinds -> Nat]
        BY <3>2
      <4>3. count' = [count EXCEPT ![o] = [count[o] EXCEPT ![k] = @ + 1]]
        BY <2>1, <3>2
      <4> QED
        BY <2>1, <3>2, <4>1, <4>2, <4>3
    <3> QED
      BY <2>3, <3>1, <3>2
  <2>5. MetricsTypeOK'
    BY <1>1, <2>1, <2>2, <2>4 DEF RecType
  <2> QED
    BY <1>1, <2>5
<1> QED
  BY <1>1, <1>2, <1>3

\* ... and of the monitoring service and of Shutdown.
LEMMA ServiceTypes ==
  ASSUME TypeOK,
         \/ MonitorStep(Flush \/ MonitorStop \/ MonitorTimer)
         \/ ShutdownCall \/ ShutStep \/ ShutdownAgain
  PROVE  TypeOK'
<1> USE DEF TypeOK, MetricsTypeOK, metricsVars, entryVars, monVars, startVars,
            shutVars, loopVars
<1>1. CASE MonitorStep(Flush \/ MonitorStop \/ MonitorTimer)
  <2>1. UNCHANGED <<startVars, shutVars, loopVars>>
    BY <1>1, Zenon DEF MonitorStep
  <2>2. CASE Flush
    <3>1. faults' \in 0 .. MaxFaults
      BY <2>2, MetricsAssumption DEF Flush, FlushShard, Works, Fails
    <3>2. published' \in [Kinds -> Nat] /\ count' \in [Objects -> [Kinds -> Nat]]
      <4>1. Zero \in [Kinds -> Nat]
        BY DEF Zero
      <4>2. entry # NoObject /\ Publish => published' \in [Kinds -> Nat]
        BY DEF Publish
      <4>3. \/ UNCHANGED published
            \/ entry # NoObject /\ Publish
        BY <2>2, Zenon DEF Flush, FlushShard
      <4>4. \/ UNCHANGED count
            \/ count' = [count EXCEPT ![entry] = Zero]
        BY <2>2, Zenon DEF Flush, FlushShard, KeepCounts
      <4> QED
        BY <4>1, <4>2, <4>3, <4>4
    <3>3. monPc' \in {"select", "done"}
      BY <2>2 DEF Flush, AfterFlush
    <3> QED
      BY <2>1, <2>2, <3>1, <3>2, <3>3 DEF Flush
  <2>3. CASE MonitorStop
    BY <2>1, <2>3 DEF MonitorStop
  <2>4. CASE MonitorTimer
    BY <2>1, <2>4 DEF MonitorTimer
  <2> QED
    BY <1>1, <2>2, <2>3, <2>4, Zenon DEF MonitorStep
<1>2. CASE ShutdownCall
  <2>1. early' \in BOOLEAN
    BY <1>2, Zenon DEF ShutdownCall
  <2>2. shut' \in {"wait", "returned"} /\ stop' \in {stop, "closed"} /\ done' \in BOOLEAN
    BY <1>2, Zenon DEF ShutdownCall
  <2> QED
    BY <1>2, <2>1, <2>2 DEF ShutdownCall
<1>3. CASE ShutdownMonitor
  BY <1>3 DEF ShutdownMonitor, MonitorClose
<1>4. CASE ShutdownPanics \/ ShutdownReturns \/ ShutdownAgain
  BY <1>4 DEF ShutdownPanics, ShutdownReturns, ShutdownAgain
<1> QED
  BY <1>1, <1>2, <1>3, <1>4 DEF ShutStep

\* A goroutine that is about to add has an entry to add to.
RefInv == \A g \in Goroutines : rec[g].pc = "add" => rec[g].ref \in Objects

\* What the three steps of a recorder do to its record, and to no other's.
LEMMA LoadStep ==
  ASSUME TypeOK, NEW g \in Goroutines, NEW kind, Load(g, kind)
  PROVE  /\ rec[g].pc = "idle"
         /\ rec'[g].pc = IF entry = NoObject THEN "store" ELSE "add"
         /\ rec'[g].kind = kind
         /\ rec'[g].ref = entry
         /\ \A h \in Goroutines : h # g => rec'[h] = rec[h]
         /\ UNCHANGED <<entry, made, count, held, recorded>>
  BY DEF Load, Recording, TypeOK, MetricsTypeOK

\* What Store does: it puts a new entry in the map, which the goroutine has a
\* reference to, and nothing is recorded yet.
LEMMA StoreStep ==
  ASSUME TypeOK, NEW g \in Goroutines, Store(g)
  PROVE  /\ rec[g].pc = "store"
         /\ rec'[g].pc = "add"
         /\ rec'[g].kind = rec[g].kind
         /\ rec'[g].ref = entry'
         /\ \A h \in Goroutines : h # g => rec'[h] = rec[h]
         /\ entry' \in Objects \ made /\ made' = made \cup {entry'}
         /\ UNCHANGED <<count, held, recorded>>
<1>1. PICK o \in Objects \ made :
          /\ entry' = o /\ made' = made \cup {o}
          /\ rec' = [rec EXCEPT ![g].pc = "add", ![g].ref = o]
          /\ UNCHANGED <<count, held, recorded>>
  BY Zenon DEF Store
<1> DEFINE r == [rec[g] EXCEPT !.pc = "add", !.ref = o]
<1>2. rec \in [Goroutines -> RecType] /\ rec[g] \in RecType /\ o \in Objects
  BY DEF TypeOK, MetricsTypeOK, RecType
<1>3. rec' = [rec EXCEPT ![g] = r]
  BY <1>1, <1>2
<1>4. r.pc = "add" /\ r.ref = o /\ r.kind = rec[g].kind
  BY <1>2, StoredType, Zenon
<1> HIDE DEF r
<1>5. rec[g].pc = "store"
  BY DEF Store
<1> QED
  BY <1>1, <1>2, <1>3, <1>4, <1>5

\* What Add does: it adds to the entry the goroutine refers to, and ends.
LEMMA AddStep ==
  ASSUME TypeOK, NEW g \in Goroutines, Add(g)
  PROVE  /\ rec[g].pc = "add"
         /\ rec'[g].pc = "idle"
         /\ \A h \in Goroutines : h # g => rec'[h] = rec[h]
         /\ UNCHANGED <<entry, made>>
  BY DEF Add, Idle, TypeOK, MetricsTypeOK

\* RefInv is inductive.
LEMMA RefKept ==
  ASSUME TypeOK, RefInv, [Next]_vars
  PROVE  RefInv'
<1> USE DEF RefInv
<1>1. CASE UNCHANGED rec
  BY <1>1
<1>2. ASSUME NEW g \in Goroutines, NEW kind, Load(g, kind)
      PROVE  RefInv'
  <2>1. entry \in Objects \cup {NoObject}
    BY DEF TypeOK, MetricsTypeOK
  <2> QED
    BY <1>2, <2>1, LoadStep
<1>3. ASSUME NEW g \in Goroutines, RecordStep(g)
      PROVE  RefInv'
  <2>1. Store(g) \/ Add(g)
    BY <1>3, Zenon DEF RecordStep, Record
  <2>2. CASE Store(g)
    BY <2>2, StoreStep
  <2>3. CASE Add(g)
    BY <2>3, AddStep
  <2> QED
    BY <2>1, <2>2, <2>3
<1>4. CASE LoopGain
  BY <1>2, <1>4, GoroutineNames DEF LoopGain
<1>5. ASSUME NEW c \in Consumers,
             ConProcess(c) \/ ConStep(c) \/ Renewed(c) \/ RenewalEnds(c)
      PROVE  RefInv'
  <2>1. CASE ConDone(c) \/ RenewalEnds(c)
    BY <1>1, <2>1 DEF ConDone, RenewalEnds, entryVars
  <2>2. CASE ConProcess(c) \/ ConReturn(c) \/ Renewed(c)
    BY <1>2, <2>2, GoroutineNames DEF ConProcess, ConReturn, Renewed
  <2>3. CASE WaitEnds(c)
    BY <1>1, <1>2, <2>3, GoroutineNames DEF WaitEnds, entryVars
  <2> QED
    BY <1>5, <2>1, <2>2, <2>3 DEF ConStep
<1>6. CASE LoopStarts \/ LoopExit
  BY <1>1, <1>6 DEF LoopStarts, LoopExit, entryVars
<1>7. CASE StartCall \/ StartStep \/ Registration
  BY <1>1, <1>7
     DEF StartCall, StartStep, FetchARN, InitMonitor, MonitorInit, InitCheckpointer,
         MakeStop, MakeWaitGroup, StartMonitor, MonitorStart, StartLoop, Registration,
         metricsVars, entryVars
<1>8. CASE \/ MonitorStep(Flush \/ MonitorStop \/ MonitorTimer)
           \/ ShutdownCall \/ ShutStep \/ ShutdownAgain
  BY <1>1, <1>8
     DEF MonitorStep, Flush, MonitorStop, MonitorTimer, ShutdownCall, ShutStep,
         ShutdownPanics, ShutdownMonitor, MonitorClose, ShutdownReturns, ShutdownAgain,
         metricsVars, entryVars
<1>9. CASE UNCHANGED vars
  BY <1>1, <1>9 DEF vars, metricsVars, entryVars
<1> QED
  BY <1>3, <1>4, <1>5, <1>6, <1>7, <1>8, <1>9 DEF Next

\* Every variable keeps its type, and no goroutine adds to an entry that does
\* not exist.
THEOREM TypeCorrect == Spec => [](TypeOK /\ RefInv)
<1>1. Init => TypeOK /\ RefInv
  <2> SUFFICES ASSUME Init PROVE TypeOK /\ RefInv
    OBVIOUS
  <2>1. /\ Zero \in [Kinds -> Nat] /\ Idle.pc = "idle"
        /\ Idle \in [pc   : {"idle", "store", "add"},
                     kind : Kinds \cup {"gained", "lost"},
                     ref  : Objects \cup {NoObject}]
    BY DEF Zero, Idle, Kinds
  <2>2. MetricsTypeOK /\ RefInv
    BY <2>1, MetricsAssumption DEF Init, MetricsInit, MetricsTypeOK, RefInv
  <2>3. retry \in 0 .. MaxRetries /\ leases \in 0 .. MaxLeases
    BY LifecycleAssumption DEF Init
  <2>4. con \in [Consumers -> {"off", "wait", "run", "lost"}] /\ ren \subseteq Consumers
    BY DEF Init
  <2>5. done \in BOOLEAN /\ early \in BOOLEAN
    BY DEF Init
  <2> QED
    BY <2>2, <2>3, <2>4, <2>5 DEF Init, TypeOK
<1>2. TypeOK /\ RefInv /\ [Next]_vars => (TypeOK /\ RefInv)'
  <2> SUFFICES ASSUME TypeOK, RefInv, [Next]_vars
               PROVE  TypeOK'
    BY RefKept
  <2>1. ASSUME NEW g \in Goroutines, RecordStep(g)
        PROVE  TypeOK'
    BY <2>1, RecordTypes DEF RefInv
  <2>2. CASE Next
    BY <2>1, <2>2, StartTypes, LoopTypes, ServiceTypes DEF Next
  <2>3. CASE UNCHANGED vars
    BY <2>3 DEF TypeOK, MetricsTypeOK, vars, metricsVars, entryVars, monVars,
                startVars, shutVars, loopVars
  <2> QED
    BY <2>2, <2>3
<1> QED
  BY <1>1, <1>2, PTL DEF Spec

-----------------------------------------------------------------------------
(* The inductive invariants.                                               *)

\* Until Start has started the event loop nothing is recorded; it makes the
\* stop channel before it starts a goroutine.
StartInv ==
  /\ start \notin {"group", "services", "loop", "running", "dead"} => stop = "nil"
  /\ start \in {"loop", "running"} <=> monPc # "off"
  /\ loop = "off" <=> start # "running"
  /\ loop = "off" => /\ entry = NoObject
                     /\ ren = {}
                     /\ \A c \in Consumers : con[c] = "off"
                     /\ \A g \in Goroutines : ~Recording(g)

\* Only the event loop, at its first lease, finds no entry and makes one:
\* consumers and renewals begin when it has recorded that lease.  From then
\* on there is one entry, and whoever adds, adds to it.
RecordInv ==
  /\ \A g \in Goroutines :
       /\ rec[g].pc = "add" => entry # NoObject /\ rec[g].ref = entry
       /\ rec[g].pc = "store" => entry = NoObject /\ g = Loop
  /\ Recording(Loop) => loop = "gain" /\ rec[Loop].kind = "gained"
  /\ loop = "gain" /\ ~Recording(Loop) => entry # NoObject
  /\ \A c \in Consumers :
       /\ con[c] # "off" \/ c \in ren => entry # NoObject
       /\ Recording(Polling(c)) =>
            \/ con[c] = "run" /\ rec[Polling(c)].kind = "records"
            \/ con[c] = "lost" /\ rec[Polling(c)].kind = "lost"
       /\ Recording(Renewal(c)) => c \in ren /\ rec[Renewal(c)].kind = "renewals"
  /\ entry # NoObject => entry \in made
  /\ \A o \in Objects \ made : count[o] = Zero /\ held[o] = 0

\* While the event loop is off, no goroutine records.
LEMMA OffIsQuiet ==
  ASSUME StartInv, loop = "off"
  PROVE  /\ ~(LoopGain \/ LoopStarts \/ LoopExit)
         /\ \A c \in Consumers :
              ~(ConProcess(c) \/ ConStep(c) \/ Renewed(c) \/ RenewalEnds(c))
         /\ \A g \in Goroutines : ~RecordStep(g)
<1>1. ~(LoopGain \/ LoopStarts \/ LoopExit)
  BY DEF LoopGain, LoopStarts, LoopExit
<1>2. ASSUME NEW c \in Consumers
      PROVE  ~(ConProcess(c) \/ ConStep(c) \/ Renewed(c) \/ RenewalEnds(c))
  BY DEF StartInv, ConProcess, ConStep, WaitEnds, ConReturn, ConDone, Renewed, RenewalEnds
<1>3. ASSUME NEW g \in Goroutines
      PROVE  ~RecordStep(g)
  BY DEF StartInv, RecordStep, Record, Store, Add, Recording
<1> QED
  BY <1>1, <1>2, <1>3

\* StartInv is inductive.
LEMMA StartKept ==
  ASSUME TypeOK, StartInv, [Next]_vars
  PROVE  StartInv'
<1>1. CASE UNCHANGED vars
  BY <1>1 DEF StartInv, Recording, vars, metricsVars, entryVars, monVars,
              startVars, shutVars, loopVars
<1>2. CASE StartCall \/ FetchARN \/ InitCheckpointer \/ Registration
  <2>1. /\ UNCHANGED <<stop, monPc, loop, entry, ren, con, rec>>
        /\ \/ start' = start
           \/ /\ start \in {"idle", "failed", "arn", "checkpointer"}
              /\ start' \in {"arn", "monitor", "stop", "failed"}
    BY <1>2 DEF StartCall, FetchARN, RetryARN, InitCheckpointer, Registration,
                StartGoes, metricsVars, entryVars, monVars, shutVars, loopVars
  <2> QED
    BY <2>1 DEF StartInv, Recording
<1>3. CASE InitMonitor \/ MakeStop \/ MakeWaitGroup
  <2>1. /\ start \in {"monitor", "stop", "group"}
        /\ start' \in {"checkpointer", "group", "services"}
        /\ start' = "checkpointer" => start = "monitor" /\ stop' = stop
        /\ entry' \in {entry, NoObject}
        /\ UNCHANGED <<monPc, loop, ren, con, rec>>
    BY <1>3 DEF InitMonitor, MonitorInit, MakeStop, MakeWaitGroup, StartGoes, metricsVars,
                entryVars, monVars, shutVars, loopVars
  <2> QED
    BY <2>1 DEF StartInv, Recording
<1>4. CASE StartMonitor \/ StartLoop
  <2>1. /\ UNCHANGED <<stop, entry, ren, con, rec>>
        /\ \/ /\ start = "services" /\ start' = "loop"
              /\ monPc' = "flush" /\ loop' = loop
           \/ /\ start = "loop" /\ start' = "running"
              /\ monPc' = monPc /\ loop' = "select"
    BY <1>4 DEF StartMonitor, MonitorStart, StartLoop, StartGoes, metricsVars,
                entryVars, monVars, shutVars, loopVars
  <2> QED
    BY <2>1 DEF StartInv, Recording
<1>5. ASSUME \/ LoopGain \/ LoopStarts \/ LoopExit
             \/ \E c \in Consumers :
                  ConProcess(c) \/ ConStep(c) \/ Renewed(c) \/ RenewalEnds(c)
             \/ \E g \in Goroutines : RecordStep(g)
      PROVE  StartInv'
  <2>1. loop # "off"
    BY <1>5, OffIsQuiet
  <2>2. UNCHANGED <<start, stop, monPc>> /\ loop' # "off"
    BY <1>5, <2>1
       DEF LoopGain, LoopStarts, LoopExit, ConProcess, ConStep, WaitEnds, ConReturn,
           ConDone, Renewed, RenewalEnds, RecordStep, Record, Keep, monVars, startVars,
           shutVars, loopVars
  <2> QED
    BY <2>1, <2>2 DEF StartInv
<1>6. CASE MonitorStep(Flush \/ MonitorStop \/ MonitorTimer)
  <2>1. /\ UNCHANGED <<start, stop, loop, entry, ren, con, rec>>
        /\ monPc # "off" /\ monPc' # "off"
    BY <1>6 DEF MonitorStep, Flush, AfterFlush, MonitorStop, MonitorTimer,
                startVars, shutVars, loopVars, entryVars
  <2> QED
    BY <2>1 DEF StartInv, Recording
<1>7. CASE ShutdownCall \/ ShutStep \/ ShutdownAgain
  <2>1. /\ UNCHANGED <<monPc, loop, entry, ren, con, rec>>
        /\ start' = start \/ (start = "group" /\ start' = "dead")
        /\ stop = "nil" => stop' = "nil"
    BY <1>7 DEF ShutdownCall, ShutStep,
         ShutdownPanics, ShutdownMonitor, MonitorClose,
                ShutdownReturns, ShutdownAgain, startVars, loopVars, metricsVars,
                entryVars, monVars
  <2> QED
    BY <2>1 DEF StartInv, Recording
<1> QED
  BY <1>1, <1>2, <1>3, <1>4, <1>5, <1>6, <1>7 DEF Next, StartStep

\* RecordInv is inductive: a recorder that looks the entry up ...
LEMMA LoadKeeps ==
  ASSUME TypeOK, StartInv, RecordInv,
         \/ LoopGain
         \/ \E c \in Consumers :
              ConProcess(c) \/ ConReturn(c) \/ WaitEnds(c) \/ Renewed(c)
  PROVE  RecordInv'
<1> USE GoroutineNames DEF Recording
<1>1. CASE LoopGain
  <2>1. /\ Load(Loop, "gained") /\ loop = "select" /\ loop' = "gain"
        /\ UNCHANGED <<con, ren>>
    BY <1>1 DEF LoopGain
  <2>2. /\ rec'[Loop].pc = IF entry = NoObject THEN "store" ELSE "add"
        /\ rec'[Loop].kind = "gained" /\ rec'[Loop].ref = entry
        /\ \A h \in Goroutines : h # Loop => rec'[h] = rec[h]
        /\ UNCHANGED <<entry, made, count, held, recorded>>
    BY <2>1, LoadStep
  <2> QED
    BY <2>1, <2>2 DEF RecordInv
<1>2. ASSUME NEW c \in Consumers, ConProcess(c)
      PROVE  RecordInv'
  <2>1. /\ Load(Polling(c), "records") /\ con[c] = "run"
        /\ UNCHANGED <<loop, con, ren>>
    BY <1>2 DEF ConProcess, loopVars
  <2>2. entry # NoObject
    BY <2>1 DEF RecordInv
  <2>3. /\ rec'[Polling(c)].pc = "add"
        /\ rec'[Polling(c)].kind = "records" /\ rec'[Polling(c)].ref = entry
        /\ \A h \in Goroutines : h # Polling(c) => rec'[h] = rec[h]
        /\ UNCHANGED <<entry, made, count, held, recorded>>
    BY <2>1, <2>2, LoadStep
  <2> QED
    BY <2>1, <2>2, <2>3 DEF RecordInv
<1>3. ASSUME NEW c \in Consumers, Load(Polling(c), "lost"), con[c] # "off",
             con' = [con EXCEPT ![c] = "lost"], UNCHANGED <<loop, ren>>
      PROVE  RecordInv'
  <2>1. /\ Load(Polling(c), "lost") /\ con[c] # "off"
        /\ con' = [con EXCEPT ![c] = "lost"]
        /\ UNCHANGED <<loop, ren>>
    BY <1>3
  <2>2. entry # NoObject
    BY <2>1 DEF RecordInv
  <2>3. /\ rec'[Polling(c)].pc = "add"
        /\ rec'[Polling(c)].kind = "lost" /\ rec'[Polling(c)].ref = entry
        /\ \A h \in Goroutines : h # Polling(c) => rec'[h] = rec[h]
        /\ UNCHANGED <<entry, made, count, held, recorded>>
    BY <2>1, <2>2, LoadStep
  <2>4. con'[c] = "lost" /\ \A d \in Consumers : d # c => con'[d] = con[d]
    BY <2>1 DEF TypeOK
  <2> QED
    BY <2>1, <2>2, <2>3, <2>4 DEF RecordInv
<1>4. ASSUME NEW c \in Consumers, Renewed(c)
      PROVE  RecordInv'
  <2>1. /\ Load(Renewal(c), "renewals") /\ c \in ren
        /\ UNCHANGED <<loop, con, ren>>
    BY <1>4 DEF Renewed, loopVars
  <2>2. entry # NoObject
    BY <2>1 DEF RecordInv
  <2>3. /\ rec'[Renewal(c)].pc = "add"
        /\ rec'[Renewal(c)].kind = "renewals" /\ rec'[Renewal(c)].ref = entry
        /\ \A h \in Goroutines : h # Renewal(c) => rec'[h] = rec[h]
        /\ UNCHANGED <<entry, made, count, held, recorded>>
    BY <2>1, <2>2, LoadStep
  <2> QED
    BY <2>1, <2>2, <2>3 DEF RecordInv
<1>5. ASSUME NEW c \in Consumers, ConReturn(c)
      PROVE  RecordInv'
  BY <1>3, <1>5 DEF ConReturn
<1>6. ASSUME NEW c \in Consumers, WaitEnds(c)
      PROVE  RecordInv'
  <2>1. CASE Load(Polling(c), "lost") /\ con' = [con EXCEPT ![c] = "lost"] /\ UNCHANGED ren
    BY <1>3, <1>6, <2>1 DEF WaitEnds
  <2>2. CASE /\ con' = [con EXCEPT ![c] = "run"] /\ ren' = ren \cup {c}
             /\ UNCHANGED <<entry, made, count, held, rec>>
    <3>1. /\ con[c] = "wait" /\ UNCHANGED loop
          /\ con'[c] = "run" /\ \A d \in Consumers : d # c => con'[d] = con[d]
      BY <1>6, <2>2 DEF WaitEnds, TypeOK
    <3>2. entry # NoObject /\ ~Recording(Polling(c))
      BY <3>1 DEF RecordInv
    <3>3. \A d \in Consumers :
            /\ con'[d] # "off" \/ d \in ren' => entry # NoObject
            /\ Recording(Polling(d)) =>
                 \/ con'[d] = "run" /\ rec[Polling(d)].kind = "records"
                 \/ con'[d] = "lost" /\ rec[Polling(d)].kind = "lost"
            /\ Recording(Renewal(d)) => d \in ren' /\ rec[Renewal(d)].kind = "renewals"
      BY <2>2, <3>1, <3>2 DEF RecordInv
    <3> QED
      BY <2>2, <3>1, <3>3 DEF RecordInv
  <2> QED
    BY <1>6, <2>1, <2>2 DEF WaitEnds, entryVars
<1> QED
  BY <1>1, <1>2, <1>4, <1>5, <1>6

\* ... stores one, or adds to it ...
LEMMA RecordKeeps ==
  ASSUME TypeOK, RecordInv, NEW g \in Goroutines, RecordStep(g)
  PROVE  RecordInv'
<1> USE GoroutineNames DEF Recording
<1>1. (Store(g) \/ Add(g)) /\ UNCHANGED <<loop, con, ren>>
  BY DEF RecordStep, Record, loopVars
<1>2. CASE Store(g)
  <2>1. /\ rec[g].pc = "store"
        /\ rec'[g].pc = "add" /\ rec'[g].kind = rec[g].kind /\ rec'[g].ref = entry'
        /\ \A h \in Goroutines : h # g => rec'[h] = rec[h]
        /\ entry' \in Objects \ made /\ made' = made \cup {entry'}
        /\ UNCHANGED <<count, held, recorded>>
    BY <1>2, StoreStep
  <2>2. g = Loop /\ entry = NoObject
    BY <2>1 DEF RecordInv
  <2>3. entry' # NoObject
    BY <2>1, MetricsAssumption
  <2>4. \A h \in Goroutines : h # Loop => rec'[h].pc = "idle"
    BY <2>1, <2>2 DEF RecordInv, TypeOK, MetricsTypeOK
  <2>5. \A c \in Consumers : ~Recording(Polling(c))' /\ ~Recording(Renewal(c))'
    BY <2>4
  <2>6. Recording(Loop)' /\ loop' = "gain" /\ rec'[Loop].kind = "gained"
    BY <1>1, <2>1, <2>2 DEF RecordInv
  <2> QED
    BY <2>1, <2>2, <2>3, <2>4, <2>5, <2>6 DEF RecordInv
<1>3. CASE Add(g)
  <2>1. /\ rec[g].pc = "add"
        /\ rec'[g].pc = "idle"
        /\ \A h \in Goroutines : h # g => rec'[h] = rec[h]
        /\ UNCHANGED <<entry, made>>
    BY <1>3, AddStep
  <2>2. entry # NoObject /\ rec[g].ref = entry /\ entry \in made
    BY <2>1 DEF RecordInv
  <2>3. \A o \in Objects \ made : count'[o] = count[o] /\ held'[o] = held[o]
    BY <1>3, <2>2 DEF Add, TypeOK, MetricsTypeOK
  <2> QED
    BY <1>1, <2>1, <2>2, <2>3 DEF RecordInv
<1> QED
  BY <1>1, <1>2, <1>3

\* ... and all other steps.
LEMMA RecordKept ==
  ASSUME TypeOK, StartInv, RecordInv, [Next]_vars
  PROVE  RecordInv'
<1>1. ASSUME UNCHANGED <<entry, made, count, held, rec, con, ren>>,
             loop' = loop \/ (loop # "gain" /\ loop' # "gain")
      PROVE  RecordInv'
  BY <1>1 DEF RecordInv, Recording
<1>2. CASE UNCHANGED vars
  BY <1>1, <1>2 DEF vars, metricsVars, entryVars, loopVars
<1>3. CASE \/ StartCall \/ FetchARN \/ InitCheckpointer \/ MakeStop \/ MakeWaitGroup
           \/ StartMonitor
           \/ Registration \/ ShutdownCall \/ ShutStep \/ ShutdownAgain
  BY <1>1, <1>3
     DEF StartCall, FetchARN, InitCheckpointer, MakeStop, MakeWaitGroup,
         StartMonitor, MonitorStart, Registration, ShutdownCall, ShutStep,
         ShutdownPanics, ShutdownMonitor, MonitorClose,
         ShutdownReturns, ShutdownAgain, metricsVars, entryVars, loopVars
<1>4. CASE InitMonitor
  <2>1. start = "monitor" /\ entry' = NoObject
        /\ UNCHANGED <<made, count, held, rec, loop, con, ren>>
    BY <1>4 DEF InitMonitor, MonitorInit, StartGoes, loopVars
  <2>2. entry' = entry
    BY <2>1 DEF StartInv
  <2> QED
    BY <1>1, <2>1, <2>2
<1>5. CASE StartLoop \/ LoopExit
  <2>1. /\ UNCHANGED <<entry, made, count, held, rec, con, ren>>
        /\ loop' # "gain"
        /\ StartLoop => start = "loop"
        /\ LoopExit => loop = "select"
    BY <1>5 DEF StartLoop, LoopExit, StartGoes, metricsVars, entryVars
  <2> QED
    BY <1>1, <1>5, <2>1 DEF StartInv
<1>6. CASE LoopStarts
  <2>1. /\ loop = "gain" /\ ~Recording(Loop) /\ loop' = "select"
        /\ UNCHANGED <<entry, made, count, held, rec>>
    BY <1>6 DEF LoopStarts, GainRecorded, entryVars
  <2>2. PICK c \in Consumers : /\ con[c] = "off" /\ c \notin ren
                               /\ \/ con' = [con EXCEPT ![c] = "wait"]
                                  \/ con' = [con EXCEPT ![c] = "run"]
                               /\ ren \subseteq ren'
    BY <1>6 DEF LoopStarts
  <2>3. entry # NoObject
    BY <2>1 DEF RecordInv
  <2>4. con'[c] \in {"wait", "run"} /\ \A d \in Consumers : d # c => con'[d] = con[d]
    BY <2>2 DEF TypeOK
  <2>5. \A d \in Consumers :
          /\ Recording(Polling(d)) =>
               \/ con'[d] = "run" /\ rec[Polling(d)].kind = "records"
               \/ con'[d] = "lost" /\ rec[Polling(d)].kind = "lost"
          /\ Recording(Renewal(d)) => d \in ren' /\ rec[Renewal(d)].kind = "renewals"
    BY <2>2, <2>4 DEF RecordInv
  <2> QED
    BY <2>1, <2>3, <2>5 DEF RecordInv, Recording
<1>7. ASSUME NEW c \in Consumers, ConDone(c)
      PROVE  RecordInv'
  <2>1. /\ ~Recording(Polling(c)) /\ con' = [con EXCEPT ![c] = "off"]
        /\ con[c] = "lost"
        /\ UNCHANGED <<entry, made, count, held, rec, loop, ren>>
    BY <1>7 DEF ConDone, entryVars
  <2>2. con'[c] = "off" /\ \A d \in Consumers : d # c => con'[d] = con[d]
    BY <2>1 DEF TypeOK
  <2> QED
    BY <2>1, <2>2 DEF RecordInv, Recording
<1>8. ASSUME NEW c \in Consumers, RenewalEnds(c)
      PROVE  RecordInv'
  <2>1. /\ ~Recording(Renewal(c)) /\ ren' = ren \ {c}
        /\ UNCHANGED <<entry, made, count, held, rec, loop, con>>
    BY <1>8 DEF RenewalEnds, entryVars
  <2>2. \A d \in Consumers : d # c => (d \in ren' <=> d \in ren)
    BY <2>1
  <2> QED
    BY <2>1, <2>2 DEF RecordInv, Recording
<1>9. CASE MonitorStep(Flush \/ MonitorStop \/ MonitorTimer)
  <2>1. /\ UNCHANGED <<entry, made, held, rec, loop, con, ren>>
        /\ count' = count \/ (entry # NoObject /\ count' = [count EXCEPT ![entry] = Zero])
    BY <1>9, Zenon
       DEF MonitorStep, Flush, FlushShard, KeepCounts, MonitorStop, MonitorTimer,
           entryVars, loopVars
  <2>2. \A o \in Objects \ made : count'[o] = count[o]
    BY <2>1 DEF RecordInv, TypeOK, MetricsTypeOK
  <2> QED
    BY <2>1, <2>2 DEF RecordInv, Recording
<1> QED
  BY <1>2, <1>3, <1>4, <1>5, <1>6, <1>7, <1>8, <1>9, LoadKeeps, RecordKeeps
     DEF Next, StartStep, ConStep

\* The two are inductive together.
THEOREM LifecycleInvariant == Spec => [](StartInv /\ RecordInv)
<1>1. Init => StartInv /\ RecordInv
  <2> SUFFICES ASSUME Init PROVE StartInv /\ RecordInv
    OBVIOUS
  <2>1. \A g \in Goroutines : rec[g].pc = "idle"
    BY DEF Init, MetricsInit, Idle
  <2>2. StartInv
    BY <2>1 DEF Init, MetricsInit, StartInv, Recording
  <2>3. RecordInv
    BY <2>1, GoroutineNames DEF Init, MetricsInit, RecordInv, Recording
  <2> QED
    BY <2>2, <2>3
<1>2. TypeOK /\ StartInv /\ RecordInv /\ [Next]_vars => (StartInv /\ RecordInv)'
  BY StartKept, RecordKept
<1> QED
  BY <1>1, <1>2, TypeCorrect, PTL DEF Spec

-----------------------------------------------------------------------------
\* Nothing recorded is lost, whichever goroutine made the entry, whoever adds
\* to it while it is published, and however PutMetricData fails.
THEOREM NothingIsLost == Spec => []NothingLost
<1>1. Init => NothingLost
  BY DEF Init, MetricsInit, NothingLost, Zero
<1>2. TypeOK /\ StartInv /\ RecordInv /\ NothingLost /\ [Next]_vars => NothingLost'
  <2> SUFFICES ASSUME TypeOK, StartInv, RecordInv, NothingLost, [Next]_vars
               PROVE  NothingLost'
    OBVIOUS
  <2>1. ASSUME UNCHANGED <<entry, count, recorded, published>>
        PROVE  NothingLost'
    BY <2>1 DEF NothingLost
  <2>2. CASE UNCHANGED vars
    BY <2>1, <2>2 DEF vars, metricsVars, entryVars
  <2>3. CASE \/ StartCall \/ FetchARN \/ InitCheckpointer \/ MakeStop \/ MakeWaitGroup
             \/ StartMonitor \/ StartLoop \/ Registration
             \/ ShutdownCall \/ ShutStep \/ ShutdownAgain
    BY <2>1, <2>3
       DEF StartCall, FetchARN, InitCheckpointer, MakeStop, MakeWaitGroup, StartMonitor,
           MonitorStart, StartLoop, Registration, ShutdownCall, ShutStep,
           ShutdownPanics, ShutdownMonitor, MonitorClose, ShutdownReturns, ShutdownAgain,
           metricsVars, entryVars
  <2>4. CASE InitMonitor
    <3>1. start = "monitor" /\ entry' = NoObject
          /\ UNCHANGED <<count, recorded, published>>
      BY <2>4 DEF InitMonitor, MonitorInit, StartGoes
    <3> QED
      BY <2>1, <3>1 DEF StartInv
  <2>5. CASE \/ LoopGain \/ LoopStarts \/ LoopExit
             \/ \E c \in Consumers :
                  ConProcess(c) \/ ConStep(c) \/ Renewed(c) \/ RenewalEnds(c)
    BY <2>1, <2>5
       DEF LoopGain, LoopStarts, LoopExit, ConProcess, ConStep, WaitEnds, ConReturn,
           ConDone, Renewed, RenewalEnds, Load, Keep, entryVars
  <2>6. ASSUME NEW g \in Goroutines, RecordStep(g)
        PROVE  NothingLost'
    <3>1. (Store(g) \/ Add(g)) /\ published' = published
      BY <2>6 DEF RecordStep, Record
    <3>2. CASE Store(g)
      <4>1. /\ rec[g].pc = "store"
            /\ entry' \in Objects \ made
            /\ UNCHANGED <<count, recorded>>
        BY <3>2, StoreStep
      <4>2. entry = NoObject /\ count'[entry'] = Zero
        BY <4>1 DEF RecordInv
      <4> QED
        BY <3>1, <4>1, <4>2 DEF NothingLost, Zero
    <3>3. CASE Add(g)
      <4>1. /\ entry' = entry /\ rec[g].ref = entry /\ entry # NoObject
            /\ entry \in Objects
        BY <3>3, AddStep DEF RecordInv, TypeOK, MetricsTypeOK
      <4> DEFINE k == rec[g].kind
      <4>2. \/ /\ k \in Kinds
               /\ count' = [count EXCEPT ![entry][k] = @ + 1]
               /\ recorded' = [recorded EXCEPT ![k] = @ + 1]
            \/ UNCHANGED <<count, recorded>>
        BY <3>3, <4>1 DEF Add
      <4> HIDE DEF k
      <4>3. ASSUME k \in Kinds,
                   count' = [count EXCEPT ![entry][k] = @ + 1],
                   recorded' = [recorded EXCEPT ![k] = @ + 1],
                   NEW j \in Kinds
            PROVE  recorded'[j] <= published[j] + count'[entry][j]
        <5>1. /\ recorded \in [Kinds -> Nat] /\ published \in [Kinds -> Nat]
              /\ count \in [Objects -> [Kinds -> Nat]]
          BY DEF TypeOK, MetricsTypeOK
        <5>2. recorded[j] <= published[j] + count[entry][j]
          BY <4>1 DEF NothingLost
        <5>3. count'[entry] = [count[entry] EXCEPT ![k] = @ + 1]
          BY <4>1, <4>3, <5>1
        <5>4. /\ recorded[j] \in Nat /\ published[j] \in Nat /\ count[entry][j] \in Nat
              /\ count[entry] \in [Kinds -> Nat]
          BY <4>1, <5>1
        <5>5. CASE j = k
          <6>1. recorded'[j] = recorded[j] + 1
            BY <4>3, <5>1, <5>5
          <6>2. count'[entry][j] = count[entry][j] + 1
            BY <5>3, <5>4, <5>5
          <6> QED
            BY <5>2, <5>4, <6>1, <6>2
        <5>6. CASE j # k
          <6>1. recorded'[j] = recorded[j] /\ count'[entry][j] = count[entry][j]
            BY <4>3, <5>1, <5>3, <5>4, <5>6
          <6> QED
            BY <5>2, <6>1
        <5> QED
          BY <5>5, <5>6
      <4>4. CASE UNCHANGED <<count, recorded>>
        BY <2>1, <3>1, <4>1, <4>4
      <4> QED
        BY <3>1, <4>1, <4>2, <4>3, <4>4 DEF NothingLost
    <3> QED
      BY <3>1, <3>2, <3>3
  <2>7. CASE MonitorStep(MonitorStop \/ MonitorTimer)
    BY <2>1, <2>7 DEF MonitorStep, MonitorStop, MonitorTimer, entryVars
  <2>8. CASE MonitorStep(Flush)
    <3>1. UNCHANGED <<entry, recorded>>
      BY <2>8 DEF MonitorStep, Flush
    <3>2. \/ UNCHANGED <<count, published>>
          \/ /\ entry # NoObject /\ Publish
             /\ count' = [count EXCEPT ![entry] = Zero] \/ count' = count
      BY <2>8, Zenon DEF MonitorStep, Flush, FlushShard, KeepCounts
    <3>3. CASE UNCHANGED <<count, published>>
      BY <2>1, <3>1, <3>3
    <3>4. CASE /\ entry # NoObject /\ Publish
               /\ count' = [count EXCEPT ![entry] = Zero] \/ count' = count
      <4> SUFFICES ASSUME NEW k \in Kinds
                   PROVE  recorded[k] <= published'[k] + count'[entry][k]
        BY <3>1, <3>4 DEF NothingLost
      <4>1. /\ recorded[k] \in Nat /\ published[k] \in Nat
            /\ count[entry][k] \in Nat /\ entry \in Objects
        BY <3>4 DEF TypeOK, MetricsTypeOK
      <4>2. recorded[k] <= published[k] + count[entry][k]
        BY <3>4 DEF NothingLost
      <4>3. published'[k] = published[k] + count[entry][k]
        BY <3>4 DEF Publish
      <4>4. count'[entry][k] \in Nat
        BY <3>4, <4>1 DEF Zero, TypeOK, MetricsTypeOK
      <4> QED
        BY <4>1, <4>2, <4>3, <4>4
    <3> QED
      BY <3>2, <3>3, <3>4
  <2> QED
    BY <2>2, <2>3, <2>4, <2>5, <2>6, <2>7, <2>8 DEF Next, StartStep, MonitorStep
<1> QED
  BY <1>1, <1>2, TypeCorrect, LifecycleInvariant, PTL DEF Spec

-----------------------------------------------------------------------------
\* The gauge, and that the consumers it counts are finitely many: each of
\* them was started.
HeldInv == IsFiniteSet(Leased) /\ HeldBalanced

\* A step that changes neither the gauge nor the set it counts.
LEMMA HeldFrame ==
  ASSUME HeldInv, UNCHANGED <<held, Leased, GainPending>>,
         entry' = entry \/ entry' = NoObject
  PROVE  HeldInv'
  BY DEF HeldInv, HeldBalanced

\* A recording of anything but a lease, the event loop and the renewals
\* leave the set alone.
LEMMA LeasedFrame ==
  ASSUME UNCHANGED con,
         \A c \in Consumers :
           con[c] = "lost" => rec'[Polling(c)].pc = rec[Polling(c)].pc
  PROVE  Leased' = Leased
  BY DEF Leased, Recording

\* HeldInv is inductive: the recorders ...
LEMMA RecordHeld ==
  ASSUME TypeOK, RecordInv, HeldInv, NEW g \in Goroutines, RecordStep(g)
  PROVE  HeldInv'
<1> USE GoroutineNames
<1>1. (Store(g) \/ Add(g)) /\ UNCHANGED <<loop, con, ren>>
  BY DEF RecordStep, Record, loopVars
<1>2. CASE Store(g)
  <2>1. /\ rec[g].pc = "store" /\ rec'[g].pc = "add"
        /\ entry' \in Objects \ made /\ held' = held
    BY <1>2, StoreStep
  <2>2. g = Loop /\ entry = NoObject /\ held'[entry'] = 0
    BY <2>1 DEF RecordInv
  <2>3. \A c \in Consumers : con[c] = "off"
    BY <2>2 DEF RecordInv, TypeOK
  <2>4. Leased' = {}
    BY <1>1, <2>3 DEF Leased
  <2>5. ~GainPending'
    BY <2>1, <2>2 DEF GainPending, Recording
  <2> QED
    BY <2>2, <2>4, <2>5, FS_EmptySet DEF HeldInv, HeldBalanced
<1>3. CASE Add(g)
  <2>1. /\ rec[g].pc = "add" /\ rec'[g].pc = "idle"
        /\ \A h \in Goroutines : h # g => rec'[h] = rec[h]
        /\ entry' = entry
    BY <1>3, AddStep
  <2>2. rec[g].ref = entry /\ entry \in Objects /\ Recording(g)
    BY <2>1 DEF RecordInv, TypeOK, MetricsTypeOK, Recording
  <2>3. /\ rec[g].kind \in Kinds => held' = held
        /\ rec[g].kind = "gained" => held' = [held EXCEPT ![entry] = @ + 1]
        /\ rec[g].kind = "lost" => held' = [held EXCEPT ![entry] = @ - 1]
    BY <1>3, <2>2, GoroutineNames DEF Add, Kinds, TypeOK, MetricsTypeOK
  <2>4. held[entry] \in Int /\ held \in [Objects -> Int]
    BY <2>2 DEF TypeOK, MetricsTypeOK
  <2>5. IsFiniteSet(Leased) /\ Cardinality(Leased) \in Nat
    BY FS_CardinalityType DEF HeldInv
  <2>6. held[entry] = Cardinality(Leased) + (IF GainPending THEN 1 ELSE 0)
    BY <2>2, MetricsAssumption DEF HeldInv, HeldBalanced
  <2>7. CASE g = Loop
    <3>1. rec[g].kind = "gained" /\ loop = "gain"
      BY <2>2, <2>7 DEF RecordInv
    <3>2. ~GainPending /\ GainPending'
      BY <1>1, <2>1, <2>2, <2>7, <3>1 DEF GainPending, Recording
    <3>3. Leased' = Leased
      BY <1>1, <2>1, <2>7, LeasedFrame
    <3>4. held'[entry] = held[entry] + 1
      BY <2>2, <2>3, <2>4, <3>1
    <3> QED
      BY <2>1, <2>5, <2>6, <3>2, <3>3, <3>4 DEF HeldInv, HeldBalanced
  <2>8. ASSUME NEW c \in Consumers, g = Polling(c)
        PROVE  HeldInv'
    <3>1. UNCHANGED GainPending
      BY <1>1, <2>1, <2>8 DEF GainPending, Recording
    <3>2. CASE con[c] = "run" /\ rec[g].kind = "records"
      <4>1. Leased' = Leased
        BY <1>1, <2>1, <2>8, <3>2, LeasedFrame
      <4>2. held' = held
        BY <2>3, <3>2 DEF Kinds
      <4> QED
        BY <2>1, <3>1, <4>1, <4>2, HeldFrame
    <3>3. CASE con[c] = "lost" /\ rec[g].kind = "lost"
      <4>1. c \in Leased
        BY <2>2, <2>8, <3>3 DEF Leased
      <4>2. Leased' = Leased \ {c}
        BY <1>1, <2>1, <2>8, <3>3 DEF Leased, Recording
      <4>3. /\ IsFiniteSet(Leased')
            /\ Cardinality(Leased') = Cardinality(Leased) - 1
        BY <2>5, <4>1, <4>2, FS_RemoveElement
      <4>4. held'[entry] = held[entry] - 1
        BY <2>2, <2>3, <2>4, <3>3
      <4>5. GainPending' <=> GainPending
        BY <3>1
      <4>6. CASE GainPending
        BY <2>1, <2>5, <2>6, <4>3, <4>4, <4>5, <4>6 DEF HeldInv, HeldBalanced
      <4>7. CASE ~GainPending
        BY <2>1, <2>5, <2>6, <4>3, <4>4, <4>5, <4>7 DEF HeldInv, HeldBalanced
      <4> QED
        BY <4>6, <4>7
    <3> QED
      BY <2>2, <2>8, <3>2, <3>3 DEF RecordInv
  <2>9. ASSUME NEW c \in Consumers, g = Renewal(c)
        PROVE  HeldInv'
    <3>1. rec[g].kind = "renewals"
      BY <2>2, <2>9 DEF RecordInv
    <3>2. Leased' = Leased
      BY <1>1, <2>1, <2>9, LeasedFrame
    <3>3. UNCHANGED GainPending /\ held' = held
      BY <1>1, <2>1, <2>3, <2>9, <3>1 DEF GainPending, Recording, Kinds
    <3> QED
      BY <2>1, <3>2, <3>3, HeldFrame
  <2> QED
    BY <2>7, <2>8, <2>9
<1> QED
  BY <1>1, <1>2, <1>3

\* ... the event loop and the consumers ...
LEMMA LoopHeld ==
  ASSUME TypeOK, RecordInv, HeldInv,
         \/ LoopGain \/ LoopStarts \/ LoopExit
         \/ \E c \in Consumers :
              ConProcess(c) \/ ConStep(c) \/ Renewed(c) \/ RenewalEnds(c)
  PROVE  HeldInv'
<1> USE GoroutineNames
<1>1. CASE LoopGain
  <2>1. /\ Load(Loop, "gained") /\ loop = "select" /\ loop' = "gain"
        /\ UNCHANGED <<con, ren>>
    BY <1>1 DEF LoopGain
  <2>2. /\ rec'[Loop].pc # "idle" /\ entry' = entry /\ held' = held
        /\ \A h \in Goroutines : h # Loop => rec'[h] = rec[h]
    BY <2>1, LoadStep
  <2>3. Leased' = Leased /\ UNCHANGED GainPending
    BY <2>1, <2>2, LeasedFrame DEF GainPending, Recording
  <2> QED
    BY <2>2, <2>3, HeldFrame
<1>2. CASE LoopStarts
  <2>1. /\ GainPending /\ ~GainPending'
        /\ UNCHANGED <<entry, held, rec>>
    BY <1>2 DEF LoopStarts, GainRecorded, GainPending, entryVars
  <2>2. PICK c \in Consumers : /\ con[c] = "off"
                               /\ \E p \in {"wait", "run"} : con' = [con EXCEPT ![c] = p]
    BY <1>2 DEF LoopStarts
  <2>3. c \notin Leased /\ Leased' = Leased \cup {c}
    BY <2>1, <2>2 DEF Leased, Recording, TypeOK
  <2>4. /\ IsFiniteSet(Leased') /\ Cardinality(Leased) \in Nat
        /\ Cardinality(Leased') = Cardinality(Leased) + 1
    BY <2>3, FS_AddElement, FS_CardinalityType DEF HeldInv
  <2>5. entry # NoObject => held[entry] = Cardinality(Leased) + 1
    BY <2>1 DEF HeldInv, HeldBalanced
  <2> QED
    BY <2>1, <2>4, <2>5 DEF HeldInv, HeldBalanced
<1>3. CASE LoopExit
  <2>1. UNCHANGED <<entry, held, rec, con>> /\ loop = "select" /\ loop' = "done"
    BY <1>3 DEF LoopExit, entryVars
  <2> QED
    BY <2>1, HeldFrame DEF Leased, GainPending, Recording
<1>4. ASSUME NEW c \in Consumers, Load(Polling(c), "lost"), con[c] \in {"wait", "run"},
             con' = [con EXCEPT ![c] = "lost"], UNCHANGED loop
      PROVE  HeldInv'
  <2>1. /\ Load(Polling(c), "lost") /\ con[c] \in {"wait", "run"} /\ loop' = loop
        /\ con' = [con EXCEPT ![c] = "lost"]
    BY <1>4
  <2>2. /\ rec'[Polling(c)].pc # "idle" /\ entry' = entry /\ held' = held
        /\ \A h \in Goroutines : h # Polling(c) => rec'[h] = rec[h]
    BY <2>1, LoadStep
  <2>3. con'[c] = "lost" /\ \A d \in Consumers : d # c => con'[d] = con[d]
    BY <2>1 DEF TypeOK
  <2>4. Leased' = Leased
    BY <2>1, <2>2, <2>3 DEF Leased, Recording
  <2>5. UNCHANGED GainPending
    BY <2>1, <2>2 DEF GainPending, Recording
  <2> QED
    BY <2>2, <2>4, <2>5, HeldFrame
<1>5. ASSUME NEW c \in Consumers, ConDone(c)
      PROVE  HeldInv'
  <2>1. /\ con[c] = "lost" /\ ~Recording(Polling(c))
        /\ con' = [con EXCEPT ![c] = "off"]
        /\ UNCHANGED <<entry, held, rec, loop>>
    BY <1>5 DEF ConDone, entryVars
  <2>2. Leased' = Leased /\ UNCHANGED GainPending
    BY <2>1 DEF Leased, GainPending, Recording, TypeOK
  <2> QED
    BY <2>1, <2>2, HeldFrame
<1>6. ASSUME NEW c \in Consumers, ConProcess(c) \/ Renewed(c) \/ RenewalEnds(c)
      PROVE  HeldInv'
  <2>1. /\ UNCHANGED <<con, loop>>
        /\ \/ Load(Polling(c), "records") /\ con[c] = "run"
           \/ Load(Renewal(c), "renewals")
           \/ UNCHANGED <<rec, entry, held>>
    BY <1>6 DEF ConProcess, Renewed, RenewalEnds, entryVars, loopVars
  <2>2. UNCHANGED <<entry, held>>
    BY <2>1 DEF Load
  <2>3. /\ rec'[Loop] = rec[Loop]
        /\ \A d \in Consumers : con[d] = "lost" => rec'[Polling(d)] = rec[Polling(d)]
    BY <2>1, LoadStep
  <2>4. Leased' = Leased /\ UNCHANGED GainPending
    BY <2>1, <2>3, LeasedFrame DEF GainPending, Recording
  <2> QED
    BY <2>2, <2>4, HeldFrame
<1>7. ASSUME NEW c \in Consumers, ConReturn(c)
      PROVE  HeldInv'
  BY <1>4, <1>7 DEF ConReturn
<1>8. ASSUME NEW c \in Consumers, WaitEnds(c)
      PROVE  HeldInv'
  <2>1. CASE Load(Polling(c), "lost") /\ con' = [con EXCEPT ![c] = "lost"]
    BY <1>4, <1>8, <2>1 DEF WaitEnds
  <2>2. CASE con' = [con EXCEPT ![c] = "run"] /\ UNCHANGED <<entry, held, rec>>
    <3>1. con[c] = "wait" /\ UNCHANGED loop
      BY <1>8 DEF WaitEnds
    <3>2. Leased' = Leased /\ UNCHANGED GainPending
      BY <2>2, <3>1 DEF Leased, GainPending, Recording, TypeOK
    <3> QED
      BY <2>2, <3>2, HeldFrame
  <2> QED
    BY <1>8, <2>1, <2>2 DEF WaitEnds, entryVars
<1> QED
  BY <1>1, <1>2, <1>3, <1>5, <1>6, <1>7, <1>8 DEF ConStep

\* The gauge CurrentLeases is the number of leases held, at any moment and
\* not only at rest.
THEOREM GaugeBalanced == Spec => []HeldBalanced
<1>1. Init => HeldInv
  BY FS_EmptySet DEF Init, MetricsInit, HeldInv, HeldBalanced, Leased
<1>2. TypeOK /\ StartInv /\ RecordInv /\ HeldInv /\ [Next]_vars => HeldInv'
  <2> SUFFICES ASSUME TypeOK, StartInv, RecordInv, HeldInv, [Next]_vars
               PROVE  HeldInv'
    OBVIOUS
  <2>1. ASSUME UNCHANGED <<held, con, rec>>, entry' = entry \/ entry' = NoObject,
               loop' = loop \/ (loop # "gain" /\ loop' # "gain")
        PROVE  HeldInv'
    BY <2>1, HeldFrame DEF Leased, GainPending, Recording
  <2>2. CASE UNCHANGED vars
    BY <2>1, <2>2 DEF vars, metricsVars, entryVars, loopVars
  <2>3. CASE \/ StartCall \/ FetchARN \/ InitCheckpointer \/ MakeStop \/ MakeWaitGroup
             \/ InitMonitor \/ StartMonitor \/ Registration
             \/ ShutdownCall \/ ShutStep \/ ShutdownAgain
    BY <2>1, <2>3
       DEF StartCall, FetchARN, InitCheckpointer, MakeStop, MakeWaitGroup,
           InitMonitor, MonitorInit,
           StartMonitor, MonitorStart, Registration, ShutdownCall, ShutStep,
           ShutdownPanics, ShutdownMonitor, MonitorClose, ShutdownReturns, ShutdownAgain,
           metricsVars, entryVars, loopVars
  <2>4. CASE StartLoop
    <3>1. /\ UNCHANGED <<held, con, rec, entry>>
          /\ start = "loop" /\ loop' = "select"
      BY <2>4 DEF StartLoop, StartGoes, metricsVars, entryVars
    <3> QED
      BY <2>1, <3>1 DEF StartInv
  <2>5. CASE \/ LoopGain \/ LoopStarts \/ LoopExit
             \/ \E c \in Consumers :
                  ConProcess(c) \/ ConStep(c) \/ Renewed(c) \/ RenewalEnds(c)
    BY <2>5, LoopHeld
  <2>6. ASSUME NEW g \in Goroutines, RecordStep(g)
        PROVE  HeldInv'
    BY <2>6, RecordHeld
  <2>7. CASE MonitorStep(Flush \/ MonitorStop \/ MonitorTimer)
    BY <2>1, <2>7
       DEF MonitorStep, Flush, MonitorStop, MonitorTimer, entryVars, loopVars
  <2> QED
    BY <2>2, <2>3, <2>4, <2>5, <2>6, <2>7 DEF Next, StartStep
<1>3. HeldInv => HeldBalanced
  BY DEF HeldInv
<1> QED
  BY <1>1, <1>2, <1>3, TypeCorrect, LifecycleInvariant, PTL DEF Spec

-----------------------------------------------------------------------------
\* How far Shutdown has come.  A Shutdown called when Start had returned
\* closes the monitoring service only when the event loop and the consumers
\* have ended, and returns only when the last flush is over; nothing but
\* renewals is recorded after that.
StopInv ==
  /\ shut \in {"wait", "monitor"} => done
  /\ done => stop # "nil"
  /\ done /\ ~early => start = "running"
  /\ monPc \in {"last", "done"} => monStop = "closed"
  /\ monStop = "closed" => done /\ (early \/ Drained)
  /\ shut = "monitor" => monStop = "closed"
  /\ done /\ ~early /\ shut \in {"idle", "returned"} => monPc = "done"
  /\ monPc = "done" /\ ~early /\ faults = 0 /\ entry # NoObject =>
       count[entry]["records"] = 0

\* StopInv is inductive: the steps of Start.  None is left when a Shutdown
\* has been called in time.
LEMMA StartStops ==
  ASSUME TypeOK, StartInv, StopInv, StartCall \/ StartStep \/ Registration
  PROVE  StopInv'
<1>1. /\ UNCHANGED <<done, shut, early, con, ren, count>>
      /\ faults' = faults \/ faults' = faults + 1
      /\ stop' = stop \/ stop' = "open"
  BY DEF StartCall, StartStep, FetchARN, InitMonitor, MonitorInit, InitCheckpointer,
         MakeStop, MakeWaitGroup, StartMonitor, MonitorStart, StartLoop,
         Registration, Works, Fails,
         metricsVars, entryVars, shutVars, loopVars
<1>2. faults' = 0 => faults = 0
  BY <1>1, MetricsAssumption DEF TypeOK, MetricsTypeOK
<1>3. CASE Registration
  BY <1>3, <1>1 DEF Registration, StopInv, Drained, metricsVars, entryVars,
                    monVars, loopVars, shutVars
<1>4. CASE StartCall \/ StartStep
  <2>1. start # "running"
    BY <1>4 DEF StartCall, StartStep, FetchARN, InitMonitor, InitCheckpointer,
                MakeStop, MakeWaitGroup, StartMonitor, StartLoop, StartGoes
  <2>2. done => early
    BY <2>1 DEF StopInv
  <2>3. CASE InitMonitor
    <3>1. /\ stop = "nil" /\ monPc = "off" /\ UNCHANGED <<stop, monPc>>
          /\ monStop' = "open"
      BY <2>3 DEF InitMonitor, MonitorInit, StartGoes, StartInv, shutVars
    <3> QED
      BY <1>1, <2>2, <3>1 DEF StopInv
  <2>4. CASE ~InitMonitor
    <3>1. /\ monStop' = monStop
          /\ monPc' = monPc \/ monPc' = "flush"
          /\ entry' = entry
      BY <1>4, <2>4
         DEF StartCall, StartStep, FetchARN, InitCheckpointer, MakeStop, MakeWaitGroup,
             StartMonitor, MonitorStart, StartLoop, metricsVars, entryVars, monVars
    <3> QED
      BY <1>1, <1>2, <2>2, <3>1 DEF StopInv
  <2> QED
    BY <2>3, <2>4
<1> QED
  BY <1>3, <1>4

\* ... those of the event loop, the consumers and their recordings ...
LEMMA LoopStops ==
  ASSUME TypeOK, StartInv, RecordInv, StopInv,
         \/ LoopGain \/ LoopStarts \/ LoopExit
         \/ \E c \in Consumers :
              ConProcess(c) \/ ConStep(c) \/ Renewed(c) \/ RenewalEnds(c)
         \/ \E g \in Goroutines : RecordStep(g)
  PROVE  StopInv'
<1>1. /\ UNCHANGED <<start, stop, done, shut, early, monStop, monPc, faults>>
      /\ loop # "off"
  BY OffIsQuiet
     DEF LoopGain, LoopStarts, LoopExit, ConProcess, ConStep, WaitEnds, ConReturn, ConDone,
         Renewed, RenewalEnds, RecordStep, Record, Keep, monVars, startVars, shutVars
<1>2. ASSUME monStop = "closed", ~early
      PROVE  /\ Drained'
             /\ \/ UNCHANGED <<entry, count>>
                \/ \E c \in Consumers : RecordStep(Renewal(c))
  <2>1. loop = "done" /\ \A c \in Consumers : con[c] = "off"
    BY <1>1, <1>2 DEF StopInv, Drained
  <2>2. ~(LoopGain \/ LoopStarts \/ LoopExit)
    BY <2>1 DEF LoopGain, LoopStarts, LoopExit
  <2>3. CASE \E c \in Consumers :
               ConProcess(c) \/ ConStep(c) \/ Renewed(c) \/ RenewalEnds(c)
    <3>1. PICK c \in Consumers : Renewed(c) \/ RenewalEnds(c)
      BY <2>1, <2>3 DEF ConProcess, ConStep, WaitEnds, ConReturn, ConDone
    <3>2. UNCHANGED <<loop, con, entry, count>>
      BY <3>1 DEF Renewed, RenewalEnds, Load, loopVars, entryVars
    <3> QED
      BY <2>1, <3>2 DEF Drained
  <2>4. ASSUME NEW g \in Goroutines, RecordStep(g)
        PROVE  /\ Drained'
               /\ \E c \in Consumers : RecordStep(Renewal(c))
    <3>1. Recording(g) /\ UNCHANGED <<loop, con>>
      BY <2>4 DEF RecordStep, Record, Store, Add, Recording, loopVars
    <3>2. \E c \in Consumers : g = Renewal(c)
      BY <2>1, <3>1, GoroutineNames DEF RecordInv
    <3> QED
      BY <2>1, <2>4, <3>1, <3>2 DEF Drained
  <2> QED
    BY <2>2, <2>3, <2>4
<1>3. ASSUME monPc = "done", ~early, faults = 0, entry' # NoObject
      PROVE  count'[entry']["records"] = 0
  <2>1. monStop = "closed"
    BY <1>3 DEF StopInv
  <2>2. CASE UNCHANGED <<entry, count>>
    BY <1>3, <2>2 DEF StopInv
  <2>3. ASSUME NEW c \in Consumers, RecordStep(Renewal(c))
        PROVE  count'[entry']["records"] = 0
    <3> DEFINE g == Renewal(c)
    <3>1. g \in Goroutines /\ g # Loop
      BY GoroutineNames
    <3>2. Store(g) \/ Add(g)
      BY <2>3 DEF RecordStep, Record
    <3>3. ~Store(g)
      BY <3>1 DEF RecordInv, Store
    <3>4. rec[g].pc = "add" /\ rec[g].kind = "renewals" /\ entry' = entry
      BY <3>1, <3>2, <3>3, AddStep DEF RecordInv, Recording
    <3>5. /\ entry # NoObject /\ rec[g].ref = entry /\ entry \in Objects
      BY <3>1, <3>4 DEF RecordInv, TypeOK, MetricsTypeOK
    <3>6. count' = [count EXCEPT ![entry]["renewals"] = @ + 1]
      BY <3>2, <3>3, <3>4, <3>5 DEF Add, Kinds
    <3>7. count'[entry]["records"] = count[entry]["records"]
      BY <3>5, <3>6 DEF TypeOK, MetricsTypeOK, Kinds
    <3>8. count[entry]["records"] = 0
      BY <1>3, <3>5 DEF StopInv
    <3> QED
      BY <3>4, <3>7, <3>8
  <2> QED
    BY <1>2, <1>3, <2>1, <2>2, <2>3
<1> QED
  BY <1>1, <1>2, <1>3 DEF StopInv

\* ... and those of the monitoring service and of Shutdown.
LEMMA ServiceStops ==
  ASSUME TypeOK, StartInv, StopInv,
         \/ MonitorStep(Flush \/ MonitorStop \/ MonitorTimer)
         \/ ShutdownCall \/ ShutStep \/ ShutdownAgain
  PROVE  StopInv'
<1>1. CASE MonitorStep(Flush)
  <2>1. /\ UNCHANGED <<start, stop, done, shut, early, loop, con, entry, monStop>>
        /\ monPc \in {"flush", "last"}
        /\ monPc' = IF monPc = "flush" THEN "select" ELSE "done"
        /\ FlushShard
    BY <1>1 DEF MonitorStep, Flush, AfterFlush, startVars, shutVars, loopVars
  <2>2. faults' = 0 /\ entry # NoObject => count'[entry]["records"] = 0
    <3>1. SUFFICES ASSUME faults' = 0, entry # NoObject
                   PROVE  count'[entry]["records"] = 0
      OBVIOUS
    <3>2. faults \in Nat
      BY MetricsAssumption DEF TypeOK, MetricsTypeOK
    <3>3. ~Fails
      BY <3>1, <3>2 DEF Fails
    <3>4. count' = [count EXCEPT ![entry] = Zero]
      BY <2>1, <3>1, <3>3, Zenon DEF FlushShard
    <3> QED
      BY <3>1, <3>4 DEF Zero, Kinds, TypeOK, MetricsTypeOK
  <2> QED
    BY <2>1, <2>2 DEF StopInv, Drained
<1>2. CASE MonitorStep(MonitorStop \/ MonitorTimer)
  <2>1. /\ UNCHANGED <<start, stop, done, shut, early, loop, con, entry, count,
                       monStop, faults>>
        /\ monPc = "select"
        /\ \/ monStop = "closed" /\ monPc' = "last"
           \/ monPc' = "flush"
    BY <1>2 DEF MonitorStep, MonitorStop, MonitorTimer, startVars, shutVars,
                loopVars, entryVars
  <2> QED
    BY <2>1 DEF StopInv, Drained
<1>3. CASE ShutdownCall
  <2>1. /\ UNCHANGED <<start, loop, con, entry, count, monStop, monPc, faults>>
        /\ shut = "idle"
    BY <1>3 DEF ShutdownCall, metricsVars, entryVars, monVars, startVars, loopVars
  <2>2. CASE done \/ stop = "nil"
    <3>1. shut' = "returned" /\ UNCHANGED <<stop, done, early>>
      BY <1>3, <2>2 DEF ShutdownCall
    <3> QED
      BY <2>1, <3>1 DEF StopInv, Drained
  <2>3. CASE ~(done \/ stop = "nil")
    <3>1. /\ shut' = "wait" /\ stop' = "closed" /\ done' = TRUE
          /\ early' = (start # "running")
      BY <1>3, <2>3 DEF ShutdownCall
    <3>2. monStop # "closed" /\ monPc \notin {"last", "done"}
      BY <2>3 DEF StopInv
    <3> QED
      BY <2>1, <3>1, <3>2 DEF StopInv
  <2> QED
    BY <2>2, <2>3
<1>4. CASE ShutdownMonitor
  <2>1. /\ UNCHANGED <<start, stop, done, early, loop, con, entry, count, monPc, faults>>
        /\ shut = "wait" /\ Drained
        /\ shut' = "monitor" /\ monStop' = "closed"
    BY <1>4 DEF ShutdownMonitor, Waited, MonitorClose, entryVars, startVars, loopVars
  <2> QED
    BY <2>1 DEF StopInv, Drained
<1>5. CASE ShutdownReturns \/ ShutdownAgain
  <2>1. /\ UNCHANGED <<start, stop, done, early, loop, con, entry, count, monStop,
                       monPc, faults>>
        /\ \/ shut = "monitor" /\ monPc \in {"off", "done"} /\ shut' = "returned"
           \/ shut = "returned" /\ shut' = "idle"
    BY <1>5 DEF ShutdownReturns, ShutdownAgain, metricsVars, entryVars, monVars,
                startVars, loopVars
  <2>2. done /\ ~early => monPc # "off"
    BY DEF StartInv, StopInv
  <2> QED
    BY <2>1, <2>2 DEF StopInv, Drained
<1>6. CASE ShutdownPanics
  <2>1. /\ UNCHANGED <<stop, done, early, loop, con, entry, count, monStop, monPc, faults>>
        /\ shut = "wait" /\ shut' = "panic" /\ start = "group"
    BY <1>6 DEF ShutdownPanics, metricsVars, entryVars, monVars, loopVars
  <2> QED
    BY <2>1 DEF StopInv, Drained
<1> QED
  BY <1>1, <1>2, <1>3, <1>4, <1>5, <1>6 DEF MonitorStep, ShutStep

\* When a Shutdown that was called after Start had returned returns, the
\* event loop and the consumers have ended, and what they processed has been
\* published if no call has failed.
THEOREM ShutdownHasFlushed == Spec => []ShutdownFlushes
<1>1. Init => StopInv
  BY DEF Init, MetricsInit, StopInv
<1>2. TypeOK /\ StartInv /\ RecordInv /\ StopInv /\ [Next]_vars => StopInv'
  <2> SUFFICES ASSUME TypeOK, StartInv, RecordInv, StopInv, [Next]_vars
               PROVE  StopInv'
    OBVIOUS
  <2>1. CASE Next
    BY <2>1, StartStops, LoopStops, ServiceStops DEF Next
  <2>2. CASE UNCHANGED vars
    BY <2>2 DEF StopInv, Drained, vars, metricsVars, entryVars, monVars,
                startVars, shutVars, loopVars
  <2> QED
    BY <2>1, <2>2
<1>3. StopInv => ShutdownFlushes
  BY DEF StopInv, ShutdownFlushes
<1> QED
  BY <1>1, <1>2, <1>3, TypeCorrect, LifecycleInvariant, PTL DEF Spec
=============================================================================
