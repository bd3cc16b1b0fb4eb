--------------------------- MODULE DeviceQueueProofs ---------------------------
(***************************************************************************)
(* Proofs about DeviceQueue: for any programs, its types; that programs    *)
(* whose barriers fence their reads, which is decided without executing    *)
(* them, read what they recorded in every order the device may choose; and *)
(* that the programs of the native API are such programs, keep what they   *)
(* give back to the host and stay inside the host's buffers, at every rank *)
(* and shape the API accepts.                                              *)
(*                                                                         *)
(* The programs are gone through once. Good is defined on pairs of their   *)
(* commands; it is kept when a program is continued by one whose first     *)
(* barriers settle what its last commands left open; and every operation   *)
(* is put together in this way from loads, runs of kernels, copies and     *)
(* stores.                                                                 *)
(***************************************************************************)
EXTENDS DeviceQueue, NativePrograms, SequenceTheorems, WellFoundedInduction, TLAPS

-----------------------------------------------------------------------------
(* The last of a set of commands.                                           *)

LEMMA Smallest ==
  ASSUME NEW T \in SUBSET Nat, T # {}
  PROVE  \E x \in T : \A y \in T : x <= y
<1>1. \E x \in T : \A y \in T : ~ (<<y, x>> \in OpToRel(<, Nat))
  BY WFMin, NatLessThanWellFounded, Zenon
<1>2. \E x \in T : \A y \in T : ~ (y < x)
  BY <1>1, Zenon DEF OpToRel
<1>3. QED
  BY <1>2

LEMMA Largest ==
  ASSUME NEW k \in Nat, NEW T \in SUBSET (0 .. k), T # {}
  PROVE  \E x \in T : \A y \in T : y <= x
<1> DEFINE distances == {k - x : x \in T}
<1>1. distances \in SUBSET Nat /\ distances # {}
  <2>1. PICK t \in T : TRUE
    OBVIOUS
  <2>2. \A x \in T : k - x \in Nat
    OBVIOUS
  <2>3. distances \in SUBSET Nat
    BY <2>2, Zenon
  <2>4. k - t \in distances
    BY <2>1, Zenon
  <2>5. QED
    BY <2>3, <2>4, Zenon
<1>2. PICK d \in distances : \A y \in distances : d <= y
  BY <1>1, Smallest, Zenon
<1>3. PICK x \in T : d = k - x
  OBVIOUS
<1>4. \A y \in T : k - x <= k - y
  BY <1>2, <1>3
<1>5. QED
  BY <1>4

WritersBefore(p, k, place) ==
    {j \in Commands(p) : j < k /\ \E r \in p[j].writes : Clash(r, place)}

\* RecordedWriter is what its name says: the last of the commands before k that
\* write there, and 0 if there are none.
LEMMA RecordedWriterIsLast ==
  ASSUME NEW p, Commands(p) \subseteq Nat \ {0}, NEW k \in Nat, NEW place
  PROVE  \/ WritersBefore(p, k, place) = {} /\ RecordedWriter(p, k, place) = 0
         \/ /\ RecordedWriter(p, k, place) \in WritersBefore(p, k, place)
            /\ \A j \in WritersBefore(p, k, place) : j <= RecordedWriter(p, k, place)
<1>1. CASE WritersBefore(p, k, place) = {}
  BY <1>1 DEF RecordedWriter, WritersBefore
<1>2. CASE WritersBefore(p, k, place) # {}
  <2> DEFINE T == WritersBefore(p, k, place)
  <2>1. T \in SUBSET (0 .. k)
    BY DEF WritersBefore
  <2>2. \E x \in T : \A y \in T : y <= x
    BY <1>2, <2>1, Largest, Zenon
  <2>3. RecordedWriter(p, k, place) = CHOOSE j \in T : \A m \in T : m <= j
    BY <1>2 DEF RecordedWriter, WritersBefore
  <2>4. QED
    BY <2>2, <2>3, Zenon
<1>3. QED
  BY <1>1, <1>2

-----------------------------------------------------------------------------
(* What holds of any programs: a command that has executed has everything it *)
(* waits for behind it.                                                      *)

QueueInv ==
    /\ TypeOK
    /\ Commands(program) \subseteq Nat \ {0}
    /\ \A k \in Commands(program) :
          batch.waits[k] = {i \in Commands(program) : i < k /\ Ordered(program, i, k)}
    /\ \A k \in done : batch.waits[k] \subseteq done

LEMMA QueueInvInit == Init => QueueInv
<1> SUFFICES ASSUME Init PROVE QueueInv
  OBVIOUS
<1>1. batch = Idle /\ call = <<>> /\ done = {} /\ seen = {}
  BY DEF Init
<1>2. program = <<>> /\ batch.waits = <<>>
  BY <1>1 DEF program, Idle
<1>3. Commands(program) = {}
  BY <1>2 DEF Commands
<1>4. QED
  BY <1>1, <1>2, <1>3 DEF QueueInv, TypeOK

LEMMA QueueInvStep == QueueInv /\ [Next]_vars => QueueInv'
<1> SUFFICES ASSUME QueueInv, [Next]_vars PROVE QueueInv'
  OBVIOUS
<1>1. CASE Submit
  <2>1. PICK c \in Submissions :
           /\ call' = c[1]
           /\ batch' = [program |-> c[2].program, sizes |-> c[2].sizes,
                        waits |-> Waits(c[2].program)]
    BY <1>1 DEF Submit
  <2>2. /\ c[1] # <<>> /\ c[2].program # <<>>
        /\ DOMAIN c[2].program \subseteq Nat \ {0}
    BY SubmissionsAssumption
  <2>3. program' = c[2].program /\ batch'.waits = Waits(c[2].program)
    BY <2>1 DEF program
  <2>4. call' # <<>> /\ batch' # Idle
    BY <2>1, <2>2 DEF Idle
  <2>5. done' = {} /\ seen' = {}
    <3>1. call = <<>> /\ done' = done /\ seen' = seen
      BY <1>1 DEF Submit
    <3>2. Commands(program) = {}
      BY <3>1 DEF QueueInv, TypeOK, program, Idle, Commands
    <3>3. QED
      BY <3>1, <3>2 DEF QueueInv, TypeOK
  <2>6. Commands(program') \subseteq Nat \ {0}
    BY <2>2, <2>3 DEF Commands
  <2>7. DOMAIN batch'.waits = Commands(program')
    BY <2>3 DEF Waits
  <2>8. \A k \in Commands(program') :
           batch'.waits[k] = {i \in Commands(program') : i < k /\ Ordered(program', i, k)}
    BY <2>3 DEF Waits
  <2>9. QED
    BY <2>4, <2>5, <2>6, <2>7, <2>8 DEF QueueInv, TypeOK
<1>2. CASE \E k \in Commands(program) : Execute(k)
  <2>1. PICK k \in Commands(program) : Execute(k)
    BY <1>2
  <2>2. /\ batch.waits[k] \subseteq done /\ done' = done \cup {k}
        /\ call' = call /\ batch' = batch
        /\ seen' = seen \cup UNION {{<<k, q, j>> : j \in Observable(k, q)} :
                                       q \in program[k].reads}
    BY <2>1 DEF Execute
  <2>3. \A q : Observable(k, q) \subseteq done \cup {0}
    BY DEF Observable
  <2>4. \A s \in seen' : s[1] \in done' /\ s[3] \in done' \cup {0}
    BY <2>2, <2>3 DEF QueueInv, TypeOK
  <2>5. program' = program
    BY <2>2 DEF program
  <2>6. QED
    BY <2>1, <2>2, <2>4, <2>5 DEF QueueInv, TypeOK
<1>3. CASE Retire
  <2>1. batch' = Idle /\ call' = <<>> /\ done' = {} /\ seen' = {}
    BY <1>3 DEF Retire
  <2>2. program' = <<>> /\ batch'.waits = <<>>
    BY <2>1 DEF program, Idle
  <2>3. Commands(program') = {}
    BY <2>2 DEF Commands
  <2>4. QED
    BY <2>1, <2>2, <2>3 DEF QueueInv, TypeOK
<1>4. CASE UNCHANGED vars
  BY <1>4 DEF vars, QueueInv, TypeOK, program
<1>5. QED
  BY <1>1, <1>2, <1>3, <1>4 DEF Next

(* The device never executes a command that is not in the program, and never *)
(* finds what no executed command wrote, whatever programs are submitted.    *)
THEOREM QueueTypes == Spec => []TypeOK
<1>1. QueueInv => TypeOK
  BY DEF QueueInv
<1>2. QED
  BY QueueInvInit, QueueInvStep, <1>1, PTL DEF Spec

-----------------------------------------------------------------------------
(* Programs that are fenced.                                                 *)

\* A command of a fenced program that may execute finds what the last command
\* recorded before it left, and nothing else.
LEMMA FencedRead ==
  ASSUME QueueInv, Fenced(program),
         NEW k \in Commands(program), k \notin done, batch.waits[k] \subseteq done,
         NEW q \in program[k].reads
  PROVE  Observable(k, q) = {RecordedWriter(program, k, q)}
<1> DEFINE w == RecordedWriter(program, k, q)
           all == {j \in Commands(program) : \E r \in program[j].writes : Clash(r, q)}
           writers == {j \in done : Writes(j, q)}
           hidden(j) == \E m \in writers \ {j} :
                           Hides(m, k, q) /\ (j = 0 \/ Released(program, j, m, q))
<1>0. Observable(k, q) = {j \in writers \cup {0} : ~ hidden(j)}
  BY DEF Observable
<1>1. Commands(program) \subseteq Nat \ {0} /\ done \subseteq Commands(program)
  BY DEF QueueInv, TypeOK
<1>2. writers \subseteq all
  BY <1>1 DEF Writes
<1>3. /\ \A j \in all : j > k => Ordered(program, k, j)
      /\ w # 0 => /\ \E r \in program[w].writes : Within(q, r)
                  /\ Ordered(program, w, k) /\ Visible(program, w, k, q)
                  /\ \A j \in all : j < w => Released(program, j, w, q)
  BY DEF Fenced
<1>4. \A j \in writers : j < k
  <2> SUFFICES ASSUME NEW j \in writers, ~ (j < k) PROVE FALSE
    OBVIOUS
  <2>1. j \in all /\ j > k
    BY <1>1, <1>2
  <2>2. k \in batch.waits[j]
    BY <1>1, <1>3, <2>1 DEF QueueInv
  <2>3. QED
    BY <2>2 DEF QueueInv
<1>5. writers \subseteq WritersBefore(program, k, q)
  BY <1>1, <1>2, <1>4 DEF WritersBefore
<1>6. \/ WritersBefore(program, k, q) = {} /\ w = 0
      \/ /\ w \in WritersBefore(program, k, q)
         /\ \A j \in WritersBefore(program, k, q) : j <= w
  BY <1>1, RecordedWriterIsLast, Zenon
<1>7. CASE WritersBefore(program, k, q) = {} /\ w = 0
  <2>1. writers = {}
    BY <1>5, <1>7
  <2>2. ~ hidden(0)
    BY <2>1
  <2>3. QED
    BY <1>0, <1>7, <2>1, <2>2
<1>8. CASE /\ w \in WritersBefore(program, k, q)
           /\ \A j \in WritersBefore(program, k, q) : j <= w
  <2>1. w \in all /\ w < k /\ w # 0
    BY <1>1, <1>8 DEF WritersBefore
  <2>2. w \in writers
    <3>1. w \in batch.waits[k]
      BY <1>3, <2>1 DEF QueueInv
    <3>2. QED
      BY <2>1, <3>1 DEF Writes
  <2>3. Hides(w, k, q)
    BY <1>3, <2>1 DEF Hides
  <2>4. \A j \in (writers \cup {0}) \ {w} : hidden(j)
    <3> SUFFICES ASSUME NEW j \in (writers \cup {0}) \ {w} PROVE hidden(j)
      OBVIOUS
    <3>1. CASE j = 0
      BY <2>2, <2>3, <3>1
    <3>2. CASE j \in writers
      <4>1. j < w
        BY <1>1, <1>5, <1>8, <2>1, <3>2
      <4>2. Released(program, j, w, q)
        BY <1>2, <1>3, <2>1, <3>2, <4>1
      <4>3. QED
        BY <2>2, <2>3, <4>2
    <3>3. QED
      BY <3>1, <3>2
  <2>5. ~ hidden(w)
    <3> SUFFICES ASSUME NEW m \in writers \ {w}, Released(program, w, m, q) PROVE FALSE
      BY <2>1
    <3>1. w < m
      BY <1>1, <2>1 DEF Released, Linked
    <3>2. m <= w
      BY <1>5, <1>8
    <3>3. QED
      BY <1>1, <2>1, <3>1, <3>2
  <2>6. QED
    BY <1>0, <2>2, <2>4, <2>5
<1>9. QED
  BY <1>6, <1>7, <1>8

FencedInv == QueueInv /\ ProgramsFenced /\ ReadsRecordedWriter

LEMMA FencedInvInit == Init => FencedInv
<1> SUFFICES ASSUME Init PROVE FencedInv
  OBVIOUS
<1>1. program = <<>> /\ seen = {}
  BY DEF Init, Idle, program
<1>2. Commands(program) = {}
  BY <1>1 DEF Commands
<1>3. QED
  BY <1>1, <1>2, QueueInvInit DEF FencedInv, ProgramsFenced, Fenced, ReadsRecordedWriter

LEMMA FencedInvStep ==
  ASSUME \A s \in Submissions : Fenced(s[2].program)
  PROVE  FencedInv /\ [Next]_vars => FencedInv'
<1> SUFFICES ASSUME FencedInv, [Next]_vars PROVE FencedInv'
  OBVIOUS
<1>0. QueueInv /\ QueueInv'
  BY QueueInvStep DEF FencedInv
<1>1. CASE Submit
  <2>1. PICK c \in Submissions : program' = c[2].program
    BY <1>1 DEF Submit, program
  <2>2. ProgramsFenced'
    BY <2>1 DEF ProgramsFenced
  <2>3. call = <<>> /\ seen' = seen /\ done' = done
    BY <1>1 DEF Submit
  <2>4. Commands(program) = {}
    BY <1>0, <2>3 DEF QueueInv, TypeOK, program, Idle, Commands
  <2>5. seen' = {}
    BY <1>0, <2>3, <2>4 DEF QueueInv, TypeOK
  <2>6. QED
    BY <1>0, <2>2, <2>5 DEF FencedInv, ReadsRecordedWriter
<1>2. CASE \E k \in Commands(program) : Execute(k)
  <2>1. PICK k \in Commands(program) : Execute(k)
    BY <1>2
  <2>2. /\ k \notin done /\ batch.waits[k] \subseteq done
        /\ seen' = seen \cup UNION {{<<k, q, j>> : j \in Observable(k, q)} :
                                       q \in program[k].reads}
        /\ program' = program
    BY <2>1 DEF Execute, program
  <2>3. \A q \in program[k].reads : Observable(k, q) = {RecordedWriter(program, k, q)}
    BY <1>0, <2>2, FencedRead DEF FencedInv, ProgramsFenced
  <2>4. \A s \in seen' : s[3] = RecordedWriter(program, s[1], s[2])
    BY <2>2, <2>3 DEF FencedInv, ReadsRecordedWriter
  <2>5. QED
    BY <1>0, <2>2, <2>4 DEF FencedInv, ProgramsFenced, ReadsRecordedWriter
<1>3. CASE Retire
  <2>1. seen' = {} /\ program' = <<>>
    BY <1>3 DEF Retire, Idle, program
  <2>2. Commands(program') = {}
    BY <2>1 DEF Commands
  <2>3. QED
    BY <1>0, <2>1, <2>2 DEF FencedInv, ProgramsFenced, Fenced, ReadsRecordedWriter
<1>4. CASE UNCHANGED vars
  BY <1>0, <1>4 DEF vars, FencedInv, ProgramsFenced, ReadsRecordedWriter, program
<1>5. QED
  BY <1>1, <1>2, <1>3, <1>4 DEF Next

(* Fencing is enough: when every program is fenced, every kernel and every   *)
(* copy reads what the last command recorded before it wrote, in whatever    *)
(* order the device executes the commands.                                   *)
THEOREM FencedProgramsRead ==
  ASSUME \A s \in Submissions : Fenced(s[2].program)
  PROVE  Spec => []ReadsRecordedWriter
<1>1. FencedInv => ReadsRecordedWriter
  BY DEF FencedInv
<1>2. Init => FencedInv
  BY FencedInvInit
<1>3. FencedInv /\ [Next]_vars => FencedInv'
  BY FencedInvStep
<1>4. QED
  BY <1>1, <1>2, <1>3, PTL DEF Spec

-----------------------------------------------------------------------------
(* Programs decided command by command.                                     *)

\* The buffers of the persistent graph, ...
GraphBuffer ==
  {"tokens", "targets", "mask", "embeddings", "positions", "states", "gammaInput", "activations",
   "projected", "logits", "dlogits", "rowLoss", "metrics", "qRows", "kRows", "vRows",
   "query", "key", "value", "output", "lmHead", "gamma",
   "dprojected", "dcontext", "doutput", "dquery", "dkey", "dvalue", "dstates",
   "rmsRaw", "rmsInv", "rmsDx", "ffnOutput", "ffnDx",
   "lmHeadGradient", "outputGradient", "qkvGradientQ", "qkvGradientK", "qkvGradientV",
   "embeddingGradient", "positionGradient", "gammaGradient",
   "ffnW1Gradient", "ffnB1Gradient", "ffnW2Gradient", "ffnB2Gradient",
   "ffnW1", "ffnB1", "ffnW2", "ffnB2", "ffnW1M", "ffnW1V", "ffnB1M", "ffnB1V",
   "ffnW2M", "ffnW2V", "ffnB2M", "ffnB2V",
   "lmHeadM", "lmHeadV", "outputM", "outputV", "positionM", "positionV", "qkvM", "qkvV",
   "gammaM", "gammaV", "loraA", "loraB", "loraMA", "loraVA", "loraMB", "loraVB",
   "loraDA", "loraDB", "batchTokens", "batchTargets", "batchMasks"}

\* ... those of the calls around it, ...
ApiBuffer ==
  {"q", "k", "v", "out", "dy", "dl", "w", "dp", "dx", "logits", "targets", "mask", "grad", "loss",
   "a", "b", "c", "x", "y", "da", "db", "tokens", "doutput", "learning", "control", "output",
   "masks", "controls", "results", "activation", "dlogits", "weight", "gradient", "m", "ids", "ds",
   "dq", "dk", "dv", "gq", "gk", "gv"}

\* ... and those the host can read and write.
HostBuffer == {"trainingStaging", "hostStaging", "readback", "staging"}

Buffer == GraphBuffer \cup ApiBuffer \cup HostBuffer

\* Places with their bounds, commands and barriers.
Place == Buffer \X Nat \X Nat

Command == [stage : AnyStage, reads : SUBSET Place, writes : SUBSET Place]

Fence == [stage : {"barrier"}, from : SUBSET AnyStage, to : SUBSET AnyStage,
          makes : SUBSET AnyAccess, shows : SUBSET AnyAccess, on : SUBSET Buffer]

Item == Command \cup Fence

\* What barriers must achieve for two commands i < k of a program that touch
\* the same memory, whatever other commands do there.
Apart(p, i, k) ==
  /\ \A q \in p[i].writes : \A r \in p[k].reads :
        Clash(q, r) => Within(r, q) /\ Visible(p, i, k, r)
  /\ \A q \in p[i].reads : \A r \in p[k].writes : Clash(q, r) => Ordered(p, i, k)
  /\ \A q \in p[i].writes : \A r \in p[k].writes : Clash(q, r) => Released(p, i, k, r)

\* A program all of whose pairs of commands are apart: see SafeFenced.
Safe(p) == \A i, k \in Commands(p) : i < k => Apart(p, i, k)

\* No copy into a host buffer is overwritten by a later command.
Final(p, hosts) ==
  \A i, k \in Commands(p) : i < k /\ p[i].stage = "T" =>
    \A q \in p[i].writes : \A r \in p[k].writes : q[1] \in hosts => ~ Clash(q, r)

\* Every place in a host buffer is inside it.
Fits(p, s) ==
  \A k \in Commands(p) : \A q \in p[k].reads \cup p[k].writes :
    q[1] \in DOMAIN s => q[3] <= s[q[1]]

\* A program that the barriers order and whose results survive, ...
Orderly(p, hosts) == p \in Seq(Item) /\ Safe(p) /\ Final(p, hosts)

\* ... and one that also keeps within the host buffers of sizes s.
Good(p, s) == p \in Seq(Item) /\ Safe(p) /\ Final(p, DOMAIN s) /\ Fits(p, s)

LEMMA CommandItems ==
  ASSUME NEW p \in Seq(Item)
  PROVE  /\ DOMAIN p = 1 .. Len(p) /\ Len(p) \in Nat
         /\ \A n \in 1 .. Len(p) : p[n] \in Item
         /\ Commands(p) \subseteq 1 .. Len(p)
         /\ \A n \in Commands(p) : p[n] \in Command
         /\ \A n \in 1 .. Len(p) : p[n].stage # "barrier" => n \in Commands(p)
<1>1. DOMAIN p = 1 .. Len(p) /\ Len(p) \in Nat /\ \A n \in 1 .. Len(p) : p[n] \in Item
  OBVIOUS
<1>2. \A x \in Item : x.stage # "barrier" => x \in Command
  BY DEF Item, Fence
<1> QED
  BY <1>1, <1>2 DEF Commands

LEMMA VisibleOrdered ==
  ASSUME NEW p, NEW i, NEW k, NEW place
  PROVE  (Visible(p, i, k, place) => Ordered(p, i, k))
BY DEF Visible, Ordered

\* What Safe says of pairs of commands is what Fenced asks of each read.
LEMMA SafeFenced ==
  ASSUME NEW p \in Seq(Item), Safe(p)
  PROVE  Fenced(p)
<1> SUFFICES ASSUME NEW k \in Commands(p), NEW q \in p[k].reads
             PROVE  LET writers == {j \in Commands(p) : \E r \in p[j].writes : Clash(r, q)}
                        w == RecordedWriter(p, k, q)
                    IN  /\ \A j \in writers : j > k => Ordered(p, k, j)
                        /\ w # 0 => /\ \E r \in p[w].writes : Within(q, r)
                                    /\ Ordered(p, w, k) /\ Visible(p, w, k, q)
                                    /\ \A j \in writers : j < w => Released(p, j, w, q)
  BY DEF Fenced
<1> DEFINE writers == {j \in Commands(p) : \E r \in p[j].writes : Clash(r, q)}
           w == RecordedWriter(p, k, q)
<1>1. /\ Commands(p) \subseteq Nat \ {0}
      /\ \A n \in Commands(p) : p[n].reads \subseteq Place /\ p[n].writes \subseteq Place
  BY CommandItems DEF Command
<1>2. ASSUME NEW j \in writers, j > k
      PROVE  Ordered(p, k, j)
  <2>1. PICK r \in p[j].writes : Clash(r, q)
    OBVIOUS
  <2>2. Clash(q, r) /\ k < j
    BY <1>1, <1>2, <2>1 DEF Clash
  <2>3. Apart(p, k, j)
    BY <2>2 DEF Safe
  <2> QED
    BY <2>2, <2>3 DEF Apart
<1>3. ASSUME w # 0
      PROVE  /\ \E r \in p[w].writes : Within(q, r)
             /\ Ordered(p, w, k) /\ Visible(p, w, k, q)
             /\ \A j \in writers : j < w => Released(p, j, w, q)
  <2>1. w \in Commands(p) /\ w < k /\ \E r \in p[w].writes : Clash(r, q)
    <3>1. k \in Nat
      BY <1>1
    <3>2. w \in WritersBefore(p, k, q)
      BY <1>1, <1>3, <3>1, RecordedWriterIsLast
    <3> QED
      BY <3>2 DEF WritersBefore
  <2>2. PICK r \in p[w].writes : Clash(r, q)
    BY <2>1
  <2>3. Apart(p, w, k)
    BY <2>1 DEF Safe
  <2>4. Within(q, r) /\ Visible(p, w, k, q)
    BY <2>2, <2>3 DEF Apart
  <2>5. Ordered(p, w, k)
    BY <2>4, VisibleOrdered
  <2>6. ASSUME NEW j \in writers, j < w
        PROVE  Released(p, j, w, q)
    <3>1. PICK x \in p[j].writes : Clash(x, q)
      OBVIOUS
    <3>2. x \in Place /\ r \in Place /\ q \in Place
      BY <1>1, <2>1, <2>2, <3>1
    <3>3. Clash(x, r)
      BY <2>4, <3>1, <3>2 DEF Clash, Within, Place
    <3>4. Released(p, j, w, r)
      BY <2>1, <2>2, <2>6, <3>1, <3>3 DEF Safe, Apart
    <3>5. r[1] = q[1]
      BY <2>2 DEF Clash
    <3> QED
      BY <3>4, <3>5 DEF Released, Concerns
  <2> QED
    BY <2>2, <2>4, <2>5, <2>6
<1> QED
  BY <1>2, <1>3

\* What is on the device was submitted, ...
SubmittedInv ==
  /\ QueueInv
  /\ \/ program = <<>> /\ sizes = <<>>
     \/ \E s \in Submissions : program = s[2].program /\ sizes = s[2].sizes

\* ... and is orderly, or even good, if all that is submitted is: the
\* strengthening the invariants need, which talks about commands that have not
\* executed yet.
OrderlyInv == QueueInv /\ Orderly(program, DOMAIN sizes)

SoundInv == QueueInv /\ Good(program, sizes)

LEMMA IdleIsGood == Good(<<>>, <<>>) /\ Orderly(<<>>, DOMAIN <<>>)
<1>1. <<>> \in Seq(Item) /\ Commands(<<>>) = {}
  BY DEF Commands
<1> QED
  BY <1>1 DEF Good, Orderly, Safe, Final, Fits

LEMMA SubmittedInvStep == SubmittedInv /\ [Next]_vars => SubmittedInv'
<1> SUFFICES ASSUME SubmittedInv, [Next]_vars PROVE SubmittedInv'
  OBVIOUS
<1>0. QueueInv'
  BY QueueInvStep DEF SubmittedInv
<1>1. CASE Submit
  <2>1. PICK c \in Submissions : program' = c[2].program /\ sizes' = c[2].sizes
    BY <1>1 DEF Submit, program, sizes
  <2> QED
    BY <1>0, <2>1 DEF SubmittedInv
<1>2. CASE \E k \in Commands(program) : Execute(k)
  <2>1. program' = program /\ sizes' = sizes
    BY <1>2 DEF Execute, program, sizes
  <2> QED
    BY <1>0, <2>1 DEF SubmittedInv
<1>3. CASE Retire
  <2>1. program' = <<>> /\ sizes' = <<>>
    BY <1>3 DEF Retire, Idle, program, sizes
  <2> QED
    BY <1>0, <2>1 DEF SubmittedInv
<1>4. CASE UNCHANGED vars
  <2>1. program' = program /\ sizes' = sizes
    BY <1>4 DEF vars, program, sizes
  <2> QED
    BY <1>0, <2>1 DEF SubmittedInv
<1> QED
  BY <1>1, <1>2, <1>3, <1>4 DEF Next

LEMMA OnlySubmitted == Spec => []SubmittedInv
<1>1. Init => SubmittedInv
  <2> SUFFICES ASSUME Init PROVE SubmittedInv
    OBVIOUS
  <2>1. program = <<>> /\ sizes = <<>>
    BY DEF Init, Idle, program, sizes
  <2> QED
    BY <2>1, QueueInvInit DEF SubmittedInv
<1> QED
  BY <1>1, SubmittedInvStep, PTL DEF Spec

LEMMA OrderlyIsFenced == OrderlyInv => ProgramsFenced
BY SafeFenced DEF OrderlyInv, Orderly, ProgramsFenced

\* A result is written by a copy; a write before it is released to it, and one
\* behind it does not touch it.
LEMMA OrderlySurvives == OrderlyInv => ResultsSurvive
<1> SUFFICES ASSUME OrderlyInv, Finished,
                    NEW k \in done, NEW q \in program[k].writes \cap HostPlaces(k),
                    program[k].stage = "T", NEW j \in done \ {k}, Writes(j, q)
             PROVE  Released(program, j, k, q)
  BY DEF ResultsSurvive
<1>1. /\ program \in Seq(Item) /\ Safe(program) /\ Final(program, DOMAIN sizes)
      /\ k \in Commands(program) /\ j \in Commands(program) /\ q[1] \in DOMAIN sizes
  BY DEF OrderlyInv, QueueInv, TypeOK, Orderly, HostPlaces
<1>2. j \in Nat /\ k \in Nat
  BY <1>1, CommandItems
<1>3. PICK r \in program[j].writes : Clash(r, q)
  BY DEF Writes
<1>4. CASE j < k
  BY <1>1, <1>3, <1>4 DEF Safe, Apart
<1>5. CASE k < j
  <2>1. ~ Clash(q, r)
    BY <1>1, <1>5 DEF Final
  <2> QED
    BY <1>3, <2>1 DEF Clash
<1> QED
  BY <1>2, <1>4, <1>5

\* A command that has executed is one of the program, and its places fit.
LEMMA SoundInBounds == SoundInv => StagingInBounds
<1> SUFFICES ASSUME SoundInv, NEW k \in done, NEW q \in HostPlaces(k)
             PROVE  q[2] >= 0 /\ q[3] <= sizes[q[1]]
  BY DEF StagingInBounds
<1>1. /\ program \in Seq(Item) /\ Fits(program, sizes) /\ k \in Commands(program)
      /\ q \in program[k].reads \cup program[k].writes /\ q[1] \in DOMAIN sizes
  BY DEF SoundInv, QueueInv, TypeOK, Good, HostPlaces
<1>2. q \in Place
  BY <1>1, CommandItems DEF Command
<1> QED
  BY <1>1, <1>2 DEF Fits, Place

\* The two hold whatever is submitted, if all of it is so.
LEMMA OrderlyPrograms ==
  ASSUME \A s \in Submissions : Orderly(s[2].program, DOMAIN s[2].sizes)
  PROVE  Spec => []OrderlyInv
<1>1. SubmittedInv => OrderlyInv
  BY IdleIsGood DEF SubmittedInv, OrderlyInv
<1> QED
  BY <1>1, OnlySubmitted, PTL

LEMMA SoundPrograms ==
  ASSUME \A s \in Submissions : Good(s[2].program, s[2].sizes)
  PROVE  Spec => []SoundInv
<1>1. SubmittedInv => SoundInv
  BY IdleIsGood DEF SubmittedInv, SoundInv
<1> QED
  BY <1>1, OnlySubmitted, PTL

-----------------------------------------------------------------------------
(* Programs one behind the other.                                           *)

\* The commands of a program behind another are the commands of both.
LEMMA Joined ==
  ASSUME NEW p \in Seq(Item), NEW q \in Seq(Item)
  PROVE  /\ p \o q \in Seq(Item) /\ Len(p \o q) = Len(p) + Len(q)
         /\ \A n \in 1 .. Len(p) : (p \o q)[n] = p[n]
         /\ \A n \in 1 .. Len(q) : (p \o q)[Len(p) + n] = q[n]
         /\ Commands(p) \subseteq Commands(p \o q)
         /\ \A n \in Commands(q) : Len(p) + n \in Commands(p \o q)
         /\ \A n \in Commands(p \o q) :
               \/ n \in Commands(p) /\ (p \o q)[n] = p[n]
               \/ \E k \in Commands(q) : n = Len(p) + k /\ (p \o q)[n] = q[k]
<1> DEFINE r == p \o q
           L == Len(p)
           M == Len(q)
<1>1. L \in Nat /\ M \in Nat
  OBVIOUS
<1>2. r \in Seq(Item) /\ Len(r) = L + M /\ DOMAIN r = 1 .. (L + M)
  OBVIOUS
<1>3. \A n \in 1 .. L : r[n] = p[n]
  OBVIOUS
<1>4. \A n \in 1 .. M : r[L + n] = q[n]
  OBVIOUS
<1>5. DOMAIN p = 1 .. L /\ DOMAIN q = 1 .. M
  OBVIOUS
<1> HIDE DEF r, L, M
<1>6. Commands(p) \subseteq Commands(r)
  BY <1>1, <1>2, <1>3, <1>5 DEF Commands
<1>7. \A n \in Commands(q) : L + n \in Commands(r)
  BY <1>1, <1>2, <1>4, <1>5 DEF Commands
<1>8. ASSUME NEW n \in Commands(r)
      PROVE  \/ n \in Commands(p) /\ r[n] = p[n]
             \/ \E k \in Commands(q) : n = L + k /\ r[n] = q[k]
  <2>1. n \in 1 .. (L + M) /\ r[n].stage # "barrier"
    BY <1>2, <1>8 DEF Commands
  <2>2. CASE n <= L
    BY <1>1, <1>3, <1>5, <2>1, <2>2 DEF Commands
  <2>3. CASE n > L
    <3>1. n - L \in 1 .. M /\ n = L + (n - L)
      BY <1>1, <2>1, <2>3
    <3>2. r[n] = q[n - L]
      BY <1>4, <3>1
    <3>3. n - L \in Commands(q)
      BY <1>5, <2>1, <3>1, <3>2 DEF Commands
    <3> QED
      BY <3>1, <3>2, <3>3
  <2> QED
    BY <1>1, <2>1, <2>2, <2>3
<1> QED
  BY <1>2, <1>3, <1>4, <1>6, <1>7, <1>8 DEF r, L, M

\* What holds of two commands of a program holds of them in a longer one.
LEMMA Carried ==
  ASSUME NEW p \in Seq(Item), NEW r, NEW d \in Nat, \A n \in 1 .. Len(p) : r[d + n] = p[n],
         NEW i \in 1 .. Len(p), NEW k \in 1 .. Len(p), Apart(p, i, k)
  PROVE  Apart(r, d + i, d + k)
<1>1. Len(p) \in Nat /\ r[d + i] = p[i] /\ r[d + k] = p[k]
  OBVIOUS
<1>2. ASSUME NEW b \in i .. k, NEW c \in i .. k, Linked(p, i, k, b, c)
      PROVE  /\ d + b \in (d + i) .. (d + k) /\ d + c \in (d + i) .. (d + k)
             /\ Linked(r, d + i, d + k, d + b, d + c)
             /\ r[d + b] = p[b] /\ r[d + c] = p[c]
  <2>1. b \in 1 .. Len(p) /\ c \in 1 .. Len(p)
    BY <1>1
  <2>2. r[d + b] = p[b] /\ r[d + c] = p[c]
    BY <2>1
  <2>3. i < b /\ b <= c /\ c < k
    BY <1>2 DEF Linked
  <2>4. d + i < d + b /\ d + b <= d + c /\ d + c < d + k
    BY <1>1, <2>1, <2>3
  <2>5. (d + b = d + c) = (b = c)
    BY <2>1
  <2>6. d + b \in (d + i) .. (d + k) /\ d + c \in (d + i) .. (d + k)
    BY <1>1, <2>1, <2>3
  <2>7. Linked(r, d + i, d + k, d + b, d + c)
    BY <1>1, <1>2, <2>2, <2>4, <2>5 DEF Linked
  <2> QED
    BY <2>2, <2>6, <2>7
<1>3. Ordered(p, i, k) => Ordered(r, d + i, d + k)
  BY <1>2 DEF Ordered
<1>4. ASSUME NEW place, Released(p, i, k, place)
      PROVE  Released(r, d + i, d + k, place)
  <2>1. PICK b \in i .. k : \E c \in i .. k :
            Linked(p, i, k, b, c) /\ WriteAccess(p[i]) \in p[b].makes /\ Concerns(p[b], place)
    BY <1>4 DEF Released
  <2>2. PICK c \in i .. k :
            Linked(p, i, k, b, c) /\ WriteAccess(p[i]) \in p[b].makes /\ Concerns(p[b], place)
    BY <2>1
  <2> QED
    BY <1>1, <1>2, <2>2 DEF Released
<1>5. ASSUME NEW place, Visible(p, i, k, place)
      PROVE  Visible(r, d + i, d + k, place)
  <2>1. PICK b \in i .. k : \E c \in i .. k :
            /\ Linked(p, i, k, b, c) /\ WriteAccess(p[i]) \in p[b].makes /\ Concerns(p[b], place)
            /\ ReadAccess(p[k]) \in p[c].shows /\ Concerns(p[c], place)
    BY <1>5 DEF Visible
  <2>2. PICK c \in i .. k :
            /\ Linked(p, i, k, b, c) /\ WriteAccess(p[i]) \in p[b].makes /\ Concerns(p[b], place)
            /\ ReadAccess(p[k]) \in p[c].shows /\ Concerns(p[c], place)
    BY <2>1
  <2> QED
    BY <1>1, <1>2, <2>2 DEF Visible
<1> QED
  BY <1>1, <1>3, <1>4, <1>5 DEF Apart

\* Two safe programs are safe one behind the other if each command of the first is
\* apart from each of the second.
LEMMA SafeJoin ==
  ASSUME NEW p \in Seq(Item), NEW q \in Seq(Item), Safe(p), Safe(q),
         \A i \in Commands(p) : \A k \in Commands(q) : Apart(p \o q, i, Len(p) + k)
  PROVE  Safe(p \o q)
<1> DEFINE r == p \o q
<1>0. /\ Commands(p) \subseteq 1 .. Len(p) /\ Commands(q) \subseteq 1 .. Len(q)
      /\ Len(p) \in Nat /\ Len(q) \in Nat
  BY CommandItems
<1>1. /\ \A n \in 1 .. Len(p) : r[n] = p[n]
      /\ \A n \in 1 .. Len(q) : r[Len(p) + n] = q[n]
      /\ \A n \in Commands(r) :
            \/ n \in Commands(p)
            \/ \E k \in Commands(q) : n = Len(p) + k
  BY Joined
<1> HIDE DEF r
<1> SUFFICES ASSUME NEW i \in Commands(r), NEW k \in Commands(r), i < k PROVE Apart(r, i, k)
  BY DEF r, Safe
<1>2. CASE i \in Commands(p) /\ k \in Commands(p)
  <2>1. Apart(p, i, k)
    BY <1>2 DEF Safe
  <2>2. \A n \in 1 .. Len(p) : r[0 + n] = p[n]
    BY <1>1
  <2>3. Apart(r, 0 + i, 0 + k)
    BY <1>0, <1>2, <2>1, <2>2, Carried
  <2>4. 0 + i = i /\ 0 + k = k
    BY <1>0, <1>2
  <2> QED
    BY <2>3, <2>4
<1>3. CASE i \in Commands(p) /\ \E m \in Commands(q) : k = Len(p) + m
  BY <1>3 DEF r
<1>4. CASE (\E m \in Commands(q) : i = Len(p) + m) /\ k \in Commands(p)
  BY <1>0, <1>4
<1>5. CASE (\E m \in Commands(q) : i = Len(p) + m) /\ (\E m \in Commands(q) : k = Len(p) + m)
  <2>1. PICK m \in Commands(q) : i = Len(p) + m
    BY <1>5
  <2>2. PICK n \in Commands(q) : k = Len(p) + n
    BY <1>5
  <2>3. m < n
    BY <1>0, <2>1, <2>2
  <2>4. Apart(q, m, n)
    BY <2>3 DEF Safe
  <2>5. Apart(r, Len(p) + m, Len(p) + n)
    BY <1>0, <1>1, <2>4, Carried
  <2> QED
    BY <2>1, <2>2, <2>5
<1> QED
  BY <1>1, <1>2, <1>3, <1>4, <1>5

\* Barrier b makes what command c has written available to later kernels.
Ends(b, c) ==
  /\ b.stage = "barrier" /\ c.stage \in b.from /\ "C" \in b.to
  /\ WriteAccess(c) \in b.makes /\ \A q \in c.writes : Concerns(b, q)

\* Later kernels may read and overwrite what p has written.
Closed(p) ==
  \A i \in Commands(p) :
    \E b \in 1 .. Len(p) : i < b /\ Ends(p[b], p[i]) /\ "CR" \in p[b].shows

\* Later kernels may overwrite what the copies of p have written.
Drained(p) ==
  \A i \in Commands(p) :
    p[i].stage = "T" => \E b \in 1 .. Len(p) : i < b /\ Ends(p[b], p[i])

\* Barrier b makes later copies wait for earlier kernels.
Begins(b) == b.stage = "barrier" /\ "C" \in b.from /\ "T" \in b.to

OpenedAt(q, k) ==
  /\ \E b \in 1 .. Len(q) : b < k /\ Begins(q[b])
  /\ \A r \in q[k].reads :
        \E b \in 1 .. Len(q) : b < k /\ Begins(q[b]) /\ "TR" \in q[b].shows /\ Concerns(q[b], r)

\* Copies of q wait for the kernels before q.
Opened(q) == \A k \in Commands(q) : q[k].stage = "T" => OpenedAt(q, k)

\* Copies of q wait for the kernels before q and find what these have written.
Fetched(q) ==
  \A k \in Commands(q) :
    /\ q[k].stage = "T"
    /\ \E b \in 1 .. Len(q) : /\ b < k /\ Begins(q[b]) /\ q[b].on = {}
                              /\ "CW" \in q[b].makes /\ "TR" \in q[b].shows

\* Commands c and d share no memory that one of them writes.
Untouched(c, d) ==
  /\ \A w \in c.writes : \A r \in d.reads \cup d.writes : ~ Clash(w, r)
  /\ \A r \in c.reads : \A w \in d.writes : ~ Clash(r, w)

\* d reads what c has written to the last byte, or nothing of it.
Covers(c, d) == \A w \in c.writes : \A r \in d.reads : Clash(w, r) => Within(r, w)

\* Commands that share no written place need no barrier.
LEMMA UntouchedApart ==
  ASSUME NEW p, NEW i, NEW k, Untouched(p[i], p[k])
  PROVE  Apart(p, i, k)
BY DEF Untouched, Apart

LEMMA StageOf ==
  ASSUME NEW c \in Command
  PROVE  \/ c.stage = "C" /\ ReadAccess(c) = "CR" /\ WriteAccess(c) = "CW"
         \/ c.stage = "T" /\ ReadAccess(c) = "TR" /\ WriteAccess(c) = "TW"
<1>1. c.stage \in {"C", "T"}
  BY DEF Command, AnyStage
<1> QED
  BY <1>1 DEF ReadAccess, WriteAccess

\* What a program that is closed leaves behind is ready for any kernel, and for
\* a copy that waits for kernels.
LEMMA CrossClosed ==
  ASSUME NEW p \in Seq(Item), NEW q \in Seq(Item), Closed(p),
         NEW i \in Commands(p), NEW k \in Commands(q), Covers(p[i], q[k]),
         q[k].stage = "C" \/ OpenedAt(q, k)
  PROVE  Apart(p \o q, i, Len(p) + k)
<1> DEFINE r == p \o q
           L == Len(p)
           m == L + k
<1>0. /\ i \in 1 .. L /\ k \in 1 .. Len(q) /\ L \in Nat /\ Len(q) \in Nat
      /\ p[i] \in Command /\ q[k] \in Command
  BY CommandItems
<1>1. /\ \A n \in 1 .. L : r[n] = p[n]
      /\ \A n \in 1 .. Len(q) : r[L + n] = q[n]
  BY Joined
<1>2. PICK b \in 1 .. L : i < b /\ Ends(p[b], p[i]) /\ "CR" \in p[b].shows
  BY DEF Closed
<1>3. r[i] = p[i] /\ r[m] = q[k] /\ r[b] = p[b]
  BY <1>0, <1>1, <1>2
<1>4. b \in i .. m /\ i < b /\ b < m /\ m \in Nat /\ b \in Nat /\ i \in Nat
  BY <1>0, <1>2
<1> HIDE DEF r, m
<1>5. r[b].stage = "barrier" /\ r[i].stage \in r[b].from /\ "C" \in r[b].to
      /\ WriteAccess(r[i]) \in r[b].makes /\ \A x \in r[i].writes : Concerns(r[b], x)
  BY <1>2, <1>3 DEF Ends
<1>6. CASE q[k].stage = "C"
  <2>1. Linked(r, i, m, b, b)
    BY <1>3, <1>4, <1>5, <1>6 DEF Linked
  <2>2. ReadAccess(r[m]) = "CR"
    BY <1>3, <1>6 DEF ReadAccess
  <2>3. Ordered(r, i, m)
    BY <1>4, <2>1 DEF Ordered
  <2>4. ASSUME NEW x \in r[i].writes, NEW y, Clash(x, y)
        PROVE  Released(r, i, m, y) /\ Visible(r, i, m, y)
    <3>1. Concerns(r[b], y)
      BY <1>5, <2>4 DEF Concerns, Clash
    <3>2. "CR" \in r[b].shows
      BY <1>2, <1>3
    <3> QED
      BY <1>4, <1>5, <2>1, <2>2, <3>1, <3>2 DEF Released, Visible
  <2> QED
    BY <1>3, <2>3, <2>4 DEF Apart, Covers, r, m
<1>7. CASE q[k].stage = "T" /\ OpenedAt(q, k)
  <2>0. ReadAccess(r[m]) = "TR"
    BY <1>3, <1>7 DEF ReadAccess
  <2>1. ASSUME NEW c \in 1 .. Len(q), c < k, Begins(q[c])
        PROVE  L + c \in i .. m /\ Linked(r, i, m, b, L + c) /\ r[L + c] = q[c]
    <3>1. r[L + c] = q[c]
      BY <1>1
    <3>2. b <= L + c /\ L + c < m /\ L + c \in i .. m
      BY <1>0, <1>2, <1>4, <2>1 DEF m
    <3> QED
      BY <1>3, <1>4, <1>5, <1>7, <2>1, <3>1, <3>2 DEF Linked, Begins
  <2>2. PICK c \in 1 .. Len(q) : c < k /\ Begins(q[c])
    BY <1>7 DEF OpenedAt
  <2>3. L + c \in i .. m /\ Linked(r, i, m, b, L + c)
    BY <2>1, <2>2
  <2>4. Ordered(r, i, m)
    BY <1>4, <2>3 DEF Ordered
  <2>5. ASSUME NEW x \in r[i].writes, NEW y, Clash(x, y)
        PROVE  Concerns(r[b], y) /\ Released(r, i, m, y)
    <3>1. Concerns(r[b], y)
      BY <1>5, <2>5 DEF Concerns, Clash
    <3> QED
      BY <1>4, <1>5, <2>3, <3>1 DEF Released
  <2>6. ASSUME NEW x \in r[i].writes, NEW y \in r[m].reads, Clash(x, y)
        PROVE  Visible(r, i, m, y)
    <3>1. PICK d \in 1 .. Len(q) :
             d < k /\ Begins(q[d]) /\ "TR" \in q[d].shows /\ Concerns(q[d], y)
      BY <1>3, <1>7 DEF OpenedAt
    <3>2. L + d \in i .. m /\ Linked(r, i, m, b, L + d) /\ r[L + d] = q[d]
      BY <2>1, <3>1
    <3> QED
      BY <1>4, <1>5, <2>0, <2>5, <2>6, <3>1, <3>2 DEF Visible
  <2> QED
    BY <1>3, <2>4, <2>5, <2>6 DEF Apart, Covers, r, m
<1>8. q[k].stage = "C" \/ q[k].stage = "T"
  BY <1>0, StageOf
<1> QED
  BY <1>6, <1>7, <1>8 DEF r, m

\* What kernels leave behind, and copies that a barrier follows, is ready for a
\* copy behind a full barrier.
LEMMA CrossDrained ==
  ASSUME NEW p \in Seq(Item), NEW q \in Seq(Item), Drained(p), Fetched(q),
         NEW i \in Commands(p), NEW k \in Commands(q), Covers(p[i], q[k])
  PROVE  Apart(p \o q, i, Len(p) + k)
<1> DEFINE r == p \o q
           L == Len(p)
           m == L + k
<1>0. /\ i \in 1 .. L /\ k \in 1 .. Len(q) /\ L \in Nat /\ Len(q) \in Nat
      /\ p[i] \in Command /\ q[k] \in Command
  BY CommandItems
<1>1. /\ \A n \in 1 .. L : r[n] = p[n]
      /\ \A n \in 1 .. Len(q) : r[L + n] = q[n]
  BY Joined
<1>2. PICK c \in 1 .. Len(q) : /\ c < k /\ Begins(q[c]) /\ q[c].on = {}
                               /\ "CW" \in q[c].makes /\ "TR" \in q[c].shows
  BY DEF Fetched
<1>3. q[k].stage = "T" /\ r[i] = p[i] /\ r[m] = q[k] /\ r[L + c] = q[c]
  BY <1>0, <1>1, <1>2 DEF Fetched
<1>4. /\ L + c \in i .. m /\ i < L + c /\ L + c < m /\ m \in Nat /\ i \in Nat /\ L + c \in Nat
  BY <1>0, <1>2
<1>5. \A y : Concerns(r[L + c], y)
  BY <1>2, <1>3 DEF Concerns
<1> HIDE DEF r, m
<1>6. ReadAccess(r[m]) = "TR"
  BY <1>3 DEF ReadAccess
<1>7. \E b \in i .. m : /\ Linked(r, i, m, b, L + c) /\ WriteAccess(r[i]) \in r[b].makes
                        /\ \A x \in r[i].writes : Concerns(r[b], x)
  <2>1. CASE p[i].stage = "C"
    <3>1. Linked(r, i, m, L + c, L + c)
      BY <1>2, <1>3, <1>4, <2>1 DEF Linked, Begins
    <3>2. WriteAccess(r[i]) \in r[L + c].makes
      BY <1>2, <1>3, <2>1 DEF WriteAccess
    <3> QED
      BY <1>4, <1>5, <3>1, <3>2
  <2>2. CASE p[i].stage = "T"
    <3>1. PICK b \in 1 .. L : i < b /\ Ends(p[b], p[i])
      BY <2>2 DEF Drained
    <3>2. b \in i .. m /\ b <= L + c /\ r[b] = p[b] /\ b \in Nat
      BY <1>0, <1>1, <1>2, <1>4, <3>1
    <3>3. Linked(r, i, m, b, L + c)
      BY <1>2, <1>3, <1>4, <3>1, <3>2 DEF Linked, Ends, Begins
    <3> QED
      BY <1>3, <3>1, <3>2, <3>3 DEF Ends
  <2> QED
    BY <1>0, <2>1, <2>2, StageOf
<1>8. PICK b \in i .. m : /\ Linked(r, i, m, b, L + c) /\ WriteAccess(r[i]) \in r[b].makes
                          /\ \A x \in r[i].writes : Concerns(r[b], x)
  BY <1>7
<1>9. Ordered(r, i, m)
  BY <1>4, <1>8 DEF Ordered
<1>10. ASSUME NEW x \in r[i].writes, NEW y, Clash(x, y)
       PROVE  Released(r, i, m, y) /\ Visible(r, i, m, y)
  <2>1. Concerns(r[b], y)
    BY <1>8, <1>10 DEF Concerns, Clash
  <2>2. "TR" \in r[L + c].shows
    BY <1>2, <1>3
  <2> QED
    BY <1>4, <1>5, <1>6, <1>8, <2>1, <2>2 DEF Released, Visible
<1> QED
  BY <1>3, <1>9, <1>10 DEF r, m, Apart, Covers

\* A barrier that shows what was copied also ends the copies.
LEMMA ClosedDrained ==
  ASSUME NEW p, Closed(p)
  PROVE  Drained(p)
BY DEF Closed, Drained

\* Later kernels may read and overwrite what the copies of p have written.
ClosedCopies(p) ==
  \A i \in Commands(p) :
    p[i].stage = "T" =>
      \E b \in 1 .. Len(p) : i < b /\ Ends(p[b], p[i]) /\ "CR" \in p[b].shows

\* Buffers of the device are written as a whole, and no copy writes for the host.
Tame(p, s) ==
  \A k \in Commands(p) : \A q \in p[k].writes :
    q = Whole(q[1]) /\ (p[k].stage = "T" => q[1] \notin DOMAIN s)

PlainReads(p) == \A k \in Commands(p) : \A q \in p[k].reads : q = Whole(q[1])

\* A program that more may follow.
Started(p, s) == p \in Seq(Item) /\ Safe(p) /\ Fits(p, s) /\ Tame(p, s)

\* A program that more may follow is good as it is.
LEMMA StartedGood ==
  ASSUME NEW p, NEW s, Started(p, s)
  PROVE  Good(p, s)
BY DEF Started, Good, Tame, Final

LEMMA FitsJoin ==
  ASSUME NEW p \in Seq(Item), NEW q \in Seq(Item), NEW s, Fits(p, s), Fits(q, s)
  PROVE  Fits(p \o q, s)
<1> SUFFICES ASSUME NEW k \in Commands(p \o q),
                    NEW x \in (p \o q)[k].reads \cup (p \o q)[k].writes, x[1] \in DOMAIN s
             PROVE  x[3] <= s[x[1]]
  BY DEF Fits
<1>1. \/ k \in Commands(p) /\ (p \o q)[k] = p[k]
      \/ \E n \in Commands(q) : k = Len(p) + n /\ (p \o q)[k] = q[n]
  BY Joined
<1> QED
  BY <1>1 DEF Fits

LEMMA TameJoin ==
  ASSUME NEW p \in Seq(Item), NEW q \in Seq(Item), NEW s, Tame(p, s), Tame(q, s)
  PROVE  Tame(p \o q, s)
<1> DEFINE r == p \o q
<1> SUFFICES ASSUME NEW k \in Commands(r), NEW x \in r[k].writes
             PROVE  x = Whole(x[1]) /\ (r[k].stage = "T" => x[1] \notin DOMAIN s)
  BY DEF Tame
<1>1. \/ k \in Commands(p) /\ r[k] = p[k]
      \/ \E n \in Commands(q) : k = Len(p) + n /\ r[k] = q[n]
  BY Joined
<1> HIDE DEF r
<1> QED
  BY <1>1 DEF Tame

\* A barrier that follows a command in a part follows it in the whole.
LEMMA EndsJoin ==
  ASSUME NEW p \in Seq(Item), NEW q \in Seq(Item)
  PROVE  /\ Closed(p) /\ Closed(q) => Closed(p \o q)
         /\ ClosedCopies(p) /\ ClosedCopies(q) => ClosedCopies(p \o q)
         /\ Drained(p) /\ Drained(q) => Drained(p \o q)
<1> DEFINE r == p \o q
           L == Len(p)
<1>0. /\ Commands(p) \subseteq 1 .. L /\ Commands(q) \subseteq 1 .. Len(q)
      /\ L \in Nat /\ Len(q) \in Nat
  BY CommandItems
<1>1. /\ Len(r) = L + Len(q)
      /\ \A n \in 1 .. L : r[n] = p[n]
      /\ \A n \in 1 .. Len(q) : r[L + n] = q[n]
      /\ \A n \in Commands(r) :
            \/ n \in Commands(p) /\ r[n] = p[n]
            \/ \E k \in Commands(q) : n = L + k /\ r[n] = q[k]
  BY Joined
<1> HIDE DEF r, L
<1>2. ASSUME NEW i \in Commands(p), NEW b \in 1 .. L, i < b
      PROVE  b \in 1 .. Len(r) /\ r[b] = p[b] /\ r[i] = p[i]
  BY <1>0, <1>1, <1>2
<1>3. ASSUME NEW i \in Commands(q), NEW b \in 1 .. Len(q), i < b
      PROVE  L + b \in 1 .. Len(r) /\ r[L + b] = q[b] /\ r[L + i] = q[i] /\ L + i < L + b
  BY <1>0, <1>1, <1>3
<1>4. ASSUME Closed(p), Closed(q), NEW n \in Commands(r)
      PROVE  \E b \in 1 .. Len(r) : n < b /\ Ends(r[b], r[n]) /\ "CR" \in r[b].shows
  <2>1. CASE n \in Commands(p)
    <3>1. PICK b \in 1 .. L : n < b /\ Ends(p[b], p[n]) /\ "CR" \in p[b].shows
      BY <1>4, <2>1 DEF Closed, L
    <3> QED
      BY <1>2, <2>1, <3>1
  <2>2. CASE \E k \in Commands(q) : n = L + k
    <3>1. PICK k \in Commands(q) : n = L + k
      BY <2>2
    <3>2. PICK b \in 1 .. Len(q) : k < b /\ Ends(q[b], q[k]) /\ "CR" \in q[b].shows
      BY <1>4, <3>1 DEF Closed
    <3>3. L + b \in 1 .. Len(r) /\ r[L + b] = q[b] /\ r[n] = q[k] /\ n < L + b
      BY <1>3, <3>1, <3>2
    <3> QED
      BY <3>2, <3>3
  <2> QED
    BY <1>1, <2>1, <2>2
<1>5. ASSUME ClosedCopies(p), ClosedCopies(q), NEW n \in Commands(r), r[n].stage = "T"
      PROVE  \E b \in 1 .. Len(r) : n < b /\ Ends(r[b], r[n]) /\ "CR" \in r[b].shows
  <2>1. CASE n \in Commands(p) /\ r[n] = p[n]
    <3>1. PICK b \in 1 .. L : n < b /\ Ends(p[b], p[n]) /\ "CR" \in p[b].shows
      BY <1>5, <2>1 DEF ClosedCopies, L
    <3> QED
      BY <1>2, <2>1, <3>1
  <2>2. CASE \E k \in Commands(q) : n = L + k /\ r[n] = q[k]
    <3>1. PICK k \in Commands(q) : n = L + k /\ r[n] = q[k]
      BY <2>2
    <3>2. PICK b \in 1 .. Len(q) : k < b /\ Ends(q[b], q[k]) /\ "CR" \in q[b].shows
      BY <1>5, <3>1 DEF ClosedCopies
    <3>3. L + b \in 1 .. Len(r) /\ r[L + b] = q[b] /\ r[n] = q[k] /\ n < L + b
      BY <1>3, <3>1, <3>2
    <3> QED
      BY <3>2, <3>3
  <2> QED
    BY <1>1, <2>1, <2>2
<1>6. ASSUME Drained(p), Drained(q), NEW n \in Commands(r), r[n].stage = "T"
      PROVE  \E b \in 1 .. Len(r) : n < b /\ Ends(r[b], r[n])
  <2>1. CASE n \in Commands(p) /\ r[n] = p[n]
    <3>1. PICK b \in 1 .. L : n < b /\ Ends(p[b], p[n])
      BY <1>6, <2>1 DEF Drained, L
    <3> QED
      BY <1>2, <2>1, <3>1
  <2>2. CASE \E k \in Commands(q) : n = L + k /\ r[n] = q[k]
    <3>1. PICK k \in Commands(q) : n = L + k /\ r[n] = q[k]
      BY <2>2
    <3>2. PICK b \in 1 .. Len(q) : k < b /\ Ends(q[b], q[k])
      BY <1>6, <3>1 DEF Drained
    <3>3. L + b \in 1 .. Len(r) /\ r[L + b] = q[b] /\ r[n] = q[k] /\ n < L + b
      BY <1>3, <3>1, <3>2
    <3> QED
      BY <3>2, <3>3
  <2> QED
    BY <1>1, <2>1, <2>2
<1> QED
  BY <1>4, <1>5, <1>6 DEF r, Closed, ClosedCopies, Drained

LEMMA WholeCovers ==
  ASSUME NEW c, NEW d, \A w \in c.writes : w = Whole(w[1]), \A r \in d.reads : r = Whole(r[1])
  PROVE  Covers(c, d)
<1> SUFFICES ASSUME NEW w \in c.writes, NEW r \in d.reads, Clash(w, r) PROVE Within(r, w)
  BY DEF Covers
<1>1. w = Whole(w[1]) /\ r = Whole(w[1])
  BY DEF Clash
<1>2. Within(Whole(w[1]), Whole(w[1]))
  BY DEF Within, Whole
<1> QED
  BY <1>1, <1>2

\* Kernels, and copies that wait for kernels, behind a program that is closed.
LEMMA Continue ==
  ASSUME NEW s, NEW p, NEW q, Started(p, s), Closed(p), Started(q, s), PlainReads(q), Opened(q)
  PROVE  /\ Started(p \o q, s)
         /\ Closed(q) => Closed(p \o q)
         /\ ClosedCopies(q) => ClosedCopies(p \o q)
         /\ Drained(q) => Drained(p \o q)
<1>0. /\ p \in Seq(Item) /\ q \in Seq(Item) /\ Safe(p) /\ Safe(q)
      /\ Fits(p, s) /\ Fits(q, s) /\ Tame(p, s) /\ Tame(q, s)
  BY DEF Started
<1>1. ASSUME NEW i \in Commands(p), NEW k \in Commands(q)
      PROVE  Apart(p \o q, i, Len(p) + k)
  <2>1. Covers(p[i], q[k])
    BY <1>0, WholeCovers DEF Tame, PlainReads
  <2>2. q[k].stage = "C" \/ OpenedAt(q, k)
    <3>1. q[k] \in Command
      BY <1>0, CommandItems
    <3> QED
      BY <3>1, StageOf DEF Opened
  <2> QED
    BY <1>0, <2>1, <2>2, CrossClosed
<1>2. p \o q \in Seq(Item)
  BY <1>0, Joined
<1>3. Safe(p \o q)
  BY <1>0, <1>1, SafeJoin
<1>4. Started(p \o q, s)
  BY <1>0, <1>2, <1>3, FitsJoin, TameJoin DEF Started
<1>5. ClosedCopies(p) /\ Drained(p)
  BY ClosedDrained DEF Closed, ClosedCopies
<1> QED
  BY <1>0, <1>4, <1>5, EndsJoin

\* Whatever follows a program that writes no host buffer leaves its results alone.
LEMMA FinalJoin ==
  ASSUME NEW p \in Seq(Item), NEW q \in Seq(Item), NEW s, Tame(p, s), Final(q, DOMAIN s)
  PROVE  Final(p \o q, DOMAIN s)
<1> DEFINE r == p \o q
<1>0. Commands(p) \subseteq 1 .. Len(p) /\ Commands(q) \subseteq 1 .. Len(q) /\ Len(p) \in Nat
  BY CommandItems
<1>1. \A n \in Commands(r) :
        \/ n \in Commands(p) /\ r[n] = p[n]
        \/ \E k \in Commands(q) : n = Len(p) + k /\ r[n] = q[k]
  BY Joined
<1> HIDE DEF r
<1> SUFFICES ASSUME NEW i \in Commands(r), NEW k \in Commands(r), i < k, r[i].stage = "T",
                    NEW x \in r[i].writes, NEW y \in r[k].writes, x[1] \in DOMAIN s
             PROVE  ~ Clash(x, y)
  BY DEF Final, r
<1>2. ~ (i \in Commands(p) /\ r[i] = p[i])
  BY DEF Tame
<1>3. PICK m \in Commands(q) : i = Len(p) + m /\ r[i] = q[m]
  BY <1>1, <1>2
<1>4. k \notin Commands(p)
  <2>1. k > Len(p)
    <3>1. m \in 1 .. Len(q) /\ Len(q) \in Nat
      BY <1>0, CommandItems
    <3>2. k \in Nat /\ Len(p) + m < k
      <4>1. \A n \in Commands(q) : n \in Nat
        BY <1>0, CommandItems
      <4>2. k \in Nat
        BY <1>0, <1>1, <4>1
      <4> QED
        BY <1>3, <4>2
    <3> QED
      BY <1>0, <3>1, <3>2
  <2> QED
    BY <1>0, <2>1
<1>6. PICK n \in Commands(q) : k = Len(p) + n /\ r[k] = q[n]
  BY <1>1, <1>4
<1>5. m < n
  BY <1>0, <1>3, <1>6, CommandItems
<1> QED
  BY <1>3, <1>5, <1>6 DEF Final

\* Copies of what the kernels have left, at the end of a program.
LEMMA Finish ==
  ASSUME NEW s, NEW p, NEW q, Started(p, s), Drained(p), Good(q, s), Fetched(q), PlainReads(q)
  PROVE  Good(p \o q, s)
<1>0. /\ p \in Seq(Item) /\ q \in Seq(Item) /\ Safe(p) /\ Safe(q)
      /\ Fits(p, s) /\ Fits(q, s) /\ Tame(p, s) /\ Final(q, DOMAIN s)
  BY DEF Started, Good
<1>1. ASSUME NEW i \in Commands(p), NEW k \in Commands(q)
      PROVE  Apart(p \o q, i, Len(p) + k)
  <2>1. Covers(p[i], q[k])
    BY <1>0, WholeCovers DEF Tame, PlainReads
  <2> QED
    BY <1>0, <2>1, CrossDrained
<1>2. p \o q \in Seq(Item)
  BY <1>0, Joined
<1>3. Safe(p \o q)
  BY <1>0, <1>1, SafeJoin
<1> QED
  BY <1>0, <1>2, <1>3, FitsJoin, FinalJoin DEF Good

-----------------------------------------------------------------------------
(* Parts of a staging buffer.                                               *)

\* Induction, over the set of the numbers up to N of which something holds.
LEMMA InductionUpTo ==
  ASSUME NEW N \in Nat, NEW T, 0 \in T, \A n \in 0 .. N : n \in T /\ n < N => n + 1 \in T
  PROVE  0 .. N \subseteq T
<1> DEFINE U == (0 .. N) \ T
<1> SUFFICES ASSUME U # {} PROVE FALSE
  OBVIOUS
<1>1. PICK m \in U : \A k \in U : m <= k
  <2>1. U \in SUBSET Nat
    OBVIOUS
  <2> HIDE DEF U
  <2> QED
    BY <2>1, Smallest
<1>2. m # 0 /\ m \in 1 .. N
  BY <1>1
<1>3. m - 1 \in 0 .. N /\ m - 1 < N /\ ~ (m <= m - 1) /\ (m - 1) + 1 = m
  BY <1>2
<1>4. m - 1 \in T
  BY <1>1, <1>3
<1> QED
  BY <1>1, <1>3, <1>4

\* Where the parts behind each other end: f[n] is past part n.
EndsOf(f, parts) ==
  /\ f \in [0 .. Len(parts) -> Nat] /\ f[0] = 0
  /\ \A n \in 1 .. Len(parts) : f[n] = f[n - 1] + parts[n][2]

Part == Buffer \X Nat

\* Bytes is a recursive function: its value at n, for every n up to the length.
LEMMA SumsExist ==
  ASSUME NEW parts \in Seq(Part)
  PROVE  \E f : EndsOf(f, parts)
<1> DEFINE L == Len(parts)
           Upto(n, f) == /\ f \in [0 .. n -> Nat] /\ f[0] = 0
                         /\ \A m \in 1 .. n : f[m] = f[m - 1] + parts[m][2]
           T == {n \in 0 .. L : \E f : Upto(n, f)}
<1>0. L \in Nat /\ \A n \in 1 .. L : parts[n][2] \in Nat
  BY DEF Part
<1> HIDE DEF L
<1>1. 0 \in T
  <2> DEFINE f == [n \in 0 .. 0 |-> 0]
  <2>1. Upto(0, f)
    OBVIOUS
  <2> HIDE DEF f
  <2>2. \E g : Upto(0, g)
    BY <2>1
  <2>3. 0 \in 0 .. L
    BY <1>0
  <2> QED
    BY <2>2, <2>3
<1>2. ASSUME NEW n \in 0 .. L, n \in T, n < L PROVE n + 1 \in T
  <2>1. PICK f : Upto(n, f)
    BY <1>2
  <2> DEFINE g == [m \in 0 .. n + 1 |-> IF m = n + 1 THEN f[n] + parts[n + 1][2] ELSE f[m]]
  <2>2. n + 1 \in 1 .. L /\ n + 1 \in 0 .. L /\ n \in 0 .. n /\ f[n] \in Nat /\ n \in Nat
    BY <1>0, <1>2, <2>1
  <2>3. f[n] + parts[n + 1][2] \in Nat
    BY <1>0, <2>2
  <2>4. \A m \in 0 .. n + 1 : m # n + 1 => m \in 0 .. n
    BY <2>2
  <2>5. g \in [0 .. n + 1 -> Nat]
    BY <2>1, <2>3, <2>4
  <2>6. g[0] = 0
    BY <2>1, <2>2
  <2>7. ASSUME NEW m \in 1 .. n + 1 PROVE g[m] = g[m - 1] + parts[m][2]
    <3>1. m - 1 \in 0 .. n + 1 /\ m - 1 # n + 1 /\ m \in 0 .. n + 1
      BY <2>2
    <3>2. g[m - 1] = f[m - 1]
      BY <3>1
    <3>3. CASE m = n + 1
      <4>1. m - 1 = n
        BY <2>2, <3>3
      <4> QED
        BY <3>1, <3>2, <3>3, <4>1
    <3>4. CASE m # n + 1
      <4>1. m \in 1 .. n /\ g[m] = f[m]
        BY <2>2, <3>1, <3>4
      <4> QED
        BY <2>1, <3>2, <4>1
    <3> QED
      BY <3>3, <3>4
  <2> HIDE DEF g
  <2>8. Upto(n + 1, g)
    BY <2>5, <2>6, <2>7
  <2> QED
    BY <2>2, <2>8
<1> HIDE DEF T
<1>3. 0 .. L \subseteq T
  BY <1>0, <1>1, <1>2, InductionUpTo
<1>4. L \in T
  BY <1>0, <1>3
<1> QED
  BY <1>4 DEF T, L, EndsOf

\* Bytes is the last of the sums.
LEMMA BytesAre ==
  ASSUME NEW parts \in Seq(Part), NEW f, EndsOf(f, parts)
  PROVE  f[Len(parts)] = Bytes(parts)
<1> DEFINE L == Len(parts)
           Meets(g) == g = [n \in 0 .. L |-> IF n = 0 THEN 0 ELSE g[n - 1] + parts[n][2]]
           upTo == CHOOSE g : Meets(g)
<1>1. Bytes(parts) = upTo[L]
  BY DEF Bytes
<1>2. L \in Nat
  OBVIOUS
<1>3. f \in [0 .. L -> Nat] /\ f[0] = 0 /\ \A n \in 1 .. L : f[n] = f[n - 1] + parts[n][2]
  BY DEF EndsOf
<1> HIDE DEF L
<1>4. \A n \in 0 .. L : n # 0 => n \in 1 .. L
  OBVIOUS
<1>5. Meets(f)
  BY <1>3, <1>4
<1>6. Meets(upTo)
  BY <1>5
<1> HIDE DEF upTo
<1>7. \A n \in 0 .. L : upTo[n] = IF n = 0 THEN 0 ELSE upTo[n - 1] + parts[n][2]
  BY <1>6
<1> DEFINE T == {n \in 0 .. L : upTo[n] = f[n]}
<1>8. 0 \in T
  BY <1>2, <1>3, <1>7
<1>9. ASSUME NEW n \in 0 .. L, n \in T, n < L PROVE n + 1 \in T
  <2>1. n + 1 \in 0 .. L /\ n + 1 \in 1 .. L /\ n + 1 # 0 /\ (n + 1) - 1 = n
    BY <1>2, <1>9
  <2>2. upTo[n + 1] = upTo[n] + parts[n + 1][2] /\ f[n + 1] = f[n] + parts[n + 1][2]
    BY <1>3, <1>7, <2>1
  <2> QED
    BY <1>9, <2>1, <2>2
<1> HIDE DEF T
<1>10. 0 .. L \subseteq T
  BY <1>2, <1>8, <1>9, InductionUpTo
<1>11. L \in T
  BY <1>2, <1>10
<1> QED
  BY <1>1, <1>11 DEF T, L

\* The sums do not decrease.
LEMMA SumsGrow ==
  ASSUME NEW parts \in Seq(Part), NEW f, EndsOf(f, parts)
  PROVE  \A i, j \in 0 .. Len(parts) : i <= j => f[i] <= f[j]
<1> DEFINE L == Len(parts)
<1>0. L \in Nat /\ \A n \in 1 .. L : parts[n][2] \in Nat
  BY DEF Part
<1>1. /\ \A n \in 0 .. L : f[n] \in Nat
      /\ \A n \in 1 .. L : f[n] = f[n - 1] + parts[n][2]
  BY DEF EndsOf
<1> HIDE DEF L
<1> SUFFICES ASSUME NEW i \in 0 .. L, NEW j \in 0 .. L, i <= j PROVE f[i] <= f[j]
  BY DEF L
<1> DEFINE T == {n \in 0 .. L : i <= n => f[i] <= f[n]}
<1>2. 0 \in T
  <2>1. 0 \in 0 .. L /\ (i <= 0 => i = 0) /\ f[0] <= f[0]
    BY <1>0, <1>1
  <2> QED
    BY <2>1
<1>3. ASSUME NEW n \in 0 .. L, n \in T, n < L PROVE n + 1 \in T
  <2>1. n + 1 \in 0 .. L /\ n + 1 \in 1 .. L /\ (n + 1) - 1 = n
    BY <1>0, <1>3
  <2>2. f[n] \in Nat /\ f[n + 1] = f[n] + parts[n + 1][2] /\ parts[n + 1][2] \in Nat
    BY <1>0, <1>1, <2>1
  <2>3. f[n] <= f[n + 1]
    BY <2>2
  <2>4. f[i] \in Nat /\ f[n + 1] \in Nat
    BY <1>1, <2>1
  <2>5. CASE i <= n
    BY <1>3, <2>1, <2>2, <2>3, <2>4, <2>5
  <2>6. CASE ~ (i <= n)
    <3>1. i <= n + 1 => i = n + 1
      BY <2>6
    <3> QED
      BY <2>1, <2>4, <3>1
  <2> QED
    BY <2>5, <2>6
<1> HIDE DEF T
<1>4. 0 .. L \subseteq T
  BY <1>0, <1>2, <1>3, InductionUpTo
<1>5. j \in T
  BY <1>4
<1> QED
  BY <1>5 DEF T

\* The n-th part lies between the sums of the parts before it and with it.
LEMMA PlacesAre ==
  ASSUME NEW parts \in Seq(Part), NEW f, EndsOf(f, parts), NEW host, NEW base \in Nat
  PROVE  \A n \in 1 .. Len(parts) :
           Packed(host, parts, base)[n] = <<host, base + f[n - 1], base + f[n]>>
<1> DEFINE L == Len(parts)
           Meets(g) == g = [n \in 1 .. L |-> IF n = 1 THEN base ELSE g[n - 1] + parts[n - 1][2]]
           at == CHOOSE g : Meets(g)
           h == [n \in 1 .. L |-> base + f[n - 1]]
<1>1. Packed(host, parts, base) = [n \in 1 .. L |-> <<host, at[n], at[n] + parts[n][2]>>]
  BY DEF Packed
<1>2. L \in Nat /\ \A n \in 1 .. L : parts[n][2] \in Nat
  BY DEF Part
<1>3. f \in [0 .. L -> Nat] /\ f[0] = 0 /\ \A n \in 1 .. L : f[n] = f[n - 1] + parts[n][2]
  BY DEF EndsOf
<1> HIDE DEF L
<1>4. Meets(h)
  <2>1. ASSUME NEW n \in 1 .. L, n # 1
        PROVE  base + f[n - 1] = h[n - 1] + parts[n - 1][2]
    <3>1. n - 1 \in 1 .. L /\ (n - 1) - 1 \in 0 .. L
      BY <1>2, <2>1
    <3>2. h[n - 1] = base + f[(n - 1) - 1]
      BY <3>1
    <3>3. /\ f[n - 1] = f[(n - 1) - 1] + parts[n - 1][2]
          /\ f[(n - 1) - 1] \in Nat /\ parts[n - 1][2] \in Nat
      BY <1>2, <1>3, <3>1
    <3> QED
      BY <3>2, <3>3
  <2>2. ASSUME NEW n \in 1 .. L, n = 1 PROVE base + f[n - 1] = base
    BY <1>3, <2>2
  <2> QED
    BY <2>1, <2>2
<1>5. Meets(at)
  BY <1>4
<1> HIDE DEF at, h
<1>6. \A n \in 1 .. L : at[n] = IF n = 1 THEN base ELSE at[n - 1] + parts[n - 1][2]
  BY <1>5
<1> DEFINE T == {n \in 0 .. L : n = 0 \/ at[n] = base + f[n - 1]}
<1>7. 0 \in T
  BY <1>2
<1>8. ASSUME NEW n \in 0 .. L, n \in T, n < L PROVE n + 1 \in T
  <2>1. n + 1 \in 0 .. L /\ n + 1 \in 1 .. L /\ (n + 1) - 1 = n
    BY <1>2, <1>8
  <2>2. CASE n = 0
    <3>1. n + 1 = 1 /\ at[n + 1] = base /\ f[(n + 1) - 1] = 0
      BY <1>3, <1>6, <2>1, <2>2
    <3> QED
      BY <2>1, <3>1
  <2>3. CASE n # 0
    <3>1. n \in 1 .. L /\ n - 1 \in 0 .. L /\ at[n] = base + f[n - 1]
      BY <1>2, <1>8, <2>3
    <3>2. at[n + 1] = at[n] + parts[n][2]
      BY <1>6, <2>1, <2>3
    <3>3. f[n] = f[n - 1] + parts[n][2] /\ f[n - 1] \in Nat /\ parts[n][2] \in Nat
      BY <1>2, <1>3, <3>1
    <3> QED
      BY <2>1, <3>1, <3>2, <3>3
  <2> QED
    BY <2>2, <2>3
<1> HIDE DEF T
<1>9. 0 .. L \subseteq T
  BY <1>2, <1>7, <1>8, InductionUpTo
<1>10. ASSUME NEW n \in 1 .. L
       PROVE  Packed(host, parts, base)[n] = <<host, base + f[n - 1], base + f[n]>>
  <2>1. n \in T /\ n # 0
    BY <1>9
  <2>2. at[n] = base + f[n - 1]
    BY <2>1 DEF T
  <2>3. f[n] = f[n - 1] + parts[n][2] /\ f[n - 1] \in Nat /\ parts[n][2] \in Nat
    BY <1>2, <1>3
  <2>4. at[n] + parts[n][2] = base + f[n]
    BY <2>2, <2>3
  <2> QED
    BY <1>1, <2>2, <2>4
<1> QED
  BY <1>10 DEF L

\* The places of parts are in the buffer, behind each other, from base on and as
\* far as their bytes go.
LEMMA PlacesPacked ==
  ASSUME NEW parts \in Seq(Part), NEW host \in Buffer, NEW base \in Nat
  PROVE  /\ Bytes(parts) \in Nat
         /\ \A n \in 1 .. Len(parts) :
              /\ Packed(host, parts, base)[n] \in Place
              /\ Packed(host, parts, base)[n][1] = host
              /\ Packed(host, parts, base)[n][3] <= base + Bytes(parts)
         /\ \A i, k \in 1 .. Len(parts) :
              i < k => Packed(host, parts, base)[i][3] <= Packed(host, parts, base)[k][2]
<1> DEFINE L == Len(parts)
           P == Packed(host, parts, base)
           size == Bytes(parts)
<1>1. PICK f : EndsOf(f, parts)
  BY SumsExist
<1>2. /\ L \in Nat /\ size = f[L]
      /\ \A n \in 1 .. L : P[n] = <<host, base + f[n - 1], base + f[n]>>
      /\ \A i, j \in 0 .. L : i <= j => f[i] <= f[j]
  <2>1. L \in Nat /\ size = f[L]
    BY <1>1, BytesAre
  <2>2. \A n \in 1 .. L : P[n] = <<host, base + f[n - 1], base + f[n]>>
    BY <1>1, PlacesAre
  <2>3. \A i, j \in 0 .. L : i <= j => f[i] <= f[j]
    BY <1>1, SumsGrow
  <2> QED
    BY <2>1, <2>2, <2>3
<1>3. \A n \in 0 .. L : f[n] \in Nat
  BY <1>1 DEF EndsOf
<1> HIDE DEF L, P, size
<1>4. ASSUME NEW n \in 1 .. L
      PROVE  P[n] \in Place /\ P[n][1] = host /\ P[n][3] <= base + size
  <2>1. n \in 0 .. L /\ n - 1 \in 0 .. L /\ L \in 0 .. L /\ n <= L
    BY <1>2
  <2>2. f[n] \in Nat /\ f[n - 1] \in Nat /\ f[n] <= f[L] /\ f[L] \in Nat
    BY <1>2, <1>3, <2>1
  <2>3. base + f[n - 1] \in Nat /\ base + f[n] \in Nat /\ base + f[n] <= base + f[L]
    BY <2>2
  <2>4. <<host, base + f[n - 1], base + f[n]>> \in Place
    BY <2>3 DEF Place
  <2>5. P[n] = <<host, base + f[n - 1], base + f[n]>>
    BY <1>2
  <2> QED
    BY <1>2, <2>3, <2>4, <2>5
<1>5. ASSUME NEW i \in 1 .. L, NEW k \in 1 .. L, i < k
      PROVE  P[i][3] <= P[k][2]
  <2>1. i \in 0 .. L /\ k - 1 \in 0 .. L /\ i <= k - 1
    BY <1>2, <1>5
  <2>2. f[i] \in Nat /\ f[k - 1] \in Nat /\ f[i] <= f[k - 1]
    BY <1>2, <1>3, <2>1
  <2>3. base + f[i] <= base + f[k - 1]
    BY <2>2
  <2>4. /\ P[i] = <<host, base + f[i - 1], base + f[i]>>
        /\ P[k] = <<host, base + f[k - 1], base + f[k]>>
    BY <1>2
  <2>5. P[i][3] = base + f[i]
    BY <2>4
  <2>6. P[k][2] = base + f[k - 1]
    BY <2>4
  <2> QED
    BY <2>3, <2>5, <2>6
<1>6. size \in Nat
  BY <1>2, <1>3
<1> QED
  BY <1>4, <1>5, <1>6 DEF L, P, size

\* Bytes, added up.
LEMMA BytesStep ==
  /\ Bytes(<<>>) = 0
  /\ \A q \in Seq(Part) : \A x \in Part : Bytes(Append(q, x)) = Bytes(q) + x[2]
<1>1. Bytes(<<>>) = 0
  <2>1. <<>> \in Seq(Part) /\ Len(<<>>) = 0
    OBVIOUS
  <2>2. PICK f : EndsOf(f, <<>>)
    BY <2>1, SumsExist
  <2> QED
    BY <2>1, <2>2, BytesAre DEF EndsOf
<1>2. ASSUME NEW q \in Seq(Part), NEW x \in Part
      PROVE  Bytes(Append(q, x)) = Bytes(q) + x[2]
  <2> DEFINE p == Append(q, x)
             L == Len(q)
  <2>1. p \in Seq(Part) /\ Len(p) = L + 1 /\ L \in Nat
    OBVIOUS
  <2>2. (\A n \in 1 .. L : p[n] = q[n]) /\ p[L + 1] = x
    OBVIOUS
  <2> HIDE DEF p, L
  <2>3. PICK f : EndsOf(f, p)
    BY <2>1, SumsExist
  <2> DEFINE g == [n \in 0 .. L |-> f[n]]
  <2>4. /\ \A n \in 0 .. L + 1 : f[n] \in Nat
        /\ f[0] = 0
        /\ \A n \in 1 .. L + 1 : f[n] = f[n - 1] + p[n][2]
    BY <2>1, <2>3 DEF EndsOf
  <2>5. EndsOf(g, q)
    <3>1. g \in [0 .. L -> Nat]
      BY <2>1, <2>4
    <3>2. g[0] = 0
      BY <2>1, <2>4
    <3>3. ASSUME NEW n \in 1 .. L PROVE g[n] = g[n - 1] + q[n][2]
      <4>1. n \in 0 .. L /\ n - 1 \in 0 .. L /\ n \in 1 .. L + 1
        BY <2>1
      <4> QED
        BY <2>2, <2>4, <4>1
    <3> HIDE DEF g
    <3> QED
      BY <3>1, <3>2, <3>3 DEF EndsOf, L
  <2>6. Bytes(p) = f[L + 1] /\ Bytes(q) = g[L]
    BY <2>1, <2>3, <2>5, BytesAre DEF L
  <2>7. g[L] = f[L] /\ f[L + 1] = f[L] + x[2]
    <3>1. L \in 0 .. L /\ L + 1 \in 1 .. L + 1 /\ (L + 1) - 1 = L
      BY <2>1
    <3> QED
      BY <2>2, <2>4, <3>1
  <2> QED
    BY <2>6, <2>7 DEF p
<1> QED
  BY <1>1, <1>2

-----------------------------------------------------------------------------
(* Commands that need no barrier between them.                              *)

Parallel(p) == \A i, k \in Commands(p) : i < k => Untouched(p[i], p[k])

\* Copies, and at most copies, into or out of the device.
Loads(p, s) ==
  /\ p \in Seq(Item) /\ Parallel(p) /\ Fits(p, s) /\ Tame(p, s)
  /\ \A k \in Commands(p) : p[k].stage = "T"

Stores(p, s) ==
  /\ p \in Seq(Item) /\ Parallel(p) /\ Fits(p, s) /\ PlainReads(p)
  /\ \A k \in Commands(p) : p[k].stage = "T"

\* Commands that share no written place are safe in any order.
LEMMA ParallelSafe ==
  ASSUME NEW p \in Seq(Item), Parallel(p)
  PROVE  Safe(p) /\ \A hosts : Final(p, hosts)
<1>1. Safe(p)
  BY UntouchedApart DEF Parallel, Safe
<1>2. \A hosts : Final(p, hosts)
  BY DEF Parallel, Final, Untouched
<1> QED
  BY <1>1, <1>2

\* A program that only loads may be continued.
LEMMA LoadsStarted ==
  ASSUME NEW p, NEW s, Loads(p, s)
  PROVE  Started(p, s)
BY ParallelSafe DEF Loads, Started

\* A program that only stores is good.
LEMMA StoresGood ==
  ASSUME NEW p, NEW s, Stores(p, s)
  PROVE  Good(p, s)
BY ParallelSafe DEF Stores, Good

LEMMA ParallelJoin ==
  ASSUME NEW p \in Seq(Item), NEW q \in Seq(Item), Parallel(p), Parallel(q),
         \A i \in Commands(p) : \A k \in Commands(q) : Untouched(p[i], q[k])
  PROVE  Parallel(p \o q)
<1> DEFINE r == p \o q
<1>0. /\ Commands(p) \subseteq 1 .. Len(p) /\ Commands(q) \subseteq 1 .. Len(q)
      /\ Len(p) \in Nat /\ Len(q) \in Nat
  BY CommandItems
<1>1. \A n \in Commands(r) :
        \/ n \in Commands(p) /\ r[n] = p[n]
        \/ \E k \in Commands(q) : n = Len(p) + k /\ r[n] = q[k]
  BY Joined
<1> HIDE DEF r
<1> SUFFICES ASSUME NEW i \in Commands(r), NEW k \in Commands(r), i < k PROVE Untouched(r[i], r[k])
  BY DEF r, Parallel
<1>2. CASE i \in Commands(p) /\ r[i] = p[i]
  <2>1. CASE k \in Commands(p) /\ r[k] = p[k]
    BY <1>2, <2>1 DEF Parallel
  <2>2. CASE \E m \in Commands(q) : k = Len(p) + m /\ r[k] = q[m]
    BY <1>2, <2>2
  <2> QED
    BY <1>1, <2>1, <2>2
<1>3. CASE \E m \in Commands(q) : i = Len(p) + m /\ r[i] = q[m]
  <2>1. PICK m \in Commands(q) : i = Len(p) + m /\ r[i] = q[m]
    BY <1>3
  <2>2. CASE k \in Commands(p)
    <3>1. k <= Len(p) /\ m \in 1 .. Len(q) /\ k \in Nat
      BY <1>0, <2>2
    <3> QED
      BY <1>0, <2>1, <3>1
  <2>3. CASE \E n \in Commands(q) : k = Len(p) + n /\ r[k] = q[n]
    <3>1. PICK n \in Commands(q) : k = Len(p) + n /\ r[k] = q[n]
      BY <2>3
    <3>2. m < n
      BY <1>0, <2>1, <3>1
    <3> QED
      BY <2>1, <3>1, <3>2 DEF Parallel
  <2> QED
    BY <1>1, <2>2, <2>3
<1> QED
  BY <1>1, <1>2, <1>3

LEMMA PlainJoin ==
  ASSUME NEW p \in Seq(Item), NEW q \in Seq(Item), PlainReads(p), PlainReads(q)
  PROVE  PlainReads(p \o q)
<1> DEFINE r == p \o q
<1>1. \A n \in Commands(r) :
        \/ n \in Commands(p) /\ r[n] = p[n]
        \/ \E k \in Commands(q) : n = Len(p) + k /\ r[n] = q[k]
  BY Joined
<1> HIDE DEF r
<1>2. PlainReads(r)
  BY <1>1 DEF PlainReads
<1> QED
  BY <1>2 DEF r

LEMMA StageJoin ==
  ASSUME NEW p \in Seq(Item), NEW q \in Seq(Item), NEW stage,
         \A k \in Commands(p) : p[k].stage = stage, \A k \in Commands(q) : q[k].stage = stage
  PROVE  \A k \in Commands(p \o q) : (p \o q)[k].stage = stage
<1> DEFINE r == p \o q
<1>1. \A n \in Commands(r) :
        \/ n \in Commands(p) /\ r[n] = p[n]
        \/ \E k \in Commands(q) : n = Len(p) + k /\ r[n] = q[k]
  BY Joined
<1> HIDE DEF r
<1>2. \A k \in Commands(r) : r[k].stage = stage
  BY <1>1
<1> QED
  BY <1>2 DEF r

\* Two sets of copies that share nothing are one.
LEMMA LoadsJoin ==
  ASSUME NEW s, NEW p, NEW q, Loads(p, s), Loads(q, s),
         \A i \in Commands(p) : \A k \in Commands(q) : Untouched(p[i], q[k])
  PROVE  Loads(p \o q, s)
<1>1. p \o q \in Seq(Item)
  BY Joined DEF Loads
<1>2. Parallel(p \o q) /\ Fits(p \o q, s) /\ Tame(p \o q, s)
  BY ParallelJoin, FitsJoin, TameJoin DEF Loads
<1>3. \A k \in Commands(p \o q) : (p \o q)[k].stage = "T"
  BY StageJoin DEF Loads
<1> QED
  BY <1>1, <1>2, <1>3 DEF Loads

LEMMA StoresJoin ==
  ASSUME NEW s, NEW p, NEW q, Stores(p, s), Stores(q, s),
         \A i \in Commands(p) : \A k \in Commands(q) : Untouched(p[i], q[k])
  PROVE  Stores(p \o q, s)
<1>1. p \o q \in Seq(Item)
  BY Joined DEF Stores
<1>2. Parallel(p \o q) /\ Fits(p \o q, s) /\ PlainReads(p \o q)
  BY ParallelJoin, FitsJoin, PlainJoin DEF Stores
<1>3. \A k \in Commands(p \o q) : (p \o q)[k].stage = "T"
  BY StageJoin DEF Stores
<1> QED
  BY <1>1, <1>2, <1>3 DEF Stores

-----------------------------------------------------------------------------
(* Barriers.                                                                *)

LEMMA BarrierFence ==
  ASSUME NEW from \in SUBSET AnyStage, NEW to \in SUBSET AnyStage, NEW makes \in SUBSET AnyAccess,
         NEW shows \in SUBSET AnyAccess, NEW on \in SUBSET Buffer
  PROVE  Barrier(from, to, makes, shows, on) \in Fence
BY DEF Barrier, Fence

\* The barriers most programs use.
LEMMA UsualFences ==
  UploadDone \in Fence /\ KernelDone \in Fence /\ ResultDone \in Fence
<1>1. /\ {"C"} \in SUBSET AnyStage /\ {"T"} \in SUBSET AnyStage
      /\ \A x \in {"CR", "CW", "TR", "TW"} : {x} \in SUBSET AnyAccess
      /\ {} \in SUBSET Buffer
  BY DEF AnyStage, AnyAccess
<1>2. UploadDone \in Fence
  BY <1>1, BarrierFence DEF UploadDone
<1>3. KernelDone \in Fence
  BY <1>1, BarrierFence DEF KernelDone
<1>4. ResultDone \in Fence
  BY <1>1, BarrierFence DEF ResultDone
<1> QED
  BY <1>2, <1>3, <1>4

\* A barrier by itself has no commands.
LEMMA FenceAlone ==
  ASSUME NEW b \in Fence
  PROVE  /\ <<b>> \in Seq(Item) /\ Len(<<b>>) = 1 /\ <<b>>[1] = b /\ Commands(<<b>>) = {}
         /\ Safe(<<b>>) /\ Parallel(<<b>>) /\ PlainReads(<<b>>)
         /\ Closed(<<b>>) /\ ClosedCopies(<<b>>) /\ Drained(<<b>>)
         /\ \A s : Fits(<<b>>, s) /\ Tame(<<b>>, s) /\ Loads(<<b>>, s) /\ Stores(<<b>>, s)
<1>1. <<b>> \in Seq(Item) /\ Len(<<b>>) = 1 /\ <<b>>[1] = b
  BY DEF Item
<1>2. Commands(<<b>>) = {}
  BY <1>1 DEF Commands, Fence
<1> HIDE DEF Commands
<1> QED
  BY <1>1, <1>2 DEF Safe, Parallel, PlainReads, Closed, ClosedCopies, Drained, Fits, Tame, Loads, Stores

LEMMA LoadsFenced ==
  ASSUME NEW s, NEW p, Loads(p, s), NEW b \in Fence
  PROVE  Loads(p \o <<b>>, s) /\ Loads(<<b>> \o p, s)
BY FenceAlone, LoadsJoin

LEMMA StoresFenced ==
  ASSUME NEW s, NEW p, Stores(p, s), NEW b \in Fence
  PROVE  Stores(p \o <<b>>, s) /\ Stores(<<b>> \o p, s)
BY FenceAlone, StoresJoin

LEMMA StartedFenced ==
  ASSUME NEW s, NEW p, Started(p, s), NEW b \in Fence
  PROVE  Started(p \o <<b>>, s)
<1>1. p \in Seq(Item) /\ <<b>> \in Seq(Item) /\ Commands(<<b>>) = {} /\ Safe(<<b>>)
  BY FenceAlone DEF Started
<1>2. Safe(p \o <<b>>)
  BY <1>1, SafeJoin DEF Started
<1>3. p \o <<b>> \in Seq(Item)
  BY <1>1, Joined
<1> QED
  BY <1>1, <1>2, <1>3, FenceAlone, FitsJoin, TameJoin DEF Started

\* What a last barrier does for every command before it.
LEMMA LastFence ==
  ASSUME NEW p \in Seq(Item), NEW b \in Fence
  PROVE  \A i \in Commands(p \o <<b>>) :
           /\ i \in Commands(p) /\ (p \o <<b>>)[i] = p[i]
           /\ Len(p) + 1 \in 1 .. Len(p \o <<b>>) /\ i < Len(p) + 1
           /\ (p \o <<b>>)[Len(p) + 1] = b
           /\ \A c \in 1 .. Len(p) : c \in 1 .. Len(p \o <<b>>) /\ (p \o <<b>>)[c] = p[c]
<1> DEFINE r == p \o <<b>>
           L == Len(p)
<1>0. Commands(p) \subseteq 1 .. L /\ L \in Nat
  BY CommandItems
<1>1. <<b>> \in Seq(Item) /\ Len(<<b>>) = 1 /\ <<b>>[1] = b /\ Commands(<<b>>) = {}
  BY FenceAlone
<1>2. /\ Len(r) = L + Len(<<b>>)
      /\ \A n \in 1 .. L : r[n] = p[n]
      /\ \A n \in 1 .. Len(<<b>>) : r[L + n] = <<b>>[n]
      /\ \A n \in Commands(r) :
            \/ n \in Commands(p) /\ r[n] = p[n]
            \/ \E k \in Commands(<<b>>) : n = L + k /\ r[n] = <<b>>[k]
  BY <1>1, Joined
<1>3. Len(r) = L + 1 /\ r[L + 1] = b
  BY <1>1, <1>2
<1> HIDE DEF r, L
<1>4. \A i \in Commands(r) : i \in Commands(p) /\ r[i] = p[i]
  BY <1>1, <1>2
<1>5. L + 1 \in 1 .. Len(r) /\ \A c \in 1 .. L : c \in 1 .. Len(r)
  BY <1>0, <1>3
<1>6. \A i \in Commands(p) : i < L + 1
  BY <1>0
<1> QED
  BY <1>2, <1>3, <1>4, <1>5, <1>6 DEF r, L

\* A barrier behind a program in which copies are closed already closes it, if
\* it is one for kernels.
LEMMA KernelDoneCloses ==
  ASSUME NEW s, NEW p, Started(p, s), ClosedCopies(p)
  PROVE  Started(p \o <<KernelDone>>, s) /\ Closed(p \o <<KernelDone>>)
<1> DEFINE b == KernelDone
           r == p \o <<b>>
           L == Len(p)
<1>0. p \in Seq(Item) /\ b \in Fence
  BY UsualFences DEF Started
<1>1. Started(r, s)
  BY <1>0, StartedFenced
<1>2. \A i \in Commands(r) :
           /\ i \in Commands(p) /\ r[i] = p[i]
           /\ L + 1 \in 1 .. Len(r) /\ i < L + 1 /\ r[L + 1] = b
           /\ \A c \in 1 .. L : c \in 1 .. Len(r) /\ r[c] = p[c]
  BY <1>0, LastFence
<1>3. \A c \in Command : c.stage = "C" => Ends(b, c)
  BY StageOf DEF Ends, KernelDone, Barrier, Concerns
<1>4. "CR" \in b.shows
  BY DEF KernelDone, Barrier
<1> HIDE DEF r, b, L
<1>5. Closed(r)
  <2> SUFFICES ASSUME NEW i \in Commands(r)
               PROVE  \E c \in 1 .. Len(r) : i < c /\ Ends(r[c], r[i]) /\ "CR" \in r[c].shows
    BY DEF Closed
  <2>1. p[i] \in Command /\ r[i] = p[i]
    BY <1>0, <1>2, CommandItems
  <2>2. CASE p[i].stage = "C"
    BY <1>2, <1>3, <1>4, <2>1, <2>2
  <2>3. CASE p[i].stage = "T"
    <3>1. PICK c \in 1 .. L : i < c /\ Ends(p[c], p[i]) /\ "CR" \in p[c].shows
      BY <1>2, <2>3 DEF ClosedCopies, L
    <3> QED
      BY <1>2, <2>1, <3>1
  <2> QED
    BY <2>1, <2>2, <2>3, StageOf
<1> QED
  BY <1>1, <1>5 DEF r, b

\* ... as any barrier from transfers to kernels does.
LEMMA BarrierCloses ==
  ASSUME NEW s, NEW p, Loads(p, s), NEW b \in Fence, "CR" \in b.shows,
         \A i \in Commands(p) : Ends(b, p[i])
  PROVE  Loads(p \o <<b>>, s) /\ Started(p \o <<b>>, s) /\ Closed(p \o <<b>>)
<1> DEFINE r == p \o <<b>>
           L == Len(p)
<1>0. p \in Seq(Item)
  BY DEF Loads
<1>1. Loads(r, s) /\ Started(r, s)
  BY <1>0, LoadsFenced, LoadsStarted
<1>2. \A i \in Commands(r) :
           /\ i \in Commands(p) /\ r[i] = p[i]
           /\ L + 1 \in 1 .. Len(r) /\ i < L + 1 /\ r[L + 1] = b
  BY <1>0, LastFence
<1> HIDE DEF r, L
<1>6. Closed(r)
  BY <1>0, <1>2 DEF Closed
<1> QED
  BY <1>1, <1>6 DEF r

\* UploadDone shows kernels what was loaded before it.
LEMMA UploadDoneCloses ==
  ASSUME NEW s, NEW p, Loads(p, s)
  PROVE  /\ Loads(p \o <<UploadDone>>, s) /\ Started(p \o <<UploadDone>>, s)
         /\ Closed(p \o <<UploadDone>>)
<1>1. \A c \in Command : c.stage = "T" => Ends(UploadDone, c)
  BY StageOf DEF Ends, UploadDone, Barrier, Concerns
<1>2. "CR" \in UploadDone.shows
  BY DEF UploadDone, Barrier
<1>3. \A i \in Commands(p) : p[i] \in Command /\ p[i].stage = "T"
  BY CommandItems DEF Loads
<1> QED
  BY <1>1, <1>2, <1>3, UsualFences, BarrierCloses

\* Copies behind a full barrier.
Opens(b) ==
  Begins(b) /\ b.on = {} /\ "CW" \in b.makes /\ "TR" \in b.shows

\* Stores behind a barrier from kernels to transfers find what kernels wrote.
LEMMA StoresFetched ==
  ASSUME NEW s, NEW p, Stores(p, s), NEW b \in Fence, Opens(b)
  PROVE  Stores(<<b>> \o p, s) /\ Fetched(<<b>> \o p)
<1> DEFINE r == <<b>> \o p
<1>1. <<b>> \in Seq(Item) /\ Len(<<b>>) = 1 /\ <<b>>[1] = b /\ Commands(<<b>>) = {}
  BY FenceAlone
<1>2. /\ Len(r) = 1 + Len(p) /\ r[1] = b /\ Len(p) \in Nat
      /\ \A n \in Commands(r) : \E k \in Commands(p) : n = 1 + k /\ r[n] = p[k]
  <2>1. p \in Seq(Item)
    BY DEF Stores
  <2>2. /\ Len(r) = Len(<<b>>) + Len(p)
        /\ \A n \in 1 .. Len(<<b>>) : r[n] = <<b>>[n]
        /\ \A n \in Commands(r) :
              \/ n \in Commands(<<b>>) /\ r[n] = <<b>>[n]
              \/ \E k \in Commands(p) : n = Len(<<b>>) + k /\ r[n] = p[k]
    BY <1>1, <2>1, Joined
  <2> HIDE DEF r
  <2> QED
    BY <1>1, <2>1, <2>2
<1>3. Stores(r, s)
  BY StoresFenced
<1>4. \A k \in Commands(p) : k \in 1 .. Len(p) /\ Len(p) \in Nat
  BY CommandItems DEF Stores
<1> HIDE DEF r
<1>5. Fetched(r)
  <2> SUFFICES ASSUME NEW n \in Commands(r)
               PROVE  /\ r[n].stage = "T"
                      /\ \E c \in 1 .. Len(r) : /\ c < n /\ Begins(r[c]) /\ r[c].on = {}
                                                /\ "CW" \in r[c].makes /\ "TR" \in r[c].shows
    BY DEF Fetched
  <2>1. 1 \in 1 .. Len(r) /\ 1 < n
    BY <1>2, <1>4
  <2> QED
    BY <1>2, <1>3, <2>1 DEF Stores, Opens
<1> QED
  BY <1>3, <1>5 DEF r

\* More barriers around copies change nothing.
LEMMA FetchedFenced ==
  ASSUME NEW s, NEW p, Stores(p, s), Fetched(p), NEW b \in Fence
  PROVE  Stores(p \o <<b>>, s) /\ Fetched(p \o <<b>>)
<1> DEFINE r == p \o <<b>>
           L == Len(p)
<1>1. p \in Seq(Item) /\ Stores(r, s)
  BY StoresFenced DEF Stores
<1>2. \A i \in Commands(r) :
           /\ i \in Commands(p) /\ r[i] = p[i]
           /\ \A c \in 1 .. L : c \in 1 .. Len(r) /\ r[c] = p[c]
  BY <1>1, LastFence
<1> HIDE DEF r, L
<1>3. Fetched(r)
  BY <1>2 DEF Fetched, L
<1> QED
  BY <1>1, <1>3 DEF r

-----------------------------------------------------------------------------
(* Kernels.                                                                 *)

\* The buffers of a kernel; those the host can see have a first byte.
Fitting(kernel, s) ==
  /\ kernel.reads \subseteq Buffer /\ kernel.writes \subseteq Buffer
  /\ \A b \in kernel.reads \cup kernel.writes : b \in DOMAIN s => 1 <= s[b]

\* A program of kernels that wait for each other.
Kernels(p, s) ==
  /\ Started(p, s) /\ PlainReads(p)
  /\ \A k \in Commands(p) : p[k].stage = "C"

\* A kernel reads and writes whole buffers.
LEMMA DispatchIs ==
  ASSUME NEW kernel, NEW s, Fitting(kernel, s)
  PROVE  /\ Dispatch(kernel) \in Command /\ Dispatch(kernel).stage = "C"
         /\ \A q \in Dispatch(kernel).reads \cup Dispatch(kernel).writes :
              /\ q = Whole(q[1]) /\ q[1] \in kernel.reads \cup kernel.writes
              /\ q[1] \in DOMAIN s => q[3] <= s[q[1]]
<1> DEFINE c == Dispatch(kernel)
<1>1. /\ c.stage = "C" /\ c.reads = {Whole(b) : b \in kernel.reads}
      /\ c.writes = {Whole(b) : b \in kernel.writes}
      /\ c = [stage |-> c.stage, reads |-> c.reads, writes |-> c.writes]
  BY DEF Dispatch
<1>2. \A b \in Buffer : Whole(b) \in Place /\ Whole(b)[1] = b /\ Whole(b)[3] = 1
  BY DEF Whole, Place
<1>3. c.reads \subseteq Place /\ c.writes \subseteq Place
  BY <1>1, <1>2 DEF Fitting
<1>4. c \in Command
  BY <1>1, <1>3 DEF Command, AnyStage
<1>5. ASSUME NEW q \in c.reads \cup c.writes
      PROVE  /\ q = Whole(q[1]) /\ q[1] \in kernel.reads \cup kernel.writes
             /\ q[1] \in DOMAIN s => q[3] <= s[q[1]]
  <2>1. PICK b \in kernel.reads \cup kernel.writes : q = Whole(b)
    BY <1>1
  <2>2. b \in Buffer
    BY DEF Fitting
  <2> QED
    BY <1>2, <2>1, <2>2 DEF Fitting
<1> QED
  BY <1>1, <1>4, <1>5

\* A barrier for kernels keeps two dispatches apart.
LEMMA DispatchesApart ==
  ASSUME NEW p, NEW i \in Nat, NEW k \in Nat, NEW b \in i .. k, i < b, b < k, p[b] = KernelDone,
         p[i].stage = "C", p[k].stage = "C", Covers(p[i], p[k])
  PROVE  Apart(p, i, k)
<1>1. Linked(p, i, k, b, b)
  BY DEF Linked, KernelDone, Barrier
<1>2. WriteAccess(p[i]) \in p[b].makes /\ ReadAccess(p[k]) \in p[b].shows
  BY DEF WriteAccess, ReadAccess, KernelDone, Barrier
<1>3. \A y : Concerns(p[b], y)
  BY DEF Concerns, KernelDone, Barrier
<1>4. Ordered(p, i, k) /\ \A y : Released(p, i, k, y) /\ Visible(p, i, k, y)
  BY <1>1, <1>2, <1>3 DEF Ordered, Released, Visible
<1> QED
  BY <1>4 DEF Apart, Covers

\* A chain is its kernels with the barrier between every two.
LEMMA ChainIs ==
  ASSUME NEW ks, Len(ks) \in Nat
  PROVE  LET p == Chain(ks, KernelDone)
         IN  /\ DOMAIN p = 1 .. 2 * Len(ks) - 1
             /\ \A n \in DOMAIN p :
                  \/ \E m \in 1 .. Len(ks) : n = 2 * m - 1 /\ p[n] = Dispatch(ks[m])
                  \/ \E m \in 1 .. Len(ks) : n = 2 * m /\ p[n] = KernelDone
<1> DEFINE L == Len(ks)
           p == Chain(ks, KernelDone)
<1>1. p = [n \in 1 .. 2 * L - 1 |->
             IF n % 2 = 1 THEN Dispatch(ks[(n + 1) \div 2]) ELSE KernelDone]
  BY DEF Chain
<1> HIDE DEF L
<1>2. ASSUME NEW n \in 1 .. 2 * L - 1
      PROVE  \/ \E m \in 1 .. L : n = 2 * m - 1 /\ p[n] = Dispatch(ks[m])
             \/ \E m \in 1 .. L : n = 2 * m /\ p[n] = KernelDone
  <2>1. L \in Nat /\ (n % 2 = 1 \/ n % 2 = 0)
    BY DEF L
  <2>2. CASE n % 2 = 1
    <3> DEFINE m == (n + 1) \div 2
    <3>1. n = 2 * m - 1 /\ m \in 1 .. L
      BY <2>1, <2>2
    <3>2. p[n] = Dispatch(ks[m])
      BY <1>1, <2>2
    <3> QED
      BY <3>1, <3>2
  <2>3. CASE n % 2 = 0
    <3> DEFINE m == n \div 2
    <3>1. n = 2 * m /\ m \in 1 .. L
      BY <2>1, <2>3
    <3>2. p[n] = KernelDone
      BY <1>1, <2>3
    <3> QED
      BY <3>1, <3>2
  <2> QED
    BY <2>1, <2>2, <2>3
<1>3. DOMAIN p = 1 .. 2 * L - 1
  BY <1>1
<1> HIDE DEF p
<1> QED
  BY <1>2, <1>3 DEF L, p

LEMMA ChainKernels ==
  ASSUME NEW s, NEW ks, Len(ks) \in Nat \ {0}, \A n \in 1 .. Len(ks) : Fitting(ks[n], s)
  PROVE  Kernels(Chain(ks, KernelDone), s)
<1> DEFINE p == Chain(ks, KernelDone)
           L == Len(ks)
           N == 2 * L - 1
<1>1. /\ DOMAIN p = 1 .. N
      /\ \A n \in DOMAIN p :
           \/ \E m \in 1 .. L : n = 2 * m - 1 /\ p[n] = Dispatch(ks[m])
           \/ \E m \in 1 .. L : n = 2 * m /\ p[n] = KernelDone
  BY ChainIs
<1>2. L \in Nat \ {0} /\ \A m \in 1 .. L : Fitting(ks[m], s)
  OBVIOUS
<1>3. p = [n \in 1 .. N |-> p[n]]
  BY DEF Chain
<1> HIDE DEF p, L
<1>4. \A m \in 1 .. L : Dispatch(ks[m]) \in Item /\ Dispatch(ks[m]).stage = "C"
  BY <1>2, DispatchIs DEF Item
<1>5. KernelDone \in Item /\ KernelDone.stage = "barrier"
  BY UsualFences DEF Item, KernelDone, Barrier
<1>6. p \in Seq(Item)
  <2>1. \A n \in 1 .. N : p[n] \in Item
    BY <1>1, <1>4, <1>5
  <2>2. N \in Nat
    BY <1>2
  <2> QED
    BY <1>3, <2>1, <2>2
<1>7. ASSUME NEW n \in Commands(p)
      PROVE  /\ n \in 1 .. N /\ \E m \in 1 .. L : n = 2 * m - 1 /\ p[n] = Dispatch(ks[m])
             /\ p[n].stage = "C"
             /\ \A q \in p[n].reads \cup p[n].writes :
                  q = Whole(q[1]) /\ (q[1] \in DOMAIN s => q[3] <= s[q[1]])
  <2>1. n \in 1 .. N /\ p[n].stage # "barrier"
    BY <1>1 DEF Commands
  <2>2. PICK m \in 1 .. L : n = 2 * m - 1 /\ p[n] = Dispatch(ks[m])
    BY <1>1, <1>5, <2>1
  <2> QED
    BY <1>2, <1>4, <2>1, <2>2, DispatchIs
<1>8. Safe(p)
  <2> SUFFICES ASSUME NEW i \in Commands(p), NEW k \in Commands(p), i < k PROVE Apart(p, i, k)
    BY DEF Safe
  <2>1. PICK m \in 1 .. L : i = 2 * m - 1
    BY <1>7
  <2>2. PICK n \in 1 .. L : k = 2 * n - 1
    BY <1>7
  <2>3. i + 1 \in i .. k /\ i < i + 1 /\ i + 1 < k /\ i + 1 \in 1 .. N /\ i \in Nat /\ k \in Nat
    BY <1>2, <2>1, <2>2
  <2>4. p[i + 1] = KernelDone
    <3>1. \A x \in 1 .. L : i + 1 # 2 * x - 1
      BY <1>2, <2>1
    <3> QED
      BY <1>1, <2>3, <3>1
  <2>5. Covers(p[i], p[k])
    BY <1>7, WholeCovers
  <2> QED
    BY <1>7, <2>3, <2>4, <2>5, DispatchesApart
<1>9. Fits(p, s) /\ Tame(p, s) /\ PlainReads(p)
  BY <1>7 DEF Fits, Tame, PlainReads
<1> QED
  BY <1>6, <1>7, <1>8, <1>9 DEF Kernels, Started, p

\* One dispatch.
LEMMA DispatchKernels ==
  ASSUME NEW s, NEW kernel, Fitting(kernel, s)
  PROVE  Kernels(<<Dispatch(kernel)>>, s)
<1> DEFINE p == <<Dispatch(kernel)>>
<1>1. Dispatch(kernel) \in Command
  BY DispatchIs
<1>2. p \in Seq(Item) /\ Commands(p) \subseteq {1} /\ p[1] = Dispatch(kernel)
  BY <1>1 DEF Item, Commands
<1> HIDE DEF p
<1>3. Safe(p)
  BY <1>2 DEF Safe
<1>4. Fits(p, s) /\ Tame(p, s) /\ PlainReads(p)
  BY <1>2, DispatchIs DEF Fits, Tame, PlainReads
<1>5. \A k \in Commands(p) : p[k].stage = "C"
  BY <1>2, DispatchIs
<1> QED
  BY <1>2, <1>3, <1>4, <1>5 DEF Kernels, Started, p

\* Kernels need nothing before them but a program that is closed.
LEMMA KernelsWait ==
  ASSUME NEW s, NEW p, Kernels(p, s)
  PROVE  Started(p, s) /\ PlainReads(p) /\ Opened(p) /\ ClosedCopies(p) /\ Drained(p)
BY DEF Kernels, Opened, ClosedCopies, Drained

\* Kernels behind what is closed.
LEMMA ThenKernels ==
  ASSUME NEW s, NEW p, NEW q, Started(p, s), Closed(p), Kernels(q, s)
  PROVE  Started(p \o q, s) /\ ClosedCopies(p \o q) /\ Drained(p \o q)
<1>1. Started(q, s) /\ PlainReads(q) /\ Opened(q) /\ ClosedCopies(q) /\ Drained(q)
  BY KernelsWait
<1> QED
  BY <1>1, Continue

-----------------------------------------------------------------------------
(* Copies.                                                                  *)

\* Parts of the device that the host does not see.
Inside(parts, s) ==
  parts \in Seq(Part) /\ \A n \in 1 .. Len(parts) : parts[n][1] \notin DOMAIN s

\* ... each of them once.
Distinct(parts) ==
  \A i, k \in 1 .. Len(parts) : i # k => parts[i][1] # parts[k][1]

\* There is room for the parts from base on.
Room(parts, host, base, s) ==
  host \in Buffer /\ host \in DOMAIN s /\ base \in Nat /\ base + Bytes(parts) <= s[host]
  /\ s[host] \in Nat

LEMMA PartIs ==
  ASSUME NEW s, NEW parts, Inside(parts, s)
  PROVE  /\ Len(parts) \in Nat /\ DOMAIN parts = 1 .. Len(parts)
         /\ \A n \in 1 .. Len(parts) :
              /\ parts[n][1] \in Buffer /\ parts[n][1] \notin DOMAIN s
              /\ Whole(parts[n][1]) \in Place /\ Whole(parts[n][1])[1] = parts[n][1]
<1>1. \A b \in Buffer : Whole(b) \in Place /\ Whole(b)[1] = b
  BY DEF Whole, Place
<1>2. \A n \in 1 .. Len(parts) : parts[n][1] \in Buffer
  BY DEF Inside, Part
<1>3. Len(parts) \in Nat /\ DOMAIN parts = 1 .. Len(parts)
  BY DEF Inside
<1> QED
  BY <1>1, <1>2, <1>3 DEF Inside

\* The parts of a staging buffer do not overlap.
LEMMA HostPlacesApart ==
  ASSUME NEW s, NEW parts, NEW host, NEW base, Inside(parts, s), Room(parts, host, base, s)
  PROVE  /\ \A n \in 1 .. Len(parts) :
              /\ Packed(host, parts, base)[n] \in Place
              /\ Packed(host, parts, base)[n][1] = host
              /\ Packed(host, parts, base)[n][3] <= s[host]
         /\ \A i, k \in 1 .. Len(parts) :
              i < k => ~ Clash(Packed(host, parts, base)[i], Packed(host, parts, base)[k])
<1> DEFINE P == Packed(host, parts, base)
           size == Bytes(parts)
           L == Len(parts)
<1>1. /\ size \in Nat
      /\ \A n \in 1 .. L : P[n] \in Place /\ P[n][1] = host /\ P[n][3] <= base + size
      /\ \A i, k \in 1 .. L : i < k => P[i][3] <= P[k][2]
  BY PlacesPacked, SMTT(30) DEF Inside, Room
<1>2. base \in Nat /\ s[host] \in Nat /\ base + size <= s[host]
  BY DEF Room
<1> HIDE DEF P, size, L
<1>3. \A n \in 1 .. L : P[n][2] \in Nat /\ P[n][3] \in Nat
  BY <1>1 DEF Place
<1>4. \A n \in 1 .. L : P[n][3] <= s[host]
  BY <1>1, <1>2, <1>3
<1>5. \A i, k \in 1 .. L : i < k => ~ Clash(P[i], P[k])
  BY <1>1, <1>3 DEF Clash
<1> QED
  BY <1>1, <1>4, <1>5 DEF P, L

\* Copies from consecutive parts of a host buffer into different buffers.
LEMMA CopyInLoads ==
  ASSUME NEW s, NEW parts, NEW host, NEW base, Inside(parts, s), Distinct(parts),
         Room(parts, host, base, s)
  PROVE  Loads(CopyIn(host, parts, base), s)
<1> DEFINE p == CopyIn(host, parts, base)
           P == Packed(host, parts, base)
           L == Len(parts)
<1>1. /\ L \in Nat /\ DOMAIN parts = 1 .. L
      /\ \A n \in 1 .. L : /\ parts[n][1] \in Buffer /\ parts[n][1] \notin DOMAIN s
                           /\ Whole(parts[n][1]) \in Place /\ Whole(parts[n][1])[1] = parts[n][1]
  BY PartIs
<1>2. /\ \A n \in 1 .. L : P[n] \in Place /\ P[n][1] = host /\ P[n][3] <= s[host]
      /\ \A i, k \in 1 .. L : i < k => ~ Clash(P[i], P[k])
  BY HostPlacesApart
<1>3. host \in DOMAIN s
  BY DEF Room
<1>4. p = [n \in 1 .. L |-> Copy(P[n], Whole(parts[n][1]))]
  BY <1>1 DEF CopyIn
<1> HIDE DEF p, P, L
<1>5. ASSUME NEW n \in 1 .. L
      PROVE  /\ p[n] \in Command /\ p[n].stage = "T"
             /\ p[n].reads = {P[n]} /\ p[n].writes = {Whole(parts[n][1])}
  <2>1. p[n] = [stage |-> "T", reads |-> {P[n]}, writes |-> {Whole(parts[n][1])}]
    BY <1>4 DEF Copy
  <2>2. {P[n]} \in SUBSET Place /\ {Whole(parts[n][1])} \in SUBSET Place
    BY <1>1, <1>2
  <2> QED
    BY <2>1, <2>2 DEF Command, AnyStage
<1>6. p \in Seq(Item) /\ Commands(p) \subseteq 1 .. L
  BY <1>1, <1>4, <1>5 DEF Item, Commands
<1>7. Parallel(p)
  <2> SUFFICES ASSUME NEW i \in 1 .. L, NEW k \in 1 .. L, i < k PROVE Untouched(p[i], p[k])
    BY <1>6 DEF Parallel
  <2>1. parts[i][1] # parts[k][1] /\ parts[i][1] # host /\ parts[k][1] # host
    BY <1>1, <1>3 DEF Distinct, L
  <2> QED
    BY <1>1, <1>2, <1>5, <2>1 DEF Untouched, Clash
<1>8. Fits(p, s)
  BY <1>1, <1>2, <1>5, <1>6 DEF Fits
<1>9. Tame(p, s)
  BY <1>1, <1>5, <1>6 DEF Tame
<1>10. \A n \in Commands(p) : p[n].stage = "T"
  BY <1>5, <1>6
<1> QED
  BY <1>6, <1>7, <1>8, <1>9, <1>10 DEF Loads, p

\* Copies of buffers to consecutive parts of a host buffer.
LEMMA CopyOutStores ==
  ASSUME NEW s, NEW parts, NEW host, NEW base, Inside(parts, s), Room(parts, host, base, s)
  PROVE  Stores(CopyOut(host, parts, base), s)
<1> DEFINE p == CopyOut(host, parts, base)
           P == Packed(host, parts, base)
           L == Len(parts)
<1>1. /\ L \in Nat /\ DOMAIN parts = 1 .. L
      /\ \A n \in 1 .. L : /\ parts[n][1] \in Buffer /\ parts[n][1] \notin DOMAIN s
                           /\ Whole(parts[n][1]) \in Place /\ Whole(parts[n][1])[1] = parts[n][1]
  BY PartIs
<1>2. /\ \A n \in 1 .. L : P[n] \in Place /\ P[n][1] = host /\ P[n][3] <= s[host]
      /\ \A i, k \in 1 .. L : i < k => ~ Clash(P[i], P[k])
  BY HostPlacesApart
<1>3. host \in DOMAIN s
  BY DEF Room
<1>4. p = [n \in 1 .. L |-> Copy(Whole(parts[n][1]), P[n])]
  BY <1>1 DEF CopyOut
<1> HIDE DEF p, P, L
<1>5. ASSUME NEW n \in 1 .. L
      PROVE  /\ p[n] \in Command /\ p[n].stage = "T"
             /\ p[n].writes = {P[n]} /\ p[n].reads = {Whole(parts[n][1])}
  <2>1. p[n] = [stage |-> "T", reads |-> {Whole(parts[n][1])}, writes |-> {P[n]}]
    BY <1>4 DEF Copy
  <2>2. {P[n]} \in SUBSET Place /\ {Whole(parts[n][1])} \in SUBSET Place
    BY <1>1, <1>2
  <2> QED
    BY <2>1, <2>2 DEF Command, AnyStage
<1>6. p \in Seq(Item) /\ Commands(p) \subseteq 1 .. L
  BY <1>1, <1>4, <1>5 DEF Item, Commands
<1>7. Parallel(p)
  <2> SUFFICES ASSUME NEW i \in 1 .. L, NEW k \in 1 .. L, i < k PROVE Untouched(p[i], p[k])
    BY <1>6 DEF Parallel
  <2>1. parts[i][1] # host /\ parts[k][1] # host
    BY <1>1, <1>3
  <2> QED
    BY <1>1, <1>2, <1>5, <2>1 DEF Untouched, Clash
<1>8. Fits(p, s)
  BY <1>1, <1>2, <1>5, <1>6 DEF Fits
<1>9. PlainReads(p)
  BY <1>1, <1>5, <1>6 DEF PlainReads
<1>10. \A n \in Commands(p) : p[n].stage = "T"
  BY <1>5, <1>6
<1> QED
  BY <1>6, <1>7, <1>8, <1>9, <1>10 DEF Stores, p

-----------------------------------------------------------------------------
(* The calls around the graph, for every shape their argument checks let     *)
(* through.                                                                   *)

ApiPart == ApiBuffer \X Nat

\* The calls around the graph have one host buffer.
Alone(size) == [staging |-> size]

\* A call is good in the buffer it allocates.
ApiGood(api) == Good(api.program, Alone(api.staging))

LEMMA ApiPartIs ==
  /\ \A x \in ApiPart : x[1] \in ApiBuffer /\ x[2] \in Nat /\ x \in Part
  /\ \A b \in ApiBuffer : b # "staging" /\ b \in Buffer /\ b \notin HostBuffer
  /\ "staging" \in Buffer /\ "staging" \notin ApiBuffer
BY DEF ApiPart, Part, Buffer, HostBuffer, ApiBuffer

LEMMA AloneIs ==
  ASSUME NEW size
  PROVE  DOMAIN Alone(size) = {"staging"} /\ Alone(size)["staging"] = size
BY DEF Alone

LEMMA InsideApi ==
  ASSUME NEW parts \in Seq(ApiPart), NEW size
  PROVE  /\ Inside(parts, Alone(size)) /\ parts \in Seq(Part)
         /\ Names(parts) \subseteq ApiBuffer /\ Bytes(parts) \in Nat
<1>1. \A n \in 1 .. Len(parts) : parts[n] \in ApiPart
  OBVIOUS
<1>2. Len(parts) \in Nat /\ DOMAIN parts = 1 .. Len(parts) /\ parts = [n \in 1 .. Len(parts) |-> parts[n]]
  OBVIOUS
<1>3. \A n \in 1 .. Len(parts) : parts[n] \in Part /\ parts[n][1] \in ApiBuffer /\ parts[n][1] # "staging"
  BY <1>1, ApiPartIs
<1>4. parts \in Seq(Part)
  BY <1>2, <1>3
<1>5. Bytes(parts) \in Nat
  <2>1. "staging" \in Buffer /\ 0 \in Nat
    BY ApiPartIs
  <2> QED
    BY <1>4, <2>1, PlacesPacked
<1> QED
  BY <1>2, <1>3, <1>4, <1>5, AloneIs DEF Inside, Names

LEMMA RoomApi ==
  ASSUME NEW parts \in Seq(ApiPart), NEW base \in Nat, NEW size \in Nat,
         base + Bytes(parts) <= size
  PROVE  Room(parts, "staging", base, Alone(size))
BY ApiPartIs, AloneIs DEF Room

LEMMA FittingApi ==
  ASSUME NEW kernel, NEW size, kernel.reads \subseteq ApiBuffer, kernel.writes \subseteq ApiBuffer
  PROVE  Fitting(kernel, Alone(size))
BY ApiPartIs, AloneIs DEF Fitting

\* Arguments come in and are ready for any kernel.
LEMMA ArgumentsLoaded ==
  ASSUME NEW parts \in Seq(ApiPart), Distinct(parts), NEW size \in Nat, Bytes(parts) <= size
  PROVE  /\ Started(LoadArguments(parts), Alone(size)) /\ Closed(LoadArguments(parts))
         /\ Loads(LoadArguments(parts), Alone(size))
<1>1. 0 + Bytes(parts) <= size
  BY InsideApi
<1>2. Inside(parts, Alone(size)) /\ Room(parts, "staging", 0, Alone(size))
  BY <1>1, InsideApi, RoomApi
<1>3. Loads(CopyIn("staging", parts, 0), Alone(size))
  BY <1>2, CopyInLoads
<1> QED
  BY <1>3, UploadDoneCloses DEF LoadArguments

\* Results go out behind the kernels.
LEMMA ResultsStored ==
  ASSUME NEW parts \in Seq(ApiPart), NEW base \in Nat, NEW size \in Nat,
         base + Bytes(parts) <= size
  PROVE  /\ Stores(Results(parts, base), Alone(size)) /\ Fetched(Results(parts, base))
         /\ Good(Results(parts, base), Alone(size)) /\ PlainReads(Results(parts, base))
<1>1. Inside(parts, Alone(size)) /\ Room(parts, "staging", base, Alone(size))
  BY InsideApi, RoomApi
<1>2. Stores(CopyOut("staging", parts, base), Alone(size))
  BY <1>1, CopyOutStores
<1>3. ResultDone \in Fence /\ Opens(ResultDone)
  BY UsualFences DEF Opens, Begins, ResultDone, Barrier
<1>4. Stores(Results(parts, base), Alone(size)) /\ Fetched(Results(parts, base))
  BY <1>2, <1>3, StoresFetched DEF Results
<1> QED
  BY <1>4, StoresGood DEF Stores

\* From arguments through kernels to results.
LEMMA StagedGood ==
  ASSUME NEW size \in Nat, NEW args \in Seq(ApiPart), Distinct(args), Bytes(args) <= size,
         NEW q, Kernels(q, Alone(size)),
         NEW results \in Seq(ApiPart), NEW base \in Nat, base + Bytes(results) <= size
  PROVE  /\ Good(LoadArguments(args) \o q \o Results(results, base), Alone(size))
         /\ Good(LoadArguments(args) \o q, Alone(size))
<1>1. Started(LoadArguments(args), Alone(size)) /\ Closed(LoadArguments(args))
  BY ArgumentsLoaded
<1> DEFINE p == LoadArguments(args)
           w == Results(results, base)
           s == Alone(size)
<1>2. Good(w, s) /\ Fetched(w) /\ PlainReads(w)
  BY ResultsStored
<1> HIDE DEF p, w, s
<1>3. Started(p \o q, s) /\ Drained(p \o q)
  BY <1>1, ThenKernels DEF p, s
<1>4. Good((p \o q) \o w, s)
  BY <1>2, <1>3, Finish
<1> QED
  BY <1>3, <1>4, StartedGood DEF p, w, s

\* A one-shot kernel is good if arguments and results fit into its buffer.
LEMMA OneShotGood ==
  ASSUME NEW args \in Seq(ApiPart), Distinct(args), NEW results \in Seq(ApiPart),
         NEW size \in Nat, Bytes(args) + Bytes(results) <= size
  PROVE  Good(OneShot(args, results).program, Alone(size))
<1> DEFINE kernel == [reads |-> Names(args), writes |-> Names(results)]
           q == <<Dispatch(kernel)>>
<1>1. Names(args) \subseteq ApiBuffer /\ Names(results) \subseteq ApiBuffer
      /\ Bytes(args) \in Nat /\ Bytes(results) \in Nat
  BY InsideApi
<1>2. Kernels(q, Alone(size))
  <2>1. kernel.reads \subseteq ApiBuffer /\ kernel.writes \subseteq ApiBuffer
    BY <1>1
  <2> HIDE DEF kernel
  <2>2. Fitting(kernel, Alone(size))
    BY <2>1, FittingApi
  <2> QED
    BY <2>2, DispatchKernels
<1>3. OneShot(args, results).program = LoadArguments(args) \o q \o Results(results, Bytes(args))
  BY DEF OneShot, Call
<1>4. Bytes(args) <= size
  BY <1>1
<1> HIDE DEF q
<1> QED
  BY <1>1, <1>2, <1>3, <1>4, StagedGood

LEMMA OneShotApi ==
  ASSUME NEW args \in Seq(ApiPart), Distinct(args), NEW results \in Seq(ApiPart)
  PROVE  ApiGood(OneShot(args, results))
<1>1. Bytes(args) \in Nat /\ Bytes(results) \in Nat
  BY InsideApi
<1>2. OneShot(args, results).staging = Bytes(args) + Bytes(results)
  BY DEF OneShot, Call
<1>3. Good(OneShot(args, results).program, Alone(Bytes(args) + Bytes(results)))
  BY <1>1, OneShotGood
<1> QED
  BY <1>2, <1>3 DEF ApiGood

\* Lists of parts, and what they add up to.
LEMMA PartsAre ==
  ASSUME NEW x \in ApiPart, NEW y \in ApiPart, NEW z \in ApiPart, NEW u \in ApiPart
  PROVE  /\ <<x>> \in Seq(ApiPart) /\ <<x, y>> \in Seq(ApiPart)
         /\ <<x, y, z>> \in Seq(ApiPart) /\ <<x, y, z, u>> \in Seq(ApiPart)
         /\ Distinct(<<x>>)
         /\ x[1] # y[1] => Distinct(<<x, y>>)
         /\ x[1] # y[1] /\ x[1] # z[1] /\ y[1] # z[1] => Distinct(<<x, y, z>>)
         /\ x[1] # y[1] /\ x[1] # z[1] /\ y[1] # z[1] /\ x[1] # u[1] /\ y[1] # u[1] /\ z[1] # u[1]
              => Distinct(<<x, y, z, u>>)
<1>1. /\ <<x>> \in Seq(ApiPart) /\ <<x, y>> \in Seq(ApiPart)
      /\ <<x, y, z>> \in Seq(ApiPart) /\ <<x, y, z, u>> \in Seq(ApiPart)
  OBVIOUS
<1>2. /\ Distinct(<<x>>)
      /\ x[1] # y[1] => Distinct(<<x, y>>)
  BY DEF Distinct
<1>3. x[1] # y[1] /\ x[1] # z[1] /\ y[1] # z[1] => Distinct(<<x, y, z>>)
  BY DEF Distinct
<1>4. x[1] # y[1] /\ x[1] # z[1] /\ y[1] # z[1] /\ x[1] # u[1] /\ y[1] # u[1] /\ z[1] # u[1]
              => Distinct(<<x, y, z, u>>)
  BY DEF Distinct
<1> QED
  BY <1>1, <1>2, <1>3, <1>4

\* Bytes of a longer list of parts.
LEMMA BytesAppended ==
  ASSUME NEW p \in Seq(ApiPart), NEW x \in ApiPart
  PROVE  Bytes(Append(p, x)) = Bytes(p) + x[2] /\ Bytes(p) \in Nat
<1>1. p \in Seq(Part) /\ Bytes(p) \in Nat
  BY InsideApi
<1>2. x \in Part
  BY ApiPartIs
<1> QED
  BY <1>1, <1>2, BytesStep

LEMMA PartsBytes ==
  ASSUME NEW x \in ApiPart, NEW y \in ApiPart
  PROVE  Bytes(<<x>>) = x[2] /\ Bytes(<<x, y>>) = x[2] + y[2]
<1>1. <<x>> = Append(<<>>, x) /\ <<x, y>> = Append(<<x>>, y)
  OBVIOUS
<1>2. <<>> \in Seq(ApiPart) /\ <<x>> \in Seq(ApiPart) /\ x[2] \in Nat /\ y[2] \in Nat
  BY ApiPartIs
<1>3. Bytes(<<x>>) = x[2]
  <2> DEFINE e == <<>>
             one == <<x>>
  <2>1. e \in Seq(ApiPart) /\ Bytes(e) = 0 /\ one = Append(e, x)
    BY <1>1, <1>2, BytesStep
  <2> HIDE DEF e, one
  <2>2. Bytes(Append(e, x)) = Bytes(e) + x[2]
    BY <2>1, BytesAppended
  <2>3. Bytes(one) = x[2]
    BY <1>2, <2>1, <2>2
  <2> QED
    BY <2>3 DEF one
<1>4. Bytes(<<x, y>>) = x[2] + y[2]
  BY <1>1, <1>2, <1>3, BytesAppended
<1> QED
  BY <1>3, <1>4

LEMMA BytesOfThree ==
  ASSUME NEW x \in ApiPart, NEW y \in ApiPart, NEW z \in ApiPart
  PROVE  Bytes(<<x, y, z>>) = x[2] + y[2] + z[2]
<1>1. <<x, y, z>> = Append(<<x, y>>, z)
  OBVIOUS
<1>2. <<x, y>> \in Seq(ApiPart)
  OBVIOUS
<1> QED
  BY <1>1, <1>2, PartsBytes, BytesAppended

LEMMA BytesOfFour ==
  ASSUME NEW x \in ApiPart, NEW y \in ApiPart, NEW z \in ApiPart, NEW u \in ApiPart
  PROVE  Bytes(<<x, y, z, u>>) = x[2] + y[2] + z[2] + u[2]
<1>1. <<x, y, z, u>> = Append(<<x, y, z>>, u)
  OBVIOUS
<1>2. <<x, y, z>> \in Seq(ApiPart)
  OBVIOUS
<1> DEFINE three == <<x, y, z>>
<1>3. Bytes(three) = x[2] + y[2] + z[2]
  BY BytesOfThree, Zenon
<1>4. three \in Seq(ApiPart) /\ <<x, y, z, u>> = Append(three, u)
  BY <1>1, <1>2
<1> HIDE DEF three
<1>5. Bytes(Append(three, u)) = Bytes(three) + u[2]
  BY <1>4, BytesAppended
<1> QED
  BY <1>3, <1>4, <1>5, Zenon

LEMMA PartOf ==
  ASSUME NEW b \in ApiBuffer, NEW n \in Nat
  PROVE  <<b, n>> \in ApiPart /\ <<b, n>>[1] = b /\ <<b, n>>[2] = n
BY DEF ApiPart

LEMMA FloatsAre ==
  /\ \A n \in Nat : Floats(n) \in Nat /\ Floats(n) = 4 * n
  /\ \A m, n \in Nat : m * n \in Nat /\ Floats(m * n) \in Nat
<1>1. \A m, n \in Nat : m * n \in Nat
  OBVIOUS
<1> QED
  BY <1>1 DEF Floats

LEMMA PairOf ==
  ASSUME NEW a \in ApiBuffer, NEW b \in ApiBuffer, NEW l \in Nat, NEW m \in Nat, a # b
  PROVE  /\ <<<<a, l>>, <<b, m>>>> \in Seq(ApiPart) /\ Distinct(<<<<a, l>>, <<b, m>>>>)
         /\ Bytes(<<<<a, l>>, <<b, m>>>>) = l + m
<1> DEFINE x == <<a, l>>
           y == <<b, m>>
<1>1. x \in ApiPart /\ y \in ApiPart /\ x[1] # y[1] /\ x[2] = l /\ y[2] = m
  BY PartOf
<1> HIDE DEF x, y
<1>2. <<x, y>> \in Seq(ApiPart) /\ Distinct(<<x, y>>) /\ Bytes(<<x, y>>) = l + m
  BY <1>1, PartsAre, PartsBytes
<1> QED
  BY <1>2 DEF x, y

LEMMA SingleOf ==
  ASSUME NEW a \in ApiBuffer, NEW l \in Nat
  PROVE  /\ <<<<a, l>>>> \in Seq(ApiPart) /\ Distinct(<<<<a, l>>>>)
         /\ Bytes(<<<<a, l>>>>) = l
<1> DEFINE x == <<a, l>>
<1>1. x \in ApiPart /\ x[2] = l
  BY PartOf
<1> HIDE DEF x
<1>2. <<x>> \in Seq(ApiPart) /\ Distinct(<<x>>) /\ Bytes(<<x>>) = l
  BY <1>1, PartsAre, PartsBytes
<1> QED
  BY <1>2 DEF x

LEMMA TripleOf ==
  ASSUME NEW a \in ApiBuffer, NEW b \in ApiBuffer, NEW c \in ApiBuffer,
         NEW l \in Nat, NEW m \in Nat, NEW n \in Nat, a # b, a # c, b # c
  PROVE  /\ <<<<a, l>>, <<b, m>>, <<c, n>>>> \in Seq(ApiPart)
         /\ Distinct(<<<<a, l>>, <<b, m>>, <<c, n>>>>)
         /\ Bytes(<<<<a, l>>, <<b, m>>, <<c, n>>>>) = l + m + n
<1> DEFINE x == <<a, l>>
           y == <<b, m>>
           z == <<c, n>>
<1>1. /\ x \in ApiPart /\ y \in ApiPart /\ z \in ApiPart
      /\ x[1] # y[1] /\ x[1] # z[1] /\ y[1] # z[1] /\ x[2] = l /\ y[2] = m /\ z[2] = n
  BY PartOf
<1> HIDE DEF x, y, z
<1>2. <<x, y, z>> \in Seq(ApiPart) /\ Distinct(<<x, y, z>>)
  BY <1>1, PartsAre
<1>3. Bytes(<<x, y, z>>) = x[2] + y[2] + z[2]
  <2>1. x \in ApiPart /\ y \in ApiPart /\ z \in ApiPart
    BY <1>1
  <2> QED
    BY <2>1, BytesOfThree, Zenon
<1>4. Bytes(<<x, y, z>>) = l + m + n
  BY <1>1, <1>3
<1> QED
  BY <1>2, <1>4 DEF x, y, z

LEMMA FourOf ==
  ASSUME NEW a \in ApiBuffer, NEW b \in ApiBuffer, NEW c \in ApiBuffer, NEW d \in ApiBuffer,
         NEW l \in Nat, NEW m \in Nat, NEW n \in Nat, NEW o \in Nat,
         a # b, a # c, b # c, a # d, b # d, c # d
  PROVE  /\ <<<<a, l>>, <<b, m>>, <<c, n>>, <<d, o>>>> \in Seq(ApiPart)
         /\ Distinct(<<<<a, l>>, <<b, m>>, <<c, n>>, <<d, o>>>>)
         /\ Bytes(<<<<a, l>>, <<b, m>>, <<c, n>>, <<d, o>>>>) = l + m + n + o
<1> DEFINE x == <<a, l>>
           y == <<b, m>>
           z == <<c, n>>
           u == <<d, o>>
<1>1. /\ x \in ApiPart /\ y \in ApiPart /\ z \in ApiPart /\ u \in ApiPart
      /\ x[1] # y[1] /\ x[1] # z[1] /\ y[1] # z[1] /\ x[1] # u[1] /\ y[1] # u[1] /\ z[1] # u[1]
      /\ x[2] = l /\ y[2] = m /\ z[2] = n /\ u[2] = o
  BY PartOf
<1> HIDE DEF x, y, z, u
<1>2. <<x, y, z, u>> \in Seq(ApiPart) /\ Distinct(<<x, y, z, u>>)
  BY <1>1, PartsAre
<1>3. Bytes(<<x, y, z, u>>) = x[2] + y[2] + z[2] + u[2]
  <2>1. x \in ApiPart /\ y \in ApiPart /\ z \in ApiPart /\ u \in ApiPart
    BY <1>1
  <2> QED
    BY <2>1, BytesOfFour
<1>4. Bytes(<<x, y, z, u>>) = l + m + n + o
  BY <1>1, <1>3
<1> QED
  BY <1>2, <1>4 DEF x, y, z, u

\* One-shot kernels by the number of their arguments.
LEMMA OneShotOf2 ==
  ASSUME NEW a \in ApiBuffer, NEW b \in ApiBuffer, NEW d \in ApiBuffer, a # b,
         NEW l \in Nat, NEW m \in Nat, NEW n \in Nat
  PROVE  ApiGood(OneShot(<<<<a, l>>, <<b, m>>>>, <<<<d, n>>>>))
BY PairOf, SingleOf, OneShotApi

LEMMA OneShotOf3 ==
  ASSUME NEW a \in ApiBuffer, NEW b \in ApiBuffer, NEW c \in ApiBuffer, NEW d \in ApiBuffer,
         a # b, a # c, b # c, NEW l \in Nat, NEW m \in Nat, NEW n \in Nat, NEW o \in Nat
  PROVE  ApiGood(OneShot(<<<<a, l>>, <<b, m>>, <<c, n>>>>, <<<<d, o>>>>))
BY TripleOf, SingleOf, OneShotApi

LEMMA OneShotOf4 ==
  ASSUME NEW a \in ApiBuffer, NEW b \in ApiBuffer, NEW c \in ApiBuffer, NEW d \in ApiBuffer,
         a # b, a # c, b # c, a # d, b # d, c # d,
         NEW l \in Nat, NEW m \in Nat, NEW n \in Nat, NEW o \in Nat, NEW results \in Seq(ApiPart)
  PROVE  ApiGood(OneShot(<<<<a, l>>, <<b, m>>, <<c, n>>, <<d, o>>>>, results))
BY FourOf, OneShotApi

\* The one-shot kernels, one after the other.
LEMMA AttentionGood ==
  /\ ApiGood(spaceslug_attention) /\ ApiGood(spaceslug_attention_causal)
  /\ \A t \in Nat : ApiGood(spaceslug_attention_causal_backward(t))
<1>1. "q" \in ApiBuffer /\ "k" \in ApiBuffer /\ "v" \in ApiBuffer /\ "dy" \in ApiBuffer
      /\ "out" \in ApiBuffer
  BY DEF ApiBuffer
<1>2. Rows \in Nat
  BY FloatsAre DEF Rows
<1>3. ApiGood(spaceslug_attention) /\ ApiGood(spaceslug_attention_causal)
  BY <1>1, <1>2, OneShotOf3 DEF spaceslug_attention, spaceslug_attention_causal
<1>4. ASSUME NEW t \in Nat
      PROVE  ApiGood(spaceslug_attention_causal_backward(t))
  <2> DEFINE n == Floats(t * 64)
  <2>1. n \in Nat /\ "out" \in ApiBuffer
    BY <1>1, FloatsAre
  <2> HIDE DEF n
  <2>2. <<<<"out", n>>>> \in Seq(ApiPart)
    BY <2>1, SingleOf
  <2>3. ApiGood(OneShot(<<<<"q", n>>, <<"k", n>>, <<"v", n>>, <<"dy", n>>>>, <<<<"out", n>>>>))
    BY <1>1, <2>1, <2>2, OneShotOf4
  <2> QED
    BY <2>3 DEF spaceslug_attention_causal_backward, n
<1> QED
  BY <1>3, <1>4

LEMMA MatrixCallsGood ==
  ASSUME NEW m \in Nat, NEW n \in Nat, NEW k \in Nat
  PROVE  /\ ApiGood(spaceslug_lm_head_backward(m, n, k))
         /\ ApiGood(spaceslug_projection_backward(m, n, k))
         /\ ApiGood(spaceslug_sgemm(m, n, k))
         /\ ApiGood(spaceslug_vector_add)
<1>1. "dl" \in ApiBuffer /\ "w" \in ApiBuffer /\ "dp" \in ApiBuffer /\ "dy" \in ApiBuffer
      /\ "dx" \in ApiBuffer /\ "a" \in ApiBuffer /\ "b" \in ApiBuffer /\ "c" \in ApiBuffer
      /\ "out" \in ApiBuffer
  BY DEF ApiBuffer
<1>2. /\ Floats(m * n) \in Nat /\ Floats(k * n) \in Nat /\ Floats(m * k) \in Nat
      /\ Floats(n * k) \in Nat
  BY FloatsAre
<1>3. ApiGood(spaceslug_lm_head_backward(m, n, k))
  BY <1>1, <1>2, OneShotOf2 DEF spaceslug_lm_head_backward
<1>4. ApiGood(spaceslug_projection_backward(m, n, k))
  BY <1>1, <1>2, OneShotOf2 DEF spaceslug_projection_backward
<1>5. ApiGood(spaceslug_sgemm(m, n, k))
  BY <1>1, <1>2, OneShotOf2 DEF spaceslug_sgemm
<1>6. ApiGood(spaceslug_vector_add)
  <2> DEFINE l == Floats(2 ^ 20)
  <2>1. l \in Nat
    BY FloatsAre
  <2> HIDE DEF l
  <2>2. ApiGood(OneShot(<<<<"a", l>>, <<"b", l>>>>, <<<<"out", l>>>>))
    BY <1>1, <2>1, OneShotOf2
  <2> QED
    BY <2>2 DEF spaceslug_vector_add, l
<1> QED
  BY <1>3, <1>4, <1>5, <1>6

\* The loss is staged with room for two more rows than it needs.
LEMMA LossGood ==
  ASSUME NEW r \in Nat, NEW v \in Nat
  PROVE  ApiGood(spaceslug_causal_loss(r, v))
<1> DEFINE l == Floats(r * v)
           n == Floats(r)
           args == <<<<"logits", l>>, <<"targets", n>>, <<"mask", n>>>>
           results == <<<<"grad", l>>, <<"loss", n>>>>
           one == OneShot(args, results)
           wide == [one EXCEPT !.staging = 2 * l + 4 * n]
<1>1. l \in Nat /\ n \in Nat
  BY FloatsAre
<1>2. "logits" \in ApiBuffer /\ "targets" \in ApiBuffer /\ "mask" \in ApiBuffer
      /\ "grad" \in ApiBuffer /\ "loss" \in ApiBuffer
  BY DEF ApiBuffer
<1>3. wide.program = one.program /\ wide.staging = 2 * l + 4 * n
  BY DEF OneShot, Call
<1>4. spaceslug_causal_loss(r, v) = wide
  BY DEF spaceslug_causal_loss
<1> HIDE DEF l, n
<1>5. args \in Seq(ApiPart) /\ Distinct(args) /\ Bytes(args) = l + n + n
  BY <1>1, <1>2, TripleOf
<1>6. results \in Seq(ApiPart) /\ Bytes(results) = l + n
  BY <1>1, <1>2, PairOf
<1>7. 2 * l + 4 * n \in Nat /\ (l + n + n) + (l + n) <= 2 * l + 4 * n
  BY <1>1
<1> HIDE DEF args, results
<1>8. Good(one.program, Alone(2 * l + 4 * n))
  BY <1>5, <1>6, <1>7, OneShotGood
<1> QED
  BY <1>3, <1>4, <1>8 DEF ApiGood

LEMMA FactorIs == \A r \in Nat : Factor(r) \in Nat /\ Factor(r) = 256 * r /\ 4 * Factor(r) \in Nat
BY DEF Factor, Floats

LEMMA LoraCallsGood ==
  ASSUME NEW m \in Nat, NEW r \in Nat
  PROVE  /\ ApiGood(spaceslug_lora_delta(m, r))
         /\ ApiGood(spaceslug_lora_gradients(m, r))
         /\ ApiGood(spaceslug_lora_gradients_multi(m, r))
<1> DEFINE x == Floats(m * 64)
           f == Factor(r)
           g == 4 * Factor(r)
<1>1. "x" \in ApiBuffer /\ "a" \in ApiBuffer /\ "b" \in ApiBuffer /\ "y" \in ApiBuffer
      /\ "dy" \in ApiBuffer /\ "da" \in ApiBuffer /\ "db" \in ApiBuffer
  BY DEF ApiBuffer
<1>2. x \in Nat /\ f \in Nat /\ g \in Nat
  BY FloatsAre, FactorIs
<1> HIDE DEF x, f, g
<1>3. ApiGood(OneShot(<<<<"x", x>>, <<"a", f>>, <<"b", f>>>>, <<<<"y", x>>>>))
  BY <1>1, <1>2, OneShotOf3
<1>4. <<<<"da", f>>, <<"db", f>>>> \in Seq(ApiPart) /\ <<<<"da", g>>, <<"db", g>>>> \in Seq(ApiPart)
  BY <1>1, <1>2, PairOf
<1>5. ApiGood(OneShot(<<<<"x", x>>, <<"dy", x>>, <<"a", f>>, <<"b", f>>>>,
                      <<<<"da", f>>, <<"db", f>>>>))
  BY <1>1, <1>2, <1>4, OneShotOf4
<1>6. ApiGood(OneShot(<<<<"x", x>>, <<"dy", x>>, <<"a", g>>, <<"b", g>>>>,
                      <<<<"da", g>>, <<"db", g>>>>))
  BY <1>1, <1>2, <1>4, OneShotOf4
<1> QED
  BY <1>3, <1>5, <1>6
     DEF spaceslug_lora_delta, spaceslug_lora_gradients, spaceslug_lora_gradients_multi, x, f, g

\* The first two of four parts.
LEMMA Halves ==
  ASSUME NEW x \in ApiPart, NEW y \in ApiPart, NEW z \in ApiPart, NEW u \in ApiPart
  PROVE  SubSeq(<<x, y, z, u>>, 1, 2) = <<x, y>> /\ SubSeq(<<x, y, z, u>>, 3, 4) = <<z, u>>
<1> DEFINE s == <<x, y, z, u>>
           l == SubSeq(s, 1, 2)
           h == SubSeq(s, 3, 4)
<1>1. s[1] = x /\ s[2] = y /\ s[3] = z /\ s[4] = u
  OBVIOUS
<1>2. \A i \in 1 .. 4 : s[i] \in ApiPart
  BY <1>1
<1> HIDE DEF s
<1>3. l \in Seq(ApiPart) /\ Len(l) = 2 /\ \A i \in 1 .. 2 : l[i] = s[i]
  BY <1>2, SubSeqProperties
<1>4. h \in Seq(ApiPart) /\ Len(h) = 2 /\ \A i \in 1 .. 2 : h[i] = s[2 + i]
  BY <1>2, SubSeqProperties
<1> HIDE DEF l, h
<1>5. l = <<x, y>>
  BY <1>1, <1>3
<1>6. h = <<z, u>>
  BY <1>1, <1>4
<1> QED
  BY <1>5, <1>6 DEF l, h, s

LEMMA Regroup ==
  ASSUME NEW p \in Seq(Item), NEW q \in Seq(Item), NEW r \in Seq(Item)
  PROVE  (p \o q) \o r = p \o (q \o r)
BY ConcatAssociative, SMTT(30)

LEMMA BarrierAndDispatch ==
  ASSUME NEW p, NEW s, Loads(p, s), NEW b \in Fence, "CR" \in b.shows,
         \A i \in Commands(p) : Ends(b, p[i]), NEW kernel, Fitting(kernel, s)
  PROVE  LET q == p \o <<b, Dispatch(kernel)>> IN Started(q, s) /\ Drained(q)
<1> DEFINE k == <<Dispatch(kernel)>>
           both == <<b, Dispatch(kernel)>>
<1>1. Started(p \o <<b>>, s) /\ Closed(p \o <<b>>)
  BY BarrierCloses
<1>2. Kernels(k, s)
  BY DispatchKernels
<1>3. p \in Seq(Item) /\ <<b>> \in Seq(Item) /\ k \in Seq(Item)
  BY <1>2, FenceAlone, KernelsWait DEF Loads, Started
<1>4. both = <<b>> \o k
  OBVIOUS
<1> HIDE DEF k, both
<1>5. p \o both = (p \o <<b>>) \o k
  <2> DEFINE f == <<b>>
  <2>1. f \in Seq(Item) /\ both = f \o k
    BY <1>3, <1>4
  <2> HIDE DEF f
  <2>2. p \o (f \o k) = (p \o f) \o k
    BY <1>3, <2>1, Regroup
  <2> QED
    BY <2>1, <2>2 DEF f
<1>6. Started((p \o <<b>>) \o k, s) /\ Drained((p \o <<b>>) \o k)
  BY <1>1, <1>2, ThenKernels
<1> QED
  BY <1>5, <1>6 DEF both

\* What loading parts reads and writes.
LEMMA CopiesTouch ==
  ASSUME NEW s, NEW parts, NEW host, NEW base, Inside(parts, s), Room(parts, host, base, s)
  PROVE  /\ \A k \in Commands(CopyIn(host, parts, base)) :
              /\ \A q \in CopyIn(host, parts, base)[k].reads : q[1] = host
              /\ \A q \in CopyIn(host, parts, base)[k].writes : q[1] \in Names(parts)
         /\ \A k \in Commands(CopyOut(host, parts, base)) :
              /\ \A q \in CopyOut(host, parts, base)[k].reads : q[1] \in Names(parts)
              /\ \A q \in CopyOut(host, parts, base)[k].writes :
                    q \in {Packed(host, parts, base)[n] : n \in DOMAIN parts} /\ q[1] = host
<1> DEFINE P == Packed(host, parts, base)
           L == Len(parts)
           in == CopyIn(host, parts, base)
           out == CopyOut(host, parts, base)
<1>1. /\ L \in Nat /\ DOMAIN parts = 1 .. L
      /\ \A n \in 1 .. L : Whole(parts[n][1])[1] = parts[n][1]
  BY PartIs
<1>2. \A n \in 1 .. L : P[n][1] = host
  BY HostPlacesApart
<1>3. in = [n \in 1 .. L |-> Copy(P[n], Whole(parts[n][1]))]
      /\ out = [n \in 1 .. L |-> Copy(Whole(parts[n][1]), P[n])]
  BY <1>1 DEF CopyIn, CopyOut
<1>4. Names(parts) = {parts[n][1] : n \in 1 .. L}
  BY <1>1 DEF Names
<1>5. {Packed(host, parts, base)[n] : n \in DOMAIN parts} = {P[n] : n \in 1 .. L}
  BY <1>1
<1> HIDE DEF in, out, P, L
<1>6. \A n \in 1 .. L : /\ in[n].reads = {P[n]} /\ in[n].writes = {Whole(parts[n][1])}
                        /\ out[n].writes = {P[n]} /\ out[n].reads = {Whole(parts[n][1])}
  BY <1>3 DEF Copy
<1>7. Commands(in) \subseteq 1 .. L /\ Commands(out) \subseteq 1 .. L
  BY <1>3 DEF Commands
<1>8. \A k \in Commands(in) : /\ \A q \in in[k].reads : q[1] = host
                              /\ \A q \in in[k].writes : q[1] \in Names(parts)
  BY <1>1, <1>2, <1>4, <1>6, <1>7
<1>9. \A k \in Commands(out) : /\ \A q \in out[k].reads : q[1] \in Names(parts)
                               /\ \A q \in out[k].writes : q \in {P[n] : n \in 1 .. L} /\ q[1] = host
  BY <1>1, <1>2, <1>4, <1>6, <1>7
<1> QED
  BY <1>5, <1>8, <1>9 DEF in, out

LEMMA ApiCopiesIn ==
  ASSUME NEW parts \in Seq(ApiPart), Distinct(parts), NEW base \in Nat, NEW size \in Nat,
         base + Bytes(parts) <= size
  PROVE  /\ Loads(CopyIn("staging", parts, base), Alone(size))
         /\ Good(CopyIn("staging", parts, base), Alone(size))
<1>1. Inside(parts, Alone(size)) /\ Room(parts, "staging", base, Alone(size))
  BY InsideApi, RoomApi
<1>2. Loads(CopyIn("staging", parts, base), Alone(size))
  BY <1>1, CopyInLoads
<1> QED
  BY <1>2, LoadsStarted, StartedGood

\* A kernel right behind its arguments and one barrier, then the results.
LEMMA OneKernelGood ==
  ASSUME NEW p, NEW size \in Nat, Loads(p, Alone(size)), NEW b \in Fence, "CR" \in b.shows,
         \A i \in Commands(p) : Ends(b, p[i]),
         NEW kernel, kernel.reads \subseteq ApiBuffer, kernel.writes \subseteq ApiBuffer,
         NEW results \in Seq(ApiPart), NEW base \in Nat, base + Bytes(results) <= size
  PROVE  Good((p \o <<b, Dispatch(kernel)>>) \o Results(results, base), Alone(size))
<1>1. Fitting(kernel, Alone(size))
  BY FittingApi
<1> DEFINE q == p \o <<b, Dispatch(kernel)>>
           w == Results(results, base)
<1>2. Started(q, Alone(size)) /\ Drained(q)
  BY <1>1, BarrierAndDispatch
<1>3. Good(w, Alone(size)) /\ Fetched(w) /\ PlainReads(w)
  BY ResultsStored
<1> HIDE DEF q, w
<1>4. Good(q \o w, Alone(size))
  BY <1>2, <1>3, Finish
<1> QED
  BY <1>4 DEF q, w

LEMMA UploadEnds ==
  ASSUME NEW p, NEW s, Loads(p, s), NEW b,
         b = UploadDone \/ b = Barrier({"T"}, {"C"}, {"TW"}, {"CR", "CW"}, {})
  PROVE  /\ b \in Fence /\ "CR" \in b.shows
         /\ \A i \in Commands(p) : Ends(b, p[i])
<1>1. /\ b.stage = "barrier" /\ "T" \in b.from /\ "C" \in b.to /\ "TW" \in b.makes
      /\ b.on = {} /\ "CR" \in b.shows /\ b \in Fence
  <2>1. CASE b = UploadDone
    BY <2>1, UsualFences DEF UploadDone, Barrier
  <2>2. CASE b = Barrier({"T"}, {"C"}, {"TW"}, {"CR", "CW"}, {})
    <3>1. {"T"} \in SUBSET AnyStage /\ {"C"} \in SUBSET AnyStage /\ {"TW"} \in SUBSET AnyAccess
          /\ {"CR", "CW"} \in SUBSET AnyAccess /\ {} \in SUBSET Buffer
      BY DEF AnyStage, AnyAccess
    <3>2. b \in Fence
      BY <2>2, <3>1, BarrierFence
    <3> QED
      BY <2>2, <3>2 DEF Barrier
  <2> QED
    BY <2>1, <2>2
<1>2. \A i \in Commands(p) : p[i].stage = "T"
  BY DEF Loads
<1> QED
  BY <1>1, <1>2 DEF Ends, WriteAccess, Concerns

\* An update in place: the kernel waits for its arguments whatever it does
\* with them, and its results may go where they were staged.
LEMMA InPlaceApi ==
  ASSUME NEW x \in ApiPart, NEW y \in ApiPart, NEW z \in ApiPart, NEW u \in ApiPart,
         Distinct(<<x, y, z, u>>), NEW size \in Nat, NEW base \in Nat,
         x[2] + y[2] + z[2] + u[2] <= size, base + x[2] + y[2] <= size
  PROVE  ApiGood(InPlace(<<x, y, z, u>>, size, base))
<1> DEFINE args == <<x, y, z, u>>
           updated == <<x, y>>
           kernel == [reads |-> Names(args), writes |-> Names(updated)]
           b == Barrier({"T"}, {"C"}, {"TW"}, {"CR", "CW"}, {})
           p == CopyIn("staging", args, 0)
<1>1. args \in Seq(ApiPart) /\ updated \in Seq(ApiPart)
  BY PartsAre
<1>2. Bytes(args) = x[2] + y[2] + z[2] + u[2]
  BY BytesOfFour
<1>3. Bytes(updated) = x[2] + y[2]
  BY PartsBytes
<1>4. SubSeq(args, 1, 2) = updated
  BY Halves
<1>5. x[2] \in Nat /\ y[2] \in Nat /\ z[2] \in Nat /\ u[2] \in Nat
  BY ApiPartIs
<1> HIDE DEF args, updated
<1>6. 0 + Bytes(args) <= size /\ base + Bytes(updated) <= size
  BY <1>2, <1>3, <1>5
<1>7. Names(args) \subseteq ApiBuffer /\ Names(updated) \subseteq ApiBuffer
  BY <1>1, InsideApi
<1>8. Distinct(args)
  BY DEF args
<1>9. Loads(p, Alone(size))
  BY <1>1, <1>6, <1>8, ApiCopiesIn
<1>10. b \in Fence /\ "CR" \in b.shows /\ \A i \in Commands(p) : Ends(b, p[i])
  BY <1>9, UploadEnds
<1>11. kernel.reads \subseteq ApiBuffer /\ kernel.writes \subseteq ApiBuffer
  BY <1>7
<1>12. InPlace(args, size, base).program
         = (p \o <<b, Dispatch(kernel)>>) \o Results(updated, base)
  BY <1>4 DEF InPlace, Call
<1>13. InPlace(args, size, base).staging = size
  BY DEF InPlace, Call
<1> HIDE DEF p, b, kernel
<1>14. Good((p \o <<b, Dispatch(kernel)>>) \o Results(updated, base), Alone(size))
  BY <1>1, <1>6, <1>9, <1>10, <1>11, OneKernelGood
<1>15. ApiGood(InPlace(args, size, base))
  BY <1>12, <1>13, <1>14 DEF ApiGood
<1> QED
  BY <1>15 DEF args

\* lora_sgd_multi returns the factors where they were staged.
LEMMA UpdatesGood ==
  ASSUME NEW r \in Nat
  PROVE  ApiGood(spaceslug_lora_sgd(r)) /\ ApiGood(spaceslug_lora_sgd_multi(r))
<1> DEFINE f == Factor(r)
           g == 4 * Factor(r)
<1>1. "a" \in ApiBuffer /\ "b" \in ApiBuffer /\ "da" \in ApiBuffer /\ "db" \in ApiBuffer
  BY DEF ApiBuffer
<1>2. f \in Nat /\ g \in Nat
  BY FactorIs
<1> HIDE DEF f, g
<1>3. ASSUME NEW n \in Nat, NEW size \in Nat, NEW base \in Nat, 4 * n <= size, base + 2 * n <= size
      PROVE  ApiGood(InPlace(<<<<"a", n>>, <<"b", n>>, <<"da", n>>, <<"db", n>>>>, size, base))
  <2> DEFINE x == <<"a", n>>
             y == <<"b", n>>
             z == <<"da", n>>
             u == <<"db", n>>
  <2>1. /\ x \in ApiPart /\ y \in ApiPart /\ z \in ApiPart /\ u \in ApiPart
        /\ x[2] = n /\ y[2] = n /\ z[2] = n /\ u[2] = n
    BY <1>1, PartOf
  <2>2. Distinct(<<x, y, z, u>>)
    BY <1>1, FourOf
  <2> HIDE DEF x, y, z, u
  <2>3. x[2] + y[2] + z[2] + u[2] <= size /\ base + x[2] + y[2] <= size
    BY <1>3, <2>1
  <2>4. ApiGood(InPlace(<<x, y, z, u>>, size, base))
    BY <2>1, <2>2, <2>3, InPlaceApi
  <2> QED
    BY <2>4 DEF x, y, z, u
<1>4. /\ 6 * f \in Nat /\ 4 * f \in Nat /\ 4 * g \in Nat /\ 0 \in Nat
      /\ 4 * f <= 6 * f /\ 4 * f + 2 * f <= 6 * f /\ 4 * g <= 4 * g /\ 0 + 2 * g <= 4 * g
  BY <1>2
<1>5. ApiGood(InPlace(<<<<"a", f>>, <<"b", f>>, <<"da", f>>, <<"db", f>>>>, 6 * f, 4 * f))
  BY <1>2, <1>3, <1>4
<1>6. ApiGood(InPlace(<<<<"a", g>>, <<"b", g>>, <<"da", g>>, <<"db", g>>>>, 4 * g, 0))
  BY <1>2, <1>3, <1>4
<1> QED
  BY <1>5, <1>6 DEF spaceslug_lora_sgd, spaceslug_lora_sgd_multi, f, g

LEMMA PrototypeGood == ApiGood(ImmutableCommandPrototype)
<1>1. /\ <<"tokens", 32>> \in ApiPart /\ <<"targets", 32>> \in ApiPart /\ <<"mask", 32>> \in ApiPart
      /\ <<"doutput", 32>> \in ApiPart /\ <<"learning", 8>> \in ApiPart
      /\ <<"control", 36>> \in ApiPart /\ <<"output", 16>> \in ApiPart
  BY DEF ApiPart, ApiBuffer
<1>2. <<<<"output", 16>>>> \in Seq(ApiPart)
  BY <1>1
<1> DEFINE args == <<<<"tokens", 32>>, <<"targets", 32>>, <<"mask", 32>>, <<"doutput", 32>>,
                     <<"learning", 8>>, <<"control", 36>>>>
<1>3. args \in Seq(ApiPart)
  BY <1>1
<1>4. Len(args) = 6 /\ args[1][1] = "tokens" /\ args[2][1] = "targets" /\ args[3][1] = "mask"
      /\ args[4][1] = "doutput" /\ args[5][1] = "learning" /\ args[6][1] = "control"
  OBVIOUS
<1>5. Distinct(args)
  <2> HIDE DEF args
  <2>1. \A i \in 1 .. Len(args) : i = 1 \/ i = 2 \/ i = 3 \/ i = 4 \/ i = 5 \/ i = 6
    BY <1>4
  <2> QED
    BY <1>4, <2>1 DEF Distinct
<1> HIDE DEF args
<1>6. ApiGood(OneShot(args, <<<<"output", 16>>>>))
  BY <1>2, <1>3, <1>5, OneShotApi
<1> QED
  BY <1>6 DEF ImmutableCommandPrototype, args

\* The programs that only load, or only store, keep within their buffer.
LEMMA LoadApi ==
  ASSUME NEW parts \in Seq(ApiPart), Distinct(parts), NEW size \in Nat, Bytes(parts) <= size
  PROVE  Good(LoadArguments(parts), Alone(size))
BY ArgumentsLoaded, StartedGood

LEMMA ChainApi ==
  ASSUME NEW ks, Len(ks) \in Nat \ {0}, NEW size,
         \A n \in 1 .. Len(ks) : ks[n].reads \subseteq ApiBuffer /\ ks[n].writes \subseteq ApiBuffer
  PROVE  Kernels(Chain(ks, KernelDone), Alone(size))
BY FittingApi, ChainKernels

\* The three kernels of a session's step.
LEMMA SessionKernels ==
  ASSUME NEW size
  PROVE  Kernels(Chain(<<[reads |-> {"x", "a", "b"}, writes |-> {"y"}],
                         [reads |-> {"x", "dy", "a", "b"}, writes |-> {"da", "db"}],
                         [reads |-> {"a", "b", "da", "db"}, writes |-> {"a", "b"}]>>, KernelDone),
                 Alone(size))
<1> DEFINE delta == [reads |-> {"x", "a", "b"}, writes |-> {"y"}]
           gradients == [reads |-> {"x", "dy", "a", "b"}, writes |-> {"da", "db"}]
           sgd == [reads |-> {"a", "b", "da", "db"}, writes |-> {"a", "b"}]
           ks == <<delta, gradients, sgd>>
<1>1. "a" \in ApiBuffer /\ "b" \in ApiBuffer /\ "x" \in ApiBuffer /\ "y" \in ApiBuffer
      /\ "dy" \in ApiBuffer /\ "da" \in ApiBuffer /\ "db" \in ApiBuffer
  BY DEF ApiBuffer
<1>2. Len(ks) = 3 /\ ks[1] = delta /\ ks[2] = gradients /\ ks[3] = sgd
  OBVIOUS
<1>3. /\ delta.reads \subseteq ApiBuffer /\ delta.writes \subseteq ApiBuffer
      /\ gradients.reads \subseteq ApiBuffer /\ gradients.writes \subseteq ApiBuffer
      /\ sgd.reads \subseteq ApiBuffer /\ sgd.writes \subseteq ApiBuffer
  BY <1>1
<1> HIDE DEF delta, gradients, sgd
<1>4. \A n \in 1 .. Len(ks) : ks[n].reads \subseteq ApiBuffer /\ ks[n].writes \subseteq ApiBuffer
  BY <1>2, <1>3
<1> HIDE DEF ks
<1>a. Len(ks) \in Nat \ {0}
  BY <1>2
<1>5. Kernels(Chain(ks, KernelDone), Alone(size))
  BY <1>a, <1>4, ChainApi
<1> QED
  BY <1>5 DEF ks, delta, gradients, sgd

\* The session: results behind the inputs, with or without the delta, for which
\* there is room with few rows, or would be in a larger buffer.
LEMMA SessionCallsGood ==
  ASSUME NEW m \in Nat, NEW r \in Nat
  PROVE  /\ ApiGood(spaceslug_lora_session_create(m, r))
         /\ ApiGood(spaceslug_lora_session_step(m, r, FALSE))
         /\ m <= 4 * r => ApiGood(spaceslug_lora_session_step(m, r, TRUE))
         /\ Good(spaceslug_lora_session_step(m, r, TRUE).program,
                 Alone(SessionStaging(m, r) + Floats(m * 64)))
         /\ ApiGood(spaceslug_lora_session_readback(m, r))
<1> DEFINE f == Factor(r)
           x == Floats(m * 64)
           size == SessionStaging(m, r)
           factors == Factors(r)
           args == <<<<"x", x>>, <<"dy", x>>>>
           delta == [reads |-> {"x", "a", "b"}, writes |-> {"y"}]
           gradients == [reads |-> {"x", "dy", "a", "b"}, writes |-> {"da", "db"}]
           sgd == [reads |-> {"a", "b", "da", "db"}, writes |-> {"a", "b"}]
           ks == <<delta, gradients, sgd>>
           q == Chain(ks, KernelDone)
           y == <<<<"y", x>>>>
           none == <<>>
<1>1. /\ f \in Nat /\ f = 256 * r /\ x \in Nat /\ x = 256 * m /\ size \in Nat
      /\ size = 4 * f + 2 * x
  BY FactorIs, FloatsAre DEF SessionStaging
<1>2. "a" \in ApiBuffer /\ "b" \in ApiBuffer /\ "x" \in ApiBuffer /\ "y" \in ApiBuffer
      /\ "dy" \in ApiBuffer /\ "da" \in ApiBuffer /\ "db" \in ApiBuffer
  BY DEF ApiBuffer
<1>a. none \in Seq(ApiPart) /\ Bytes(none) = 0
  BY BytesStep
<1>4. Kernels(q, Alone(size)) /\ Kernels(q, Alone(size + x))
  BY SessionKernels
<1>5. factors = <<<<"a", f>>, <<"b", f>>>>
  BY DEF Factors
<1>6. /\ spaceslug_lora_session_create(m, r).program = LoadArguments(factors)
      /\ spaceslug_lora_session_create(m, r).staging = size
      /\ spaceslug_lora_session_readback(m, r).program = Results(factors, 2 * f + 2 * x)
      /\ spaceslug_lora_session_readback(m, r).staging = size
  BY DEF spaceslug_lora_session_create, spaceslug_lora_session_readback, Call
<1>7. /\ spaceslug_lora_session_step(m, r, FALSE).program
           = LoadArguments(args) \o q \o Results(none, 2 * x)
      /\ spaceslug_lora_session_step(m, r, TRUE).program
           = LoadArguments(args) \o q \o Results(y, 2 * x)
      /\ spaceslug_lora_session_step(m, r, FALSE).staging = size
      /\ spaceslug_lora_session_step(m, r, TRUE).staging = size
  BY DEF spaceslug_lora_session_step, Call
<1> HIDE DEF f, x, size, factors, q, none
<1>8. factors \in Seq(ApiPart) /\ Distinct(factors) /\ Bytes(factors) = f + f
  BY <1>1, <1>2, <1>5, PairOf
<1>9. args \in Seq(ApiPart) /\ Distinct(args) /\ Bytes(args) = x + x
  BY <1>1, <1>2, PairOf
<1>10. y \in Seq(ApiPart) /\ Bytes(y) = x
  BY <1>1, <1>2, SingleOf
<1> HIDE DEF args, y
<1>11. Good(LoadArguments(factors), Alone(size))
  <2>1. Bytes(factors) <= size
    BY <1>1, <1>8
  <2> QED
    BY <1>1, <1>8, <2>1, LoadApi
<1>12. Good(Results(factors, 2 * f + 2 * x), Alone(size))
  <2>1. 2 * f + 2 * x \in Nat /\ (2 * f + 2 * x) + Bytes(factors) <= size
    BY <1>1, <1>8
  <2> QED
    BY <1>1, <1>8, <2>1, ResultsStored
<1>13. 2 * x \in Nat /\ Bytes(args) <= size /\ 2 * x + Bytes(none) <= size
  BY <1>1, <1>9, <1>a
<1>14. Good(LoadArguments(args) \o q \o Results(none, 2 * x), Alone(size))
  BY <1>1, <1>4, <1>9, <1>13, <1>a, StagedGood
<1>15. ASSUME m <= 4 * r
       PROVE  Good(LoadArguments(args) \o q \o Results(y, 2 * x), Alone(size))
  <2>1. 2 * x + Bytes(y) <= size
    BY <1>1, <1>10, <1>15
  <2> QED
    BY <1>1, <1>4, <1>9, <1>10, <1>13, <2>1, StagedGood
<1>16. Good(LoadArguments(args) \o q \o Results(y, 2 * x), Alone(size + x))
  <2>1. size + x \in Nat /\ Bytes(args) <= size + x /\ 2 * x + Bytes(y) <= size + x
    BY <1>1, <1>9, <1>10
  <2> QED
    BY <1>1, <1>4, <1>9, <1>10, <1>13, <2>1, StagedGood
<1>17. /\ Good(spaceslug_lora_session_step(m, r, TRUE).program, Alone(SessionStaging(m, r) + Floats(m * 64)))
  BY <1>7, <1>16 DEF size, x
<1> QED
  BY <1>6, <1>7, <1>11, <1>12, <1>14, <1>15, <1>17 DEF ApiGood

\* The dataset batch buffer, uploaded before or with its processing.
LEMMA BatchCallsGood ==
  ASSUME NEW w \in Nat, NEW t \in Nat
  PROVE  /\ ApiGood(BatchBuffer_upload(w, t))
         /\ ApiGood(BatchBuffer_process_readback(w, t))
         /\ ApiGood(BatchBuffer_process(w, t))
<1> DEFINE n == Floats(w * t)
           l == Floats(w)
           windows == Windows(w, t)
           metrics == Metrics(w)
           base == Bytes(windows)
           size == BatchStaging(w, t)
           kernel == [reads |-> Names(windows), writes |-> {"results"}]
           k == <<UploadDone, Dispatch(kernel)>>
           p == CopyIn("staging", windows, 0)
           v == Results(metrics, base)
           none == <<>>
<1>1. n \in Nat /\ l \in Nat /\ 2 * l \in Nat
  BY FloatsAre
<1>2. "tokens" \in ApiBuffer /\ "targets" \in ApiBuffer /\ "masks" \in ApiBuffer
      /\ "controls" \in ApiBuffer /\ "results" \in ApiBuffer
  BY DEF ApiBuffer
<1>3. windows = <<<<"tokens", n>>, <<"targets", n>>, <<"masks", n>>, <<"controls", l>>>>
      /\ metrics = <<<<"results", 2 * l>>>>
  BY DEF Windows, Metrics
<1>4. size = Bytes(windows) + Bytes(metrics)
  BY DEF BatchStaging
<1>5. /\ BatchBuffer_upload(w, t).program = p /\ BatchBuffer_upload(w, t).staging = size
      /\ BatchBuffer_process_readback(w, t).program = k \o v
      /\ BatchBuffer_process_readback(w, t).staging = size
      /\ BatchBuffer_process(w, t).program = p \o (k \o v)
      /\ BatchBuffer_process(w, t).staging = size
  BY DEF BatchBuffer_upload, BatchBuffer_process_readback, BatchBuffer_process, ProcessWindows, Call
<1> HIDE DEF n, l, windows, metrics, size
<1>6. windows \in Seq(ApiPart) /\ Distinct(windows)
  BY <1>1, <1>2, <1>3, FourOf
<1>7. metrics \in Seq(ApiPart)
  BY <1>1, <1>2, <1>3, SingleOf
<1>8. Bytes(windows) \in Nat /\ Bytes(metrics) \in Nat /\ Names(windows) \subseteq ApiBuffer
  BY <1>6, <1>7, InsideApi
<1>9. size \in Nat /\ 0 + Bytes(windows) <= size /\ base \in Nat /\ base + Bytes(metrics) <= size
  BY <1>4, <1>8
<1>10. kernel.reads \subseteq ApiBuffer /\ kernel.writes \subseteq ApiBuffer
  BY <1>2, <1>8
<1> HIDE DEF base, kernel
<1>11. Loads(p, Alone(size)) /\ Good(p, Alone(size))
  BY <1>6, <1>9, ApiCopiesIn
<1>12. v \in Seq(Item)
  BY <1>7, <1>9, ResultsStored DEF Good
<1>13. Fitting(kernel, Alone(size))
  BY <1>10, FittingApi
<1>14. Dispatch(kernel) \in Item /\ UploadDone \in Item
  BY <1>13, DispatchIs, UsualFences DEF Item
<1>15. k \in Seq(Item) /\ none \in Seq(Item)
  BY <1>14
<1>16. p \in Seq(Item)
  BY <1>11 DEF Good
<1>17. Loads(none, Alone(size))
  <2>1. Commands(none) = {}
    BY DEF Commands
  <2> HIDE DEF none
  <2> QED
    BY <1>15, <2>1 DEF Loads, Parallel, Fits, Tame
<1>18. none \o k = k
  BY <1>15
<1> HIDE DEF p, none
<1>19. Good((p \o k) \o v, Alone(size))
  <2>1. UploadDone \in Fence /\ "CR" \in UploadDone.shows
        /\ \A i \in Commands(p) : Ends(UploadDone, p[i])
    BY <1>11, UploadEnds
  <2> QED
    BY <1>7, <1>9, <1>10, <1>11, <2>1, OneKernelGood
<1>20. Good((none \o k) \o v, Alone(size))
  <2>1. UploadDone \in Fence /\ "CR" \in UploadDone.shows
        /\ \A i \in Commands(none) : Ends(UploadDone, none[i])
    BY <1>17, UploadEnds
  <2> QED
    BY <1>7, <1>9, <1>10, <1>17, <2>1, OneKernelGood
<1> HIDE DEF k, v
<1>21. p \o (k \o v) = (p \o k) \o v
  BY <1>12, <1>15, <1>16, Regroup
<1>22. Good(p \o (k \o v), Alone(size)) /\ Good(k \o v, Alone(size))
  BY <1>18, <1>19, <1>20, <1>21
<1> QED
  BY <1>5, <1>11, <1>22 DEF ApiGood

-----------------------------------------------------------------------------
(* The standalone trainers.                                                 *)

\* The state a trainer copies out: weight and gradient, or the moments.
LEMMA StateHalves ==
  ASSUME NEW n \in Nat
  PROVE  LET low == SubSeq(TrainerState(n), 1, 2)
             high == SubSeq(TrainerState(n), 3, 4)
             weight == <<<<"weight", n>>>>
         IN  /\ low \in Seq(ApiPart) /\ Bytes(low) = n + n
             /\ high \in Seq(ApiPart) /\ Bytes(high) = n + n /\ Distinct(high)
             /\ Names(high) = {"m", "v"}
             /\ weight \in Seq(ApiPart) /\ Bytes(weight) = n /\ Distinct(weight)
             /\ Names(weight) = {"weight"}
<1>1. "weight" \in ApiBuffer /\ "gradient" \in ApiBuffer /\ "m" \in ApiBuffer /\ "v" \in ApiBuffer
  BY DEF ApiBuffer
<1> DEFINE x == <<"weight", n>>
           y == <<"gradient", n>>
           z == <<"m", n>>
           u == <<"v", n>>
<1>2. x \in ApiPart /\ y \in ApiPart /\ z \in ApiPart /\ u \in ApiPart
  BY <1>1, PartOf
<1>3. TrainerState(n) = <<x, y, z, u>>
  BY DEF TrainerState
<1>4. SubSeq(TrainerState(n), 1, 2) = <<x, y>> /\ SubSeq(TrainerState(n), 3, 4) = <<z, u>>
  <2> HIDE DEF x, y, z, u
  <2> QED
    BY <1>2, <1>3, Halves
<1>5. <<x, y>> \in Seq(ApiPart) /\ Bytes(<<x, y>>) = n + n
  BY <1>1, PairOf
<1>6. <<z, u>> \in Seq(ApiPart) /\ Bytes(<<z, u>>) = n + n /\ Distinct(<<z, u>>)
  BY <1>1, PairOf
<1>7. <<x>> \in Seq(ApiPart) /\ Bytes(<<x>>) = n /\ Distinct(<<x>>)
  BY <1>1, SingleOf
<1>8. Names(<<z, u>>) = {"m", "v"} /\ Names(<<x>>) = {"weight"}
  BY DEF Names
<1> QED
  BY <1>4, <1>5, <1>6, <1>7, <1>8

\* A step of a trainer, with and without moments.
LEMMA TrainerStepGood ==
  ASSUME NEW a \in Nat, NEW u \in Nat, NEW n \in Nat, NEW moments \in SUBSET {"m", "v"},
         NEW size \in Nat, a + u + 3 * n <= size
  PROVE  Good(TrainerStep(a, u, n, moments), Alone(size))
<1> DEFINE args == <<<<"activation", a>>, <<"dlogits", u>>>>
           gradient == [reads |-> {"activation", "dlogits"}, writes |-> {"gradient"}]
           update == [reads |-> {"weight", "gradient"} \cup moments,
                      writes |-> {"weight"} \cup moments]
           ks == <<gradient, update>>
           q == Chain(ks, KernelDone)
           results == SubSeq(TrainerState(n), 1, 2)
<1>1. "activation" \in ApiBuffer /\ "dlogits" \in ApiBuffer /\ "gradient" \in ApiBuffer
      /\ "weight" \in ApiBuffer /\ "m" \in ApiBuffer /\ "v" \in ApiBuffer
  BY DEF ApiBuffer
<1>2. args \in Seq(ApiPart) /\ Distinct(args) /\ Bytes(args) = a + u
  BY <1>1, PairOf
<1>3. results \in Seq(ApiPart) /\ Bytes(results) = n + n
  BY StateHalves
<1>4. a + u + n \in Nat /\ a + u <= size /\ (a + u + n) + (n + n) <= size
  OBVIOUS
<1>5. Len(ks) = 2 /\ ks[1] = gradient /\ ks[2] = update
  OBVIOUS
<1>6. TrainerStep(a, u, n, moments) = LoadArguments(args) \o q \o Results(results, a + u + n)
  BY DEF TrainerStep
<1>7. /\ gradient.reads \subseteq ApiBuffer /\ gradient.writes \subseteq ApiBuffer
      /\ update.reads \subseteq ApiBuffer /\ update.writes \subseteq ApiBuffer
  BY <1>1
<1> HIDE DEF args, gradient, update, results
<1>8. \A i \in 1 .. Len(ks) : ks[i].reads \subseteq ApiBuffer /\ ks[i].writes \subseteq ApiBuffer
  BY <1>5, <1>7
<1> HIDE DEF ks
<1>9. Kernels(q, Alone(size))
  BY <1>5, <1>8, ChainApi
<1> HIDE DEF q
<1>10. Bytes(args) <= size /\ (a + u + n) + Bytes(results) <= size
  BY <1>2, <1>3, <1>4
<1> QED
  BY <1>2, <1>3, <1>4, <1>6, <1>9, <1>10, StagedGood

LEMMA WeightGood ==
  ASSUME NEW n \in Nat, NEW base \in Nat, NEW size \in Nat
  PROVE  /\ base + n <= size => Good(CopyIn("staging", <<<<"weight", n>>>>, base), Alone(size))
         /\ base + 2 * n <= size =>
              /\ Good(Results(SubSeq(TrainerState(n), 3, 4), base), Alone(size))
              /\ Good(Results(SubSeq(TrainerState(n), 1, 2), base), Alone(size))
<1> DEFINE weight == <<<<"weight", n>>>>
           low == SubSeq(TrainerState(n), 1, 2)
           high == SubSeq(TrainerState(n), 3, 4)
<1>1. /\ low \in Seq(ApiPart) /\ Bytes(low) = n + n
      /\ high \in Seq(ApiPart) /\ Bytes(high) = n + n
      /\ weight \in Seq(ApiPart) /\ Bytes(weight) = n /\ Distinct(weight)
  BY StateHalves
<1> HIDE DEF weight, low, high
<1>2. ASSUME base + n <= size
      PROVE  Good(CopyIn("staging", weight, base), Alone(size))
  BY <1>1, <1>2, ApiCopiesIn
<1>3. ASSUME base + 2 * n <= size
      PROVE  Good(Results(high, base), Alone(size)) /\ Good(Results(low, base), Alone(size))
  <2>1. base + Bytes(high) <= size /\ base + Bytes(low) <= size
    BY <1>1, <1>3
  <2> QED
    BY <1>1, <2>1, ResultsStored
<1> QED
  BY <1>2, <1>3 DEF weight, low, high

LEMMA UpdateStateGood ==
  ASSUME NEW n \in Nat, NEW base \in Nat, NEW size \in Nat, base + 5 * n <= size
  PROVE  Good(UpdateState(n, base), Alone(size))
<1> DEFINE weight == <<<<"weight", n>>>>
           high == SubSeq(TrainerState(n), 3, 4)
           p == CopyIn("staging", weight, base)
           q == CopyIn("staging", high, base + 3 * n)
           s == Alone(size)
<1>1. /\ high \in Seq(ApiPart) /\ Bytes(high) = n + n /\ Distinct(high) /\ Names(high) = {"m", "v"}
      /\ weight \in Seq(ApiPart) /\ Bytes(weight) = n /\ Distinct(weight) /\ Names(weight) = {"weight"}
  BY StateHalves
<1>2. UpdateState(n, base) = p \o q
  BY DEF UpdateState
<1> HIDE DEF weight, high
<1>3. base + 3 * n \in Nat /\ base + Bytes(weight) <= size /\ (base + 3 * n) + Bytes(high) <= size
  BY <1>1
<1>4. Loads(p, s) /\ Loads(q, s)
  BY <1>1, <1>3, ApiCopiesIn
<1>5. /\ Inside(weight, s) /\ Room(weight, "staging", base, s)
      /\ Inside(high, s) /\ Room(high, "staging", base + 3 * n, s)
  BY <1>1, <1>3, InsideApi, RoomApi
<1>6. \A i \in Commands(p) : /\ \A r \in p[i].reads : r[1] = "staging"
                             /\ \A r \in p[i].writes : r[1] = "weight"
  BY <1>1, <1>5, CopiesTouch
<1>7. \A i \in Commands(q) : /\ \A r \in q[i].reads : r[1] = "staging"
                             /\ \A r \in q[i].writes : r[1] \in {"m", "v"}
  BY <1>1, <1>5, CopiesTouch
<1> HIDE DEF p, q, s
<1>8. \A i \in Commands(p) : \A k \in Commands(q) : Untouched(p[i], q[k])
  BY <1>6, <1>7 DEF Untouched, Clash
<1>9. Loads(p \o q, s)
  BY <1>4, <1>8, LoadsJoin
<1> QED
  BY <1>2, <1>9, LoadsStarted, StartedGood DEF s

\* The LM-head and the output-projection trainer.
LEMMA TrainersGood ==
  ASSUME NEW h \in Nat, NEW w \in Nat, NEW t \in Nat, NEW moments \in SUBSET {"m", "v"}
  PROVE  /\ ApiGood(tiny_base_step(h, w, t, moments)) /\ ApiGood(tiny_base_update(h, w, t))
         /\ ApiGood(tiny_base_moments(h, w, t)) /\ ApiGood(tiny_base_update_adamw_state(h, w, t))
         /\ ApiGood(outproj_step(h, t, moments)) /\ ApiGood(outproj_update(h, t))
         /\ ApiGood(outproj_moments(h, t)) /\ ApiGood(outproj_update_state(h, t))
<1> DEFINE a == Floats(t * h)
           u == Floats(t * w)
           n == Floats(h * w)
           o == Floats(h * h)
           size == a + u + 5 * n + 8
           squared == 2 * a + 5 * o
<1>1. a \in Nat /\ u \in Nat /\ n \in Nat /\ o \in Nat
  BY FloatsAre
<1>2. /\ tiny_base_step(h, w, t, moments).program = TrainerStep(a, u, n, moments)
      /\ tiny_base_step(h, w, t, moments).staging = size
      /\ tiny_base_update(h, w, t).program = CopyIn("staging", <<<<"weight", n>>>>, a + u)
      /\ tiny_base_update(h, w, t).staging = size
      /\ tiny_base_moments(h, w, t).program = Results(SubSeq(TrainerState(n), 3, 4), a + u + 3 * n)
      /\ tiny_base_moments(h, w, t).staging = size
      /\ tiny_base_update_adamw_state(h, w, t).program = UpdateState(n, a + u)
      /\ tiny_base_update_adamw_state(h, w, t).staging = size
  BY DEF tiny_base_step, tiny_base_update, tiny_base_moments, tiny_base_update_adamw_state,
         LmHeadTrainer, Call
<1>3. /\ outproj_step(h, t, moments).program = TrainerStep(a, a, o, moments)
      /\ outproj_step(h, t, moments).staging = squared
      /\ outproj_update(h, t).program = CopyIn("staging", <<<<"weight", o>>>>, 2 * a)
      /\ outproj_update(h, t).staging = squared
      /\ outproj_moments(h, t).program = Results(SubSeq(TrainerState(o), 3, 4), 2 * a + 3 * o)
      /\ outproj_moments(h, t).staging = squared
      /\ outproj_update_state(h, t).program = UpdateState(o, 2 * a)
      /\ outproj_update_state(h, t).staging = squared
  BY DEF outproj_step, outproj_update, outproj_moments, outproj_update_state, Call
<1> HIDE DEF a, u, n, o
<1>4. /\ size \in Nat /\ a + u \in Nat /\ a + u + 3 * n \in Nat /\ a + u + 3 * n <= size
      /\ (a + u) + n <= size /\ (a + u + 3 * n) + 2 * n <= size /\ (a + u) + 5 * n <= size
      /\ squared \in Nat /\ 2 * a \in Nat /\ 2 * a + 3 * o \in Nat /\ a + a + 3 * o <= squared
      /\ 2 * a + o <= squared /\ (2 * a + 3 * o) + 2 * o <= squared /\ 2 * a + 5 * o <= squared
  BY <1>1
<1> HIDE DEF size, squared
<1>5. Good(TrainerStep(a, u, n, moments), Alone(size))
      /\ Good(TrainerStep(a, a, o, moments), Alone(squared))
  BY <1>1, <1>4, TrainerStepGood
<1>6. /\ Good(CopyIn("staging", <<<<"weight", n>>>>, a + u), Alone(size))
      /\ Good(CopyIn("staging", <<<<"weight", o>>>>, 2 * a), Alone(squared))
  BY <1>1, <1>4, WeightGood
<1>7. /\ Good(Results(SubSeq(TrainerState(n), 3, 4), a + u + 3 * n), Alone(size))
      /\ Good(Results(SubSeq(TrainerState(o), 3, 4), 2 * a + 3 * o), Alone(squared))
  BY <1>1, <1>4, WeightGood
<1>8. Good(UpdateState(n, a + u), Alone(size)) /\ Good(UpdateState(o, 2 * a), Alone(squared))
  BY <1>1, <1>4, UpdateStateGood
<1> QED
  BY <1>2, <1>3, <1>5, <1>6, <1>7, <1>8 DEF ApiGood

LEMMA EmbeddingGood ==
  ASSUME NEW v \in Nat, NEW h \in Nat
  PROVE  /\ ApiGood(embedding_step(v, h)) /\ ApiGood(embedding_update(v, h))
         /\ ApiGood(embedding_read(v, h))
<1> DEFINE n == Floats(v * h)
           l == Floats(128 * h)
           i == Floats(128)
           inputs == EmbeddingInputs(h)
           base == Bytes(inputs)
           size == base + 3 * n
           gradient == [reads |-> {"ids", "ds", "mask"}, writes |-> {"gradient"}]
           update == [reads |-> {"weight", "gradient"}, writes |-> {"weight"}]
           ks == <<gradient, update>>
           q == Chain(ks, KernelDone)
           none == <<>>
<1>1. n \in Nat /\ l \in Nat /\ i \in Nat
  BY FloatsAre
<1>2. "ids" \in ApiBuffer /\ "ds" \in ApiBuffer /\ "mask" \in ApiBuffer /\ "gradient" \in ApiBuffer
      /\ "weight" \in ApiBuffer
  BY DEF ApiBuffer
<1>3. inputs = <<<<"ids", i>>, <<"ds", l>>, <<"mask", i>>>>
  BY DEF EmbeddingInputs
<1>4. /\ embedding_step(v, h).program = LoadArguments(inputs) \o q
      /\ embedding_step(v, h).staging = size
      /\ embedding_update(v, h).program = CopyIn("staging", <<<<"weight", n>>>>, base)
      /\ embedding_update(v, h).staging = size
      /\ embedding_read(v, h).program = Results(SubSeq(TrainerState(n), 1, 2), base + n)
      /\ embedding_read(v, h).staging = size
  BY DEF embedding_step, embedding_update, embedding_read, EmbeddingTrainer, Call
<1>5. Len(ks) = 2 /\ ks[1] = gradient /\ ks[2] = update
  OBVIOUS
<1>6. /\ gradient.reads \subseteq ApiBuffer /\ gradient.writes \subseteq ApiBuffer
      /\ update.reads \subseteq ApiBuffer /\ update.writes \subseteq ApiBuffer
  BY <1>2
<1>7. none \in Seq(ApiPart) /\ Bytes(none) = 0
  BY BytesStep
<1> HIDE DEF n, l, i, inputs, gradient, update, none
<1>8. inputs \in Seq(ApiPart) /\ Distinct(inputs) /\ base \in Nat
  BY <1>1, <1>2, <1>3, TripleOf, InsideApi
<1> HIDE DEF base
<1>9. size \in Nat /\ base <= size /\ base + n <= size /\ (base + n) + 2 * n <= size /\ base + n \in Nat
      /\ 0 + Bytes(none) <= size
  BY <1>1, <1>7, <1>8
<1>10. \A k \in 1 .. Len(ks) : ks[k].reads \subseteq ApiBuffer /\ ks[k].writes \subseteq ApiBuffer
  BY <1>5, <1>6
<1> HIDE DEF ks, size
<1>11. Kernels(q, Alone(size))
  BY <1>5, <1>10, ChainApi
<1> HIDE DEF q
<1>12. Good(LoadArguments(inputs) \o q, Alone(size))
  BY <1>7, <1>8, <1>9, <1>11, StagedGood DEF base
<1>13. Good(CopyIn("staging", <<<<"weight", n>>>>, base), Alone(size))
  BY <1>1, <1>8, <1>9, WeightGood
<1>14. Good(Results(SubSeq(TrainerState(n), 1, 2), base + n), Alone(size))
  BY <1>1, <1>9, WeightGood
<1> QED
  BY <1>4, <1>12, <1>13, <1>14 DEF ApiGood

LEMMA PartAppended ==
  ASSUME NEW p \in Seq(ApiPart), NEW x \in ApiPart, NEW l \in Nat, Len(p) = l, NEW q, q = Append(p, x)
  PROVE  Len(q) = l + 1 /\ q[l + 1] = x /\ \A n \in 1 .. l : q[n] = p[n]
<1>1. Len(Append(p, x)) = Len(p) + 1
  BY AppendProperties
<1>2. Append(p, x)[Len(p) + 1] = x
  BY AppendProperties
<1>3. \A n \in 1 .. Len(p) : Append(p, x)[n] = p[n]
  BY AppendProperties
<1> DEFINE r == Append(p, x)
<1>4. Len(r) = l + 1 /\ r[l + 1] = x /\ \A n \in 1 .. l : r[n] = p[n]
  BY <1>1, <1>2, <1>3, Zenon
<1>5. q = r
  OBVIOUS
<1> HIDE DEF r
<1> QED
  BY <1>4, <1>5

LEMMA QkvGood ==
  ASSUME NEW h \in Nat, NEW t \in Nat
  PROVE  ApiGood(qkv_step(h, t))
<1> DEFINE a == Floats(t * h)
           w == Floats(h * h)
           inputs == [n \in 1 .. 4 |-> <<<<"x", "dq", "dk", "dv">>[n], a>>]
           state == [n \in 1 .. 6 |-> <<<<"q", "k", "v", "gq", "gk", "gv">>[n], w>>]
           four == <<<<"q", w>>, <<"k", w>>, <<"v", w>>, <<"gq", w>>>>
           five == Append(four, <<"gk", w>>)
           six == Append(five, <<"gv", w>>)
           kernel == [reads |-> Names(inputs) \cup {"q", "k", "v"}, writes |-> Names(state)]
           b == UploadDone
           p == CopyIn("staging", inputs, 0)
           size == 4 * a + 12 * w
           q == <<Dispatch(kernel)>>
<1>1. a \in Nat /\ w \in Nat
  BY FloatsAre
<1>2. /\ "x" \in ApiBuffer /\ "dq" \in ApiBuffer /\ "dk" \in ApiBuffer /\ "dv" \in ApiBuffer
      /\ "q" \in ApiBuffer /\ "k" \in ApiBuffer /\ "v" \in ApiBuffer /\ "gq" \in ApiBuffer
      /\ "gk" \in ApiBuffer /\ "gv" \in ApiBuffer
  BY DEF ApiBuffer
<1>3. /\ qkv_step(h, t).program
           = LoadArguments(inputs) \o q \o Results(state, 4 * a)
      /\ qkv_step(h, t).staging = size
  BY DEF qkv_step, Call
<1> HIDE DEF a, w
<1>4. inputs = <<<<"x", a>>, <<"dq", a>>, <<"dk", a>>, <<"dv", a>>>>
  OBVIOUS
<1>5. inputs \in Seq(ApiPart) /\ Distinct(inputs) /\ Bytes(inputs) = a + a + a + a
  <2> HIDE DEF inputs
  <2>1. "x" \in ApiBuffer /\ "dq" \in ApiBuffer /\ "dk" \in ApiBuffer /\ "dv" \in ApiBuffer
    BY <1>2
  <2> DEFINE args == <<<<"x", a>>, <<"dq", a>>, <<"dk", a>>, <<"dv", a>>>>
  <2>2. args \in Seq(ApiPart) /\ Distinct(args) /\ Bytes(args) = a + a + a + a
    BY <1>1, <2>1, FourOf
  <2>3. inputs = args
    BY <1>4
  <2> HIDE DEF args
  <2> QED
    BY <2>2, <2>3
<1>6. four \in Seq(ApiPart) /\ Bytes(four) = w + w + w + w
  <2>1. "q" \in ApiBuffer /\ "k" \in ApiBuffer /\ "v" \in ApiBuffer /\ "gq" \in ApiBuffer
    BY <1>2
  <2> QED
    BY <1>1, <2>1, FourOf, SMTT(30)
<1>7. <<"gk", w>> \in ApiPart /\ <<"gv", w>> \in ApiPart /\ <<"gk", w>>[2] = w /\ <<"gv", w>>[2] = w
  BY <1>1, <1>2, PartOf
<1>8. /\ state[1] = <<"q", w>> /\ state[2] = <<"k", w>> /\ state[3] = <<"v", w>>
      /\ state[4] = <<"gq", w>> /\ state[5] = <<"gk", w>> /\ state[6] = <<"gv", w>>
      /\ state = [n \in 1 .. 6 |-> state[n]]
  OBVIOUS
<1>9. /\ four[1] = <<"q", w>> /\ four[2] = <<"k", w>> /\ four[3] = <<"v", w>>
      /\ four[4] = <<"gq", w>> /\ Len(four) = 4
  OBVIOUS
<1> HIDE DEF four
<1> HIDE DEF five
<1>10. five \in Seq(ApiPart) /\ Bytes(five) = Bytes(four) + w
  BY <1>6, <1>7, BytesAppended DEF five
<1>a. Len(five) = 5 /\ five[5] = <<"gk", w>> /\ \A n \in 1 .. 4 : five[n] = four[n]
  <2> DEFINE x == <<"gk", w>>
  <2>1. five = Append(four, x) /\ x \in ApiPart /\ Len(four) = 4
    BY <1>7, <1>9 DEF five
  <2> HIDE DEF x
  <2>2. Len(five) = 5 /\ five[5] = x /\ \A n \in 1 .. 4 : five[n] = four[n]
    <3>1. Len(five) = 4 + 1 /\ five[4 + 1] = x /\ \A n \in 1 .. 4 : five[n] = four[n]
      BY <1>6, <2>1, PartAppended
    <3> QED
      BY <3>1
  <2> QED
    BY <2>2 DEF x
<1>11. six \in Seq(ApiPart) /\ Bytes(six) = Bytes(five) + w
  BY <1>7, <1>10, BytesAppended
<1>b. Len(six) = 6 /\ six[6] = <<"gv", w>> /\ \A n \in 1 .. 5 : six[n] = five[n]
  <2> DEFINE x == <<"gv", w>>
  <2>1. six = Append(five, x) /\ x \in ApiPart /\ Len(five) = 5
    BY <1>7, <1>a
  <2> HIDE DEF x, six
  <2>2. Len(six) = 6 /\ six[6] = x /\ \A n \in 1 .. 5 : six[n] = five[n]
    <3>1. Len(six) = 5 + 1 /\ six[5 + 1] = x /\ \A n \in 1 .. 5 : six[n] = five[n]
      BY <1>10, <2>1, PartAppended
    <3> QED
      BY <3>1
  <2> QED
    BY <2>2 DEF x
<1>12. state = six
  <2> HIDE DEF six, state
  <2>1. \A n \in 1 .. 6 : six[n] = state[n]
    <3>1. \A n \in 1 .. 6 : n = 1 \/ n = 2 \/ n = 3 \/ n = 4 \/ n = 5 \/ n = 6
      OBVIOUS
    <3> QED
      BY <1>8, <1>9, <1>a, <1>b, <3>1
  <2>2. six = [n \in 1 .. 6 |-> six[n]]
    BY <1>11, <1>b
  <2> QED
    BY <1>8, <2>1, <2>2
<1> HIDE DEF six, state, inputs
<1>13. state \in Seq(ApiPart) /\ Bytes(state) = w + w + w + w + w + w
  BY <1>1, <1>6, <1>10, <1>11, <1>12
<1>14. Names(inputs) \subseteq ApiBuffer /\ Names(state) \subseteq ApiBuffer
  BY <1>5, <1>13, InsideApi
<1>15. size \in Nat /\ Bytes(inputs) <= size /\ 4 * a \in Nat /\ 4 * a + Bytes(state) <= size
  BY <1>1, <1>5, <1>13
<1>16. kernel.reads \subseteq ApiBuffer /\ kernel.writes \subseteq ApiBuffer
  BY <1>2, <1>14
<1> HIDE DEF kernel, size
<1>17. Kernels(q, Alone(size))
  BY <1>16, FittingApi, DispatchKernels
<1> HIDE DEF q
<1>18. Good(LoadArguments(inputs) \o q \o Results(state, 4 * a), Alone(size))
  BY <1>5, <1>13, <1>15, <1>17, StagedGood
<1> QED
  BY <1>3, <1>18 DEF ApiGood

Row == 1 .. 128
Rank == 1 .. 8
Size == Nat \ {0}
Width == 1 .. 4096
Vocabulary == 1 .. 65536

\* What the argument checks of the calls around the graph let through:
\* attention_causal_api.cpp:58, attention_causal_backward_api.cpp:15,
\* causal_loss_api.cpp:22, projection_backward_api.cpp:46,
\* lm_head_backward_api.cpp:47, sgemm_api.cpp:29 (multiples of the tile, without
\* an upper bound), vector_add_api.cpp:66, lora_delta_api.cpp:44,
\* lora_gradients_api.cpp:23, lora_gradients_multi_api.cpp:50,
\* lora_sgd_api.cpp:23, lora_sgd_multi_api.cpp:43.
OneShotCall(c) ==
  \/ c \in {spaceslug_attention, spaceslug_attention_causal} \/ c = spaceslug_vector_add
  \/ c = ImmutableCommandPrototype
  \/ \E t \in Row : c = spaceslug_attention_causal_backward(t)
  \/ \E m \in Row, v \in 1 .. 320, h \in 1 .. 64 : c = spaceslug_lm_head_backward(m, v, h)
  \/ \E m \in Row, i \in 1 .. 64, o \in 1 .. 64 : c = spaceslug_projection_backward(m, i, o)
  \/ \E m \in Row, v \in 1 .. 320 : c = spaceslug_causal_loss(m, v)
  \/ \E m \in Size, n \in Size, k \in Size : c = spaceslug_sgemm(m, n, k)
  \/ \E m \in Row, r \in Rank : c = spaceslug_lora_delta(m, r)
  \/ \E m \in Row, r \in Rank : c = spaceslug_lora_gradients(m, r)
  \/ \E m \in Row, r \in Rank : c = spaceslug_lora_gradients_multi(m, r)
  \/ \E r \in Rank : c = spaceslug_lora_sgd(r)
  \/ \E r \in Rank : c = spaceslug_lora_sgd_multi(r)

\* lora_session_api.cpp:199, dataset_batch_buffer.cpp:39.
SessionCall(c) ==
  \/ \E m \in Row, r \in Rank : c = spaceslug_lora_session_create(m, r)
  \/ \E m \in Row, r \in Rank : c = spaceslug_lora_session_step(m, r, FALSE)
  \/ \E m \in Row, r \in Rank : c = spaceslug_lora_session_step(m, r, TRUE)
  \/ \E m \in Row, r \in Rank : c = spaceslug_lora_session_readback(m, r)
  \/ \E w \in Size, t \in Size : c \in {BatchBuffer_upload(w, t), BatchBuffer_process(w, t),
                                        BatchBuffer_process_readback(w, t)}

\* The calls among them whose copy of the delta leaves the staging buffer: see
\* SessionDeltaFits.
OverrunCall(c) ==
  \E m \in Row, r \in Rank : m > 4 * r /\ c = spaceslug_lora_session_step(m, r, TRUE)

\* tiny_base_training_api.cpp:224, output_projection_training_api.cpp:56,
\* embedding_training_api.cpp:48, qkv_projection_training_api.cpp:34.
TrainerCall(c) ==
  \/ \E h \in Width, v \in Vocabulary, t \in Width :
        \/ \E moments \in {{}, {"m", "v"}} : c = tiny_base_step(h, v, t, moments)
        \/ c \in {tiny_base_update(h, v, t), tiny_base_moments(h, v, t),
                  tiny_base_update_adamw_state(h, v, t)}
  \/ \E h \in Width, t \in Width :
        \/ \E moments \in {{}, {"m", "v"}} : c = outproj_step(h, t, moments)
        \/ c \in {outproj_update(h, t), outproj_moments(h, t), outproj_update_state(h, t)}
        \/ c = qkv_step(h, t)
  \/ \E v \in 1 .. 259, h \in 1 .. 64 :
        c \in {embedding_step(v, h), embedding_update(v, h), embedding_read(v, h)}

\* Every legal call of a one-shot kernel is good, ...
LEMMA OneShotCallsGood ==
  ASSUME NEW c, OneShotCall(c)
  PROVE  ApiGood(c)
<1>1. Row \subseteq Nat /\ Rank \subseteq Nat /\ Size \subseteq Nat /\ \A n \in Nat : 1 .. n \subseteq Nat
  BY DEF Row, Rank, Size
<1>a. 0 \in Nat /\ 320 \in Nat /\ 64 \in Nat
  OBVIOUS
<1>2. CASE c \in {spaceslug_attention, spaceslug_attention_causal}
  BY <1>2, AttentionGood
<1>3. CASE c = spaceslug_vector_add
  BY <1>3, <1>a, MatrixCallsGood
<1>4. CASE c = ImmutableCommandPrototype
  BY <1>4, PrototypeGood
<1>5. CASE \E t \in Row : c = spaceslug_attention_causal_backward(t)
  BY <1>1, <1>5, AttentionGood
<1>6. CASE \E m \in Row, v \in 1 .. 320, h \in 1 .. 64 : c = spaceslug_lm_head_backward(m, v, h)
  BY <1>1, <1>a, <1>6, MatrixCallsGood
<1>7. CASE \E m \in Row, i \in 1 .. 64, o \in 1 .. 64 : c = spaceslug_projection_backward(m, i, o)
  BY <1>1, <1>a, <1>7, MatrixCallsGood
<1>8. CASE \E m \in Row, v \in 1 .. 320 : c = spaceslug_causal_loss(m, v)
  BY <1>1, <1>a, <1>8, LossGood
<1>9. CASE \E m \in Size, n \in Size, k \in Size : c = spaceslug_sgemm(m, n, k)
  BY <1>1, <1>9, MatrixCallsGood
<1>10. CASE \E m \in Row, r \in Rank : c = spaceslug_lora_delta(m, r)
  BY <1>1, <1>10, LoraCallsGood
<1>11. CASE \E m \in Row, r \in Rank : c = spaceslug_lora_gradients(m, r)
  BY <1>1, <1>11, LoraCallsGood
<1>12. CASE \E m \in Row, r \in Rank : c = spaceslug_lora_gradients_multi(m, r)
  BY <1>1, <1>12, LoraCallsGood
<1>13. CASE \E r \in Rank : c = spaceslug_lora_sgd(r)
  BY <1>1, <1>13, UpdatesGood
<1>14. CASE \E r \in Rank : c = spaceslug_lora_sgd_multi(r)
  BY <1>1, <1>14, UpdatesGood
<1> QED
  BY <1>2, <1>3, <1>4, <1>5, <1>6, <1>7, <1>8, <1>9, <1>10, <1>11, <1>12, <1>13, <1>14, Zenon DEF OneShotCall

\* ... of a LoRA session, but for the delta, or of a dataset batch buffer, ...
LEMMA SessionApisGood ==
  ASSUME NEW c, SessionCall(c)
  PROVE  ApiGood(c) \/ OverrunCall(c)
<1>1. Row \subseteq Nat /\ Rank \subseteq Nat /\ Size \subseteq Nat
  BY DEF Row, Rank, Size
<1>2. CASE \E m \in Row, r \in Rank : c = spaceslug_lora_session_create(m, r)
  BY <1>1, <1>2, SessionCallsGood
<1>3. CASE \E m \in Row, r \in Rank : c = spaceslug_lora_session_step(m, r, FALSE)
  BY <1>1, <1>3, SessionCallsGood
<1>4. CASE \E m \in Row, r \in Rank : c = spaceslug_lora_session_step(m, r, TRUE)
  <2>1. PICK m \in Row, r \in Rank : c = spaceslug_lora_session_step(m, r, TRUE)
    BY <1>4
  <2>2. r \in Nat /\ m \in Nat /\ (m <= 4 * r \/ m > 4 * r)
    BY <1>1
  <2>3. CASE m <= 4 * r
    BY <2>1, <2>2, <2>3, SessionCallsGood
  <2>4. CASE m > 4 * r
    BY <2>1, <2>4 DEF OverrunCall
  <2> QED
    BY <2>2, <2>3, <2>4
<1>5. CASE \E m \in Row, r \in Rank : c = spaceslug_lora_session_readback(m, r)
  BY <1>1, <1>5, SessionCallsGood
<1>6. CASE \E w \in Size, t \in Size : c \in {BatchBuffer_upload(w, t), BatchBuffer_process(w, t),
                                             BatchBuffer_process_readback(w, t)}
  BY <1>1, <1>6, BatchCallsGood
<1> QED
  BY <1>2, <1>3, <1>4, <1>5, <1>6, Zenon DEF SessionCall

\* ... whose programs the barriers order all the same, ...
LEMMA OverrunsOrderly ==
  ASSUME NEW c, OverrunCall(c)
  PROVE  Orderly(c.program, {"staging"})
<1>1. PICK m \in Row, r \in Rank : c = spaceslug_lora_session_step(m, r, TRUE)
  BY DEF OverrunCall
<1>2. m \in Nat /\ r \in Nat
  BY DEF Row, Rank
<1> DEFINE size == SessionStaging(m, r) + Floats(m * 64)
<1>3. Good(c.program, Alone(size))
  BY <1>1, <1>2, SessionCallsGood
<1>4. DOMAIN Alone(size) = {"staging"}
  BY DEF Alone
<1> HIDE DEF size
<1> QED
  BY <1>3, <1>4 DEF Good, Orderly

\* ... and of a standalone trainer.
LEMMA TrainerCallsGood ==
  ASSUME NEW c, TrainerCall(c)
  PROVE  ApiGood(c)
<1>1. Width \subseteq Nat /\ Vocabulary \subseteq Nat /\ {{}, {"m", "v"}} \subseteq SUBSET {"m", "v"}
      /\ 1 .. 259 \subseteq Nat /\ 1 .. 64 \subseteq Nat
  BY DEF Width, Vocabulary
<1>a. {} \in SUBSET {"m", "v"} /\ 0 \in Nat
  OBVIOUS
<1>2. CASE \E h \in Width, v \in Vocabulary, t \in Width :
              \E moments \in {{}, {"m", "v"}} : c = tiny_base_step(h, v, t, moments)
  BY <1>1, <1>2, TrainersGood
<1>3. CASE \E h \in Width, v \in Vocabulary, t \in Width :
              c \in {tiny_base_update(h, v, t), tiny_base_moments(h, v, t),
                     tiny_base_update_adamw_state(h, v, t)}
  BY <1>1, <1>a, <1>3, TrainersGood
<1>4. CASE \E h \in Width, t \in Width :
              \E moments \in {{}, {"m", "v"}} : c = outproj_step(h, t, moments)
  BY <1>1, <1>a, <1>4, TrainersGood
<1>5. CASE \E h \in Width, t \in Width :
              c \in {outproj_update(h, t), outproj_moments(h, t), outproj_update_state(h, t)}
  BY <1>1, <1>a, <1>5, TrainersGood
<1>6. CASE \E h \in Width, t \in Width : c = qkv_step(h, t)
  BY <1>1, <1>6, QkvGood
<1>7. CASE \E v \in 1 .. 259, h \in 1 .. 64 :
              c \in {embedding_step(v, h), embedding_update(v, h), embedding_read(v, h)}
  BY <1>1, <1>7, EmbeddingGood
<1> QED
  BY <1>2, <1>3, <1>4, <1>5, <1>6, <1>7, Zenon DEF TrainerCall

(***************************************************************************)
(* The staging buffer of a LoRA session has room for four factors and two   *)
(* inputs (lora_session_api.cpp:233), and a step that returns its delta      *)
(* copies it behind the two inputs (lora_session_api.cpp:335): it stays     *)
(* inside the buffer for exactly those sessions with at most four rows per  *)
(* unit of rank, which no check of the session asks for.                    *)
(***************************************************************************)
THEOREM SessionDeltaFits ==
  ASSUME NEW m \in Nat, NEW r \in Nat
  PROVE  Fits(spaceslug_lora_session_step(m, r, TRUE).program, Alone(SessionStaging(m, r)))
           <=> m <= 4 * r
<1> DEFINE c == spaceslug_lora_session_step(m, r, TRUE)
           x == Floats(m * 64)
           y == <<<<"y", x>>>>
           size == SessionStaging(m, r)
<1>1. ASSUME m <= 4 * r
      PROVE  Fits(c.program, Alone(size))
  <2>1. Good(c.program, Alone(c.staging))
    BY <1>1, SessionCallsGood DEF ApiGood
  <2>2. c.staging = size
    BY DEF spaceslug_lora_session_step, Call
  <2> HIDE DEF c, size
  <2> QED
    BY <2>1, <2>2 DEF Good
<1>2. ASSUME m > 4 * r
      PROVE  ~ Fits(c.program, Alone(size))
  <2> DEFINE delta == [reads |-> {"x", "a", "b"}, writes |-> {"y"}]
             gradients == [reads |-> {"x", "dy", "a", "b"}, writes |-> {"da", "db"}]
             sgd == [reads |-> {"a", "b", "da", "db"}, writes |-> {"a", "b"}]
             p == LoadArguments(<<<<"x", x>>, <<"dy", x>>>>) \o Chain(<<delta, gradients, sgd>>, KernelDone)
             q == Results(y, 2 * x)
  <2>1. x \in Nat /\ x = 256 * m /\ size \in Nat /\ size = 4 * (256 * r) + 2 * x /\ 2 * x \in Nat
    BY FloatsAre, FactorIs DEF SessionStaging
  <2>2. c.program = p \o q
    BY DEF spaceslug_lora_session_step, Call
  <2>3. y \in Seq(ApiPart) /\ Len(y) = 1 /\ Bytes(y) = x
    <3>1. "y" \in ApiBuffer
      BY DEF ApiBuffer
    <3> QED
      BY <2>1, <3>1, SingleOf
  <2>4. p \in Seq(Item)
    <3> DEFINE args == <<<<"x", x>>, <<"dy", x>>>>
               ks == Chain(<<delta, gradients, sgd>>, KernelDone)
    <3>1. "x" \in ApiBuffer /\ "dy" \in ApiBuffer
      BY DEF ApiBuffer
    <3>2. args \in Seq(ApiPart) /\ Distinct(args) /\ Bytes(args) = x + x
      BY <2>1, <3>1, PairOf
    <3>3. Kernels(ks, Alone(size))
      BY SessionKernels
    <3> HIDE DEF args, ks
    <3>4. Bytes(args) <= size
      BY <2>1, <3>2
    <3>5. LoadArguments(args) \in Seq(Item)
      BY <2>1, <3>2, <3>4, ArgumentsLoaded DEF Loads
    <3>6. ks \in Seq(Item)
      BY <3>3 DEF Kernels, Started
    <3>7. LoadArguments(args) \o ks \in Seq(Item)
      BY <3>5, <3>6, Joined
    <3> QED
      BY <3>7 DEF args, ks
  <2> DEFINE P == Packed("staging", y, 2 * x)
             w == CopyOut("staging", y, 2 * x)
             b == <<ResultDone>>
  <2>5. P[1] = <<"staging", 2 * x, 3 * x>>
    <3>1. y \in Seq(Part)
      BY <2>3, InsideApi
    <3>2. PICK f : EndsOf(f, y)
      BY <3>1, SumsExist
    <3>3. f[1] = x /\ f[0] = 0
      BY <2>3, <3>1, <3>2, BytesAre DEF EndsOf
    <3>4. 1 \in 1 .. Len(y)
      BY <2>3
    <3> HIDE DEF y
    <3>5. P[1] = <<"staging", 2 * x + f[1 - 1], 2 * x + f[1]>>
      BY <2>1, <3>1, <3>2, <3>4, PlacesAre, SMTT(30)
    <3> QED
      BY <2>1, <3>3, <3>5
  <2>6. w = [n \in 1 .. 1 |-> Copy(Whole(y[n][1]), P[n])] /\ y[1][1] = "y"
    BY DEF CopyOut
  <2> HIDE DEF P, w, y
  <2>7. w[1] = [stage |-> "T", reads |-> {Whole("y")}, writes |-> {P[1]}]
    BY <2>6 DEF Copy
  <2>8. w[1] \in Command /\ w[1].stage = "T" /\ w[1].writes = {P[1]}
    <3>1. P[1] \in Place /\ Whole("y") \in Place
      BY <2>1, <2>5 DEF Place, Whole, Buffer, HostBuffer, ApiBuffer
    <3> QED
      BY <2>7, <3>1 DEF Command, AnyStage
  <2>9. w \in Seq(Item) /\ 1 \in Commands(w)
    BY <2>6, <2>8 DEF Item, Commands
  <2>10. b \in Seq(Item) /\ Len(b) = 1
    BY UsualFences, FenceAlone
  <2> HIDE DEF p, b
  <2>11. q = b \o w
    BY DEF Results, w, b
  <2>12. q \in Seq(Item) /\ 2 \in Commands(q) /\ q[2] = w[1]
    <3>1. 1 \in 1 .. Len(w)
      BY <2>9, CommandItems
    <3>2. Len(b) + 1 \in Commands(b \o w) /\ (b \o w)[Len(b) + 1] = w[1] /\ b \o w \in Seq(Item)
      BY <2>9, <2>10, <3>1, Joined
    <3>3. Len(b) + 1 = 2
      BY <2>10
    <3> QED
      BY <2>11, <3>2, <3>3, Zenon
  <2> HIDE DEF q
  <2>13. Len(p) + 2 \in Commands(p \o q) /\ (p \o q)[Len(p) + 2] = q[2]
    <3>1. 2 \in 1 .. Len(q)
      BY <2>12, CommandItems
    <3> QED
      BY <2>4, <2>12, <3>1, Joined
  <2>14. P[1][1] = "staging" /\ P[1][3] = 3 * x
    BY <2>5
  <2>15. ~ (3 * x <= size)
    BY <1>2, <2>1
  <2> HIDE DEF size
  <2>16. ~ (P[1][3] <= Alone(size)[P[1][1]]) /\ P[1][1] \in DOMAIN Alone(size)
    BY <2>14, <2>15, AloneIs
  <2>17. P[1] \in (p \o q)[Len(p) + 2].writes
    BY <2>8, <2>12, <2>13
  <2> HIDE DEF c
  <2> QED
    BY <2>2, <2>13, <2>16, <2>17 DEF Fits
<1>3. m <= 4 * r \/ m > 4 * r
  OBVIOUS
<1> HIDE DEF c, size
<1>4. Fits(c.program, Alone(size)) <=> m <= 4 * r
  BY <1>1, <1>2, <1>3
<1> QED
  BY <1>4 DEF size, c

-----------------------------------------------------------------------------
(* The programs of the persistent graph.                                    *)

\* The host buffers a program of a graph of rank r may use.
GraphSizes(r) ==
  [trainingStaging |-> trainingStagingBytes(r), readback |-> readbackBytes,
   hostStaging |-> 2 * lora_bytes(r)]

\* The host buffers of a graph, in bytes.
LEMMA GraphSizesAre ==
  ASSUME NEW r \in Rank
  PROVE  /\ DOMAIN GraphSizes(r) = {"trainingStaging", "readback", "hostStaging"}
         /\ GraphSizes(r)["trainingStaging"] = 827400 /\ GraphSizes(r)["readback"] = 163840
         /\ GraphSizes(r)["hostStaging"] = 2048 * r
         /\ adamw_staging_offset(r) = 165888 /\ lora_bytes(r) = 1024 * r /\ r \in Nat
<1>1. r \in Nat /\ r >= 1 /\ r <= 8
  BY DEF Rank
<1>2. lora_bytes(r) = 1024 * r
  BY <1>1 DEF lora_bytes, Floats, H
<1>3. adamw_staging_offset(r) = 165888
  BY <1>1 DEF adamw_staging_offset, Floats, H, Vp, Tcap, Larger
<1>4. Floats(FfnSize) = 132352
  BY DEF Floats, FfnSize, H
<1>5. trainingStagingBytes(r) = 827400
  <2>1. Larger(2 * Floats(H * Vp), 3 * Floats(FfnSize) + 3 * Floats(H) + Floats(H)
                      + Floats(FfnSize) + 4 * Floats(Tcap * H)) = 661504
    BY <1>4 DEF Larger, Floats, H, Vp, Tcap
  <2>2. adamw_state_bytes(r) = 6144 * r
    BY <1>1, <1>2 DEF adamw_state_bytes
  <2>3. Larger(6144 * r, 661504) = 661504
    BY <1>1 DEF Larger
  <2> QED
    BY <1>3, <2>1, <2>2, <2>3 DEF trainingStagingBytes
<1>6. readbackBytes = 163840
  BY DEF readbackBytes, Floats, Tcap, Vp
<1>7. 2 * lora_bytes(r) = 2048 * r
  BY <1>1, <1>2
<1> QED
  BY <1>1, <1>2, <1>3, <1>5, <1>6, <1>7 DEF GraphSizes

LEMMA GraphBufferIs ==
  ASSUME NEW r \in Rank
  PROVE  /\ GraphBuffer \subseteq Buffer /\ HostBuffer \subseteq Buffer
         /\ "readback" \in Buffer /\ "trainingStaging" \in Buffer /\ "hostStaging" \in Buffer
         /\ \A b \in GraphBuffer : b \notin DOMAIN GraphSizes(r)
<1>1. \A b \in GraphBuffer : b \notin {"trainingStaging", "readback", "hostStaging"}
  BY DEF GraphBuffer
<1> QED
  BY <1>1, GraphSizesAre DEF Buffer, HostBuffer

\* Tables merged by ++ have the entries of both, the first before the second.
LEMMA Merged ==
  ASSUME NEW f, NEW g
  PROVE  /\ DOMAIN (f ++ g) = DOMAIN f \cup DOMAIN g
         /\ \A x \in DOMAIN f : (f ++ g)[x] = f[x]
         /\ \A x \in DOMAIN g : x \notin DOMAIN f => (f ++ g)[x] = g[x]
BY DEF ++

\* A table of kernels that keep to the buffers of the graph and readback_,
\* into which forward writes its logits.
Bound(f) ==
  \A k \in DOMAIN f : f[k].reads \cup f[k].writes \subseteq GraphBuffer \cup {"readback"}

LEMMA BoundMerged ==
  ASSUME NEW f, NEW g, Bound(f), Bound(g)
  PROVE  Bound(f ++ g)
<1> DEFINE h == f ++ g
<1>1. /\ DOMAIN h = DOMAIN f \cup DOMAIN g
      /\ \A x \in DOMAIN f : h[x] = f[x]
      /\ \A x \in DOMAIN g : x \notin DOMAIN f => h[x] = g[x]
  BY Merged
<1> HIDE DEF h
<1>2. Bound(h)
  BY <1>1 DEF Bound
<1> QED
  BY <1>2 DEF h

LEMMA KernelDomains ==
  /\ DOMAIN ForwardKernels = {"forward", "rmsForward", "rmsState", "rmsFixed"}
  /\ DOMAIN RmsBackwardKernels = {"rmsBackwardState", "rmsDgamma"}
  /\ DOMAIN LossKernels = {"loss", "metrics", "lmBackward", "lmHeadGradient", "lmHeadGradientMore"}
  /\ DOMAIN LmHeadKernels = {"lmHeadSgd", "lmHeadAdamw"}
  /\ DOMAIN OutputKernels = {"outputGradient", "outputSgd", "outputAdamw"}
  /\ DOMAIN QkvKernels = {"qkvGradient", "qkvSgd", "qkvAdamw"}
  /\ DOMAIN TableKernels =
       {"embeddingGradient", "embeddingSgd", "positionGradient", "positionSgd", "positionAdamw"}
  /\ DOMAIN FfnKernels =
       {"ffnForward", "ffnBackward", "ffnGradient", "ffnW1Adamw", "ffnB1Adamw", "ffnW2Adamw",
        "ffnB2Adamw", "lmHeadForward", "rmsNormGradient", "gammaAdamw"}
  /\ DOMAIN AttentionKernels = {"attentionQ", "attentionK", "attentionV", "attentionFirstSet"}
  /\ DOMAIN ProjectionKernels = {"projBackward", "projQ", "projQMore", "projKV", "projVV"}
  /\ DOMAIN LoraKernels = {"lora", "loraMore", "loraClear", "loraSgd", "loraFinalize", "loraAdamw"}
BY DEF ForwardKernels, RmsBackwardKernels, LossKernels, LmHeadKernels, OutputKernels, QkvKernels,
       TableKernels, FfnKernels, AttentionKernels, ProjectionKernels, LoraKernels

\* Every kernel keeps to the buffers of the graph; forward also fills readback_.
LEMMA TablesBound ==
  /\ Bound(ForwardKernels) /\ Bound(RmsBackwardKernels) /\ Bound(LossKernels)
  /\ Bound(LmHeadKernels) /\ Bound(OutputKernels) /\ Bound(QkvKernels) /\ Bound(TableKernels)
  /\ Bound(FfnKernels) /\ Bound(AttentionKernels) /\ Bound(ProjectionKernels) /\ Bound(LoraKernels)
<1> USE DEF Bound, GraphBuffer, Kernel, Optimizer
<1>1. Bound(ForwardKernels)
  BY KernelDomains DEF ForwardKernels, ForwardReads, ForwardWrites
<1>2. Bound(RmsBackwardKernels)
  BY KernelDomains DEF RmsBackwardKernels
<1>3. Bound(LossKernels)
  BY KernelDomains DEF LossKernels
<1>4. Bound(LmHeadKernels)
  BY KernelDomains DEF LmHeadKernels
<1>5. Bound(OutputKernels)
  BY KernelDomains DEF OutputKernels
<1>6. Bound(QkvKernels)
  BY KernelDomains DEF QkvKernels, QkvGradients
<1>7. Bound(TableKernels)
  BY KernelDomains DEF TableKernels
<1>8. Bound(FfnKernels)
  BY KernelDomains DEF FfnKernels, FfnWeights, FfnGradients
<1>9. Bound(AttentionKernels)
  BY KernelDomains DEF AttentionKernels
<1>10. Bound(ProjectionKernels)
  BY KernelDomains DEF ProjectionKernels
<1>11. Bound(LoraKernels)
  BY KernelDomains DEF LoraKernels, LoraGradients, LoraAdapters, LoraMoments
<1> QED
  BY <1>1, <1>2, <1>3, <1>4, <1>5, <1>6, <1>7, <1>8, <1>9, <1>10, <1>11

\* The names of the kernels that the programs use.
KernelName ==
  {"forward", "rmsForward", "rmsState", "rmsFixed", "rmsBackwardState", "rmsDgamma", "loss",
   "metrics", "lmBackward", "lmHeadGradient", "lmHeadGradientMore", "lmHeadSgd", "lmHeadAdamw",
   "outputGradient", "outputSgd", "outputAdamw", "qkvGradient", "qkvSgd", "qkvAdamw",
   "embeddingGradient", "embeddingSgd", "positionGradient", "positionSgd", "positionAdamw",
   "ffnForward", "ffnBackward", "ffnGradient", "ffnW1Adamw", "ffnB1Adamw", "ffnW2Adamw",
   "ffnB2Adamw", "lmHeadForward", "rmsNormGradient", "gammaAdamw", "attentionQ", "attentionK",
   "attentionV", "attentionFirstSet", "projBackward", "projQ", "projQMore", "projKV", "projVV",
   "lora", "loraMore", "loraClear", "loraSgd", "loraFinalize", "loraAdamw"}

\* The kernels under the names the programs use.
LEMMA KernelsAre ==
  /\ DOMAIN K = KernelName /\ Bound(K)
  /\ \A k \in DOMAIN FfnKernels : K[k] = FfnKernels[k]
  /\ \A k \in DOMAIN ForwardKernels : K[k] = ForwardKernels[k]
  /\ \A k \in DOMAIN LossKernels : K[k] = LossKernels[k]
<1> DEFINE k2 == ForwardKernels ++ RmsBackwardKernels
           k3 == k2 ++ LossKernels
           k4 == k3 ++ LmHeadKernels
           k5 == k4 ++ OutputKernels
           k6 == k5 ++ QkvKernels
           k7 == k6 ++ TableKernels
           k8 == k7 ++ FfnKernels
           k9 == k8 ++ AttentionKernels
           k10 == k9 ++ ProjectionKernels
           k11 == k10 ++ LoraKernels
           Joins(h, f, g) == /\ DOMAIN h = DOMAIN f \cup DOMAIN g
                             /\ \A x \in DOMAIN f : h[x] = f[x]
                             /\ \A x \in DOMAIN g : x \notin DOMAIN f => h[x] = g[x]
<1>1. K = k11
  BY DEF K
<1>a. \A f, g : Joins(f ++ g, f, g)
  BY Merged
<1>b. \A f, g : Bound(f) /\ Bound(g) => Bound(f ++ g)
  BY BoundMerged
<1> HIDE DEF Joins
<1>2. Joins(k2, ForwardKernels, RmsBackwardKernels) /\ Bound(k2)
  BY <1>a, <1>b, TablesBound
<1> HIDE DEF k2
<1>3. Joins(k3, k2, LossKernels) /\ Bound(k3)
  BY <1>2, <1>a, <1>b, TablesBound
<1> HIDE DEF k3
<1>4. Joins(k4, k3, LmHeadKernels) /\ Bound(k4)
  BY <1>3, <1>a, <1>b, TablesBound
<1> HIDE DEF k4
<1>5. Joins(k5, k4, OutputKernels) /\ Bound(k5)
  BY <1>4, <1>a, <1>b, TablesBound
<1> HIDE DEF k5
<1>6. Joins(k6, k5, QkvKernels) /\ Bound(k6)
  BY <1>5, <1>a, <1>b, TablesBound
<1> HIDE DEF k6
<1>7. Joins(k7, k6, TableKernels) /\ Bound(k7)
  BY <1>6, <1>a, <1>b, TablesBound
<1> HIDE DEF k7
<1>8. Joins(k8, k7, FfnKernels) /\ Bound(k8)
  BY <1>7, <1>a, <1>b, TablesBound
<1> HIDE DEF k8
<1>9. Joins(k9, k8, AttentionKernels) /\ Bound(k9)
  BY <1>8, <1>a, <1>b, TablesBound
<1> HIDE DEF k9
<1>10. Joins(k10, k9, ProjectionKernels) /\ Bound(k10)
  BY <1>9, <1>a, <1>b, TablesBound
<1> HIDE DEF k10
<1>11. Joins(k11, k10, LoraKernels) /\ Bound(k11)
  BY <1>10, <1>a, <1>b, TablesBound
<1> HIDE DEF k11
<1> USE DEF Joins
<1>12. DOMAIN k7 \cap DOMAIN FfnKernels = {}
  BY <1>2, <1>3, <1>4, <1>5, <1>6, <1>7, KernelDomains
<1>13. DOMAIN k2 \cap DOMAIN LossKernels = {}
  BY <1>2, KernelDomains
<1>14. DOMAIN K = KernelName
  <2>1. DOMAIN K = DOMAIN ForwardKernels \cup DOMAIN RmsBackwardKernels \cup DOMAIN LossKernels
                     \cup DOMAIN LmHeadKernels \cup DOMAIN OutputKernels \cup DOMAIN QkvKernels
                     \cup DOMAIN TableKernels \cup DOMAIN FfnKernels \cup DOMAIN AttentionKernels
                     \cup DOMAIN ProjectionKernels \cup DOMAIN LoraKernels
    BY <1>1, <1>2, <1>3, <1>4, <1>5, <1>6, <1>7, <1>8, <1>9, <1>10, <1>11
  <2> QED
    BY <2>1, KernelDomains DEF KernelName
<1>15. \A k \in DOMAIN FfnKernels : K[k] = FfnKernels[k]
  BY <1>1, <1>8, <1>9, <1>10, <1>11, <1>12
<1>16. \A k \in DOMAIN LossKernels : K[k] = LossKernels[k]
  <2>1. \A k \in DOMAIN LossKernels : k3[k] = LossKernels[k] /\ k \in DOMAIN k3
    BY <1>3, <1>13
  <2>2. \A k \in DOMAIN k3 : K[k] = k3[k]
    BY <1>1, <1>4, <1>5, <1>6, <1>7, <1>8, <1>9, <1>10, <1>11
  <2> QED
    BY <2>1, <2>2
<1>17. \A k \in DOMAIN ForwardKernels : K[k] = ForwardKernels[k]
  BY <1>1, <1>2, <1>3, <1>4, <1>5, <1>6, <1>7, <1>8, <1>9, <1>10, <1>11
<1> QED
  BY <1>1, <1>11, <1>14, <1>15, <1>16, <1>17

LEMMA KernelFits ==
  ASSUME NEW r \in Rank, NEW k \in KernelName
  PROVE  Fitting(K[k], GraphSizes(r))
<1>1. K[k].reads \cup K[k].writes \subseteq GraphBuffer \cup {"readback"}
  BY KernelsAre DEF Bound
<1>2. 1 <= GraphSizes(r)["readback"]
  BY GraphSizesAre
<1> QED
  BY <1>1, <1>2, GraphBufferIs DEF Fitting

\* One dispatch, ...
LEMMA DoKernels ==
  ASSUME NEW r \in Rank, NEW k \in KernelName
  PROVE  Kernels(Do(k), GraphSizes(r))
BY KernelFits, DispatchKernels DEF Do

\* ... and several with KernelDone between them.
LEMMA RunKernels ==
  ASSUME NEW r \in Rank, NEW ks \in Seq(KernelName), ks # <<>>
  PROVE  Kernels(Run(ks), GraphSizes(r))
<1> DEFINE l == Len(ks)
           f == [n \in DOMAIN ks |-> K[ks[n]]]
<1>1. l \in Nat \ {0} /\ DOMAIN ks = 1 .. l /\ \A n \in 1 .. l : ks[n] \in KernelName
  OBVIOUS
<1>2. f = [n \in 1 .. l |-> K[ks[n]]]
  BY <1>1
<1> HIDE DEF f, l
<1>3. Len(f) = l /\ \A n \in 1 .. l : f[n] = K[ks[n]]
  BY <1>1, <1>2
<1>4. \A n \in 1 .. Len(f) : Fitting(f[n], GraphSizes(r))
  BY <1>1, <1>3, KernelFits
<1>5. Kernels(Chain(f, KernelDone), GraphSizes(r))
  BY <1>1, <1>3, <1>4, ChainKernels
<1> QED
  BY <1>5 DEF Run, f

\* The buffers that the commands of p read are among R, those they write among W.
Touching(p, R, W) ==
  \A i \in Commands(p) : (\A q \in p[i].reads : q[1] \in R) /\ (\A q \in p[i].writes : q[1] \in W)

\* What two programs touch one behind the other.
LEMMA TouchingJoin ==
  ASSUME NEW p \in Seq(Item), NEW q \in Seq(Item), NEW R, NEW W, NEW A, NEW B,
         Touching(p, R, W), Touching(q, A, B)
  PROVE  Touching(p \o q, R \cup A, W \cup B)
<1> DEFINE r == p \o q
<1>1. \A n \in Commands(r) :
        \/ n \in Commands(p) /\ r[n] = p[n]
        \/ \E k \in Commands(q) : n = Len(p) + k /\ r[n] = q[k]
  BY Joined
<1> HIDE DEF r
<1> SUFFICES ASSUME NEW n \in Commands(r)
             PROVE  /\ \A x \in r[n].reads : x[1] \in R \cup A
                    /\ \A x \in r[n].writes : x[1] \in W \cup B
  BY DEF Touching, r
<1> QED
  BY <1>1 DEF Touching

\* Commands on different buffers share no place.
LEMMA ByName ==
  ASSUME NEW p, NEW q, NEW R, NEW W, NEW A, NEW B, Touching(p, R, W), Touching(q, A, B),
         W \cap (A \cup B) = {}, R \cap B = {}
  PROVE  \A i \in Commands(p) : \A k \in Commands(q) : Untouched(p[i], q[k])
BY DEF Touching, Untouched, Clash

CopyAt(p, from, to) ==
  /\ p \in Seq(Item) /\ Len(p) = 1 /\ Commands(p) = {1}
  /\ p[1].stage = "T" /\ p[1].reads = {from} /\ p[1].writes = {to}

LEMMA OneCopy ==
  ASSUME NEW from \in Place, NEW to \in Place
  PROVE  Copy(from, to) \in Command /\ CopyAt(<<Copy(from, to)>>, from, to)
<1> DEFINE c == Copy(from, to)
           p == <<c>>
<1>1. c = [stage |-> "T", reads |-> {from}, writes |-> {to}]
  BY DEF Copy
<1>2. c \in Command /\ c.stage = "T" /\ c.reads = {from} /\ c.writes = {to}
  BY <1>1 DEF Command, AnyStage
<1> HIDE DEF c
<1>3. p \in Seq(Item) /\ Len(p) = 1 /\ p[1] = c /\ DOMAIN p = {1}
  BY <1>2 DEF Item
<1> HIDE DEF p
<1>4. Commands(p) = {1}
  BY <1>2, <1>3 DEF Commands
<1>5. CopyAt(p, from, to)
  BY <1>2, <1>3, <1>4 DEF CopyAt
<1> QED
  BY <1>2, <1>5 DEF p, c

LEMMA CopyTouching ==
  ASSUME NEW from \in Place, NEW to \in Place, NEW p, CopyAt(p, from, to)
  PROVE  Touching(p, {from[1]}, {to[1]}) /\ Parallel(p)
BY DEF Touching, Parallel, CopyAt

LEMMA GraphPlaces ==
  ASSUME NEW r \in Rank, NEW b \in GraphBuffer, NEW host \in DOMAIN GraphSizes(r),
         NEW lo \in Nat, NEW hi \in Nat
  PROVE  /\ Whole(b) \in Place /\ Whole(b)[1] = b /\ b \notin DOMAIN GraphSizes(r)
         /\ <<host, lo, hi>> \in Place /\ <<host, lo, hi>>[1] = host /\ <<host, lo, hi>>[3] = hi
BY GraphBufferIs, GraphSizesAre DEF Place, Whole

LEMMA GraphLoad ==
  ASSUME NEW r \in Rank, NEW b \in GraphBuffer, NEW host \in DOMAIN GraphSizes(r),
         NEW lo \in Nat, NEW hi \in Nat, hi <= GraphSizes(r)[host],
         NEW p, p = <<Copy(<<host, lo, hi>>, Whole(b))>>
  PROVE  Loads(p, GraphSizes(r)) /\ Touching(p, {host}, {b})
<1> DEFINE f == <<host, lo, hi>>
           t == Whole(b)
<1>1. t \in Place /\ t[1] = b /\ b \notin DOMAIN GraphSizes(r) /\ t = Whole(t[1])
      /\ f \in Place /\ f[1] = host /\ f[3] = hi
  BY GraphPlaces
<1>2. p = <<Copy(f, t)>>
  OBVIOUS
<1> HIDE DEF f, t
<1>3. CopyAt(p, f, t)
  BY <1>1, <1>2, OneCopy, Zenon
<1>5. Touching(p, {f[1]}, {t[1]}) /\ Parallel(p)
  BY <1>1, <1>3, CopyTouching
<1>4. Fits(p, GraphSizes(r)) /\ Tame(p, GraphSizes(r))
  BY <1>1, <1>3 DEF Fits, Tame, CopyAt
<1> QED
  BY <1>1, <1>3, <1>4, <1>5 DEF Loads, CopyAt

LEMMA GraphStore ==
  ASSUME NEW r \in Rank, NEW b \in GraphBuffer, NEW host \in DOMAIN GraphSizes(r),
         NEW lo \in Nat, NEW hi \in Nat, hi <= GraphSizes(r)[host],
         NEW p, p = <<Copy(Whole(b), <<host, lo, hi>>)>>
  PROVE  Stores(p, GraphSizes(r)) /\ Touching(p, {b}, {host})
<1> DEFINE f == <<host, lo, hi>>
           t == Whole(b)
<1>1. t \in Place /\ t[1] = b /\ b \notin DOMAIN GraphSizes(r) /\ t = Whole(t[1])
      /\ f \in Place /\ f[1] = host /\ f[3] = hi
  BY GraphPlaces
<1>2. p = <<Copy(t, f)>>
  OBVIOUS
<1> HIDE DEF f, t
<1>3. CopyAt(p, t, f)
  BY <1>1, <1>2, OneCopy, Zenon
<1>5. Touching(p, {t[1]}, {f[1]}) /\ Parallel(p)
  BY <1>1, <1>3, CopyTouching
<1>4. Fits(p, GraphSizes(r)) /\ PlainReads(p)
  BY <1>1, <1>3 DEF Fits, PlainReads, CopyAt
<1> QED
  BY <1>1, <1>3, <1>4, <1>5 DEF Stores, CopyAt

\* Both join to longer programs.
LEMMA GraphLoads ==
  ASSUME NEW s, NEW p, NEW q, Loads(p, s), Loads(q, s), NEW R, NEW W, NEW A, NEW B,
         Touching(p, R, W), Touching(q, A, B), W \cap (A \cup B) = {}, R \cap B = {}
  PROVE  Loads(p \o q, s) /\ Touching(p \o q, R \cup A, W \cup B)
<1>1. p \in Seq(Item) /\ q \in Seq(Item)
  BY DEF Loads
<1>2. Touching(p \o q, R \cup A, W \cup B)
  BY <1>1, TouchingJoin
<1>3. \A i \in Commands(p) : \A k \in Commands(q) : Untouched(p[i], q[k])
  BY ByName
<1> QED
  BY <1>2, <1>3, LoadsJoin

StagingRoom == 827400

Load(lo, n, b) == <<Copy(Staging(lo, n), Whole(b))>>

LEMMA StagingLoad ==
  ASSUME NEW r \in Rank, NEW b \in GraphBuffer, NEW lo \in Nat, NEW n \in Nat, lo + n <= StagingRoom
  PROVE  Loads(Load(lo, n, b), GraphSizes(r)) /\ Touching(Load(lo, n, b), {"trainingStaging"}, {b})
<1> DEFINE p == Load(lo, n, b)
           hi == lo + n
           host == "trainingStaging"
<1>1. hi \in Nat
  OBVIOUS
<1>2. host \in DOMAIN GraphSizes(r) /\ hi <= GraphSizes(r)[host]
  BY GraphSizesAre, SMT DEF StagingRoom
<1>3. p = <<Copy(<<host, lo, hi>>, Whole(b))>>
  BY DEF Staging, Load
<1> HIDE DEF hi, host, p
<1>4. Loads(p, GraphSizes(r)) /\ Touching(p, {host}, {b})
  BY <1>1, <1>2, <1>3, GraphLoad
<1> QED
  BY <1>4, Zenon DEF host, p

\* Sequences of one, two and three elements, put together.
LEMMA PairJoined ==
  ASSUME NEW S, NEW a \in Seq(S), NEW b \in Seq(S), Len(b) = 1
  PROVE  /\ a \o b \in Seq(S) /\ Len(a \o b) = Len(a) + 1 /\ (a \o b)[Len(a) + 1] = b[1]
         /\ \A i \in 1 .. Len(a) : (a \o b)[i] = a[i]
<1>1. a \o b \in Seq(S) /\ Len(a \o b) = Len(a) + Len(b)
  BY ConcatProperties
<1>2. \A i \in 1 .. Len(a) + Len(b) : (a \o b)[i] = IF i <= Len(a) THEN a[i] ELSE b[i - Len(a)]
  BY ConcatProperties
<1> DEFINE c == a \o b
           n == Len(a)
<1>0. n \in Nat
  OBVIOUS
<1>3. \A i \in 1 .. n + 1 : c[i] = IF i <= n THEN a[i] ELSE b[i - n]
  BY <1>2
<1> HIDE DEF c, n
<1>4. c[n + 1] = b[1] /\ \A i \in 1 .. n : c[i] = a[i]
  <2>1. n + 1 \in 1 .. n + 1 /\ ~ (n + 1 <= n) /\ (n + 1) - n = 1 /\ \A i \in 1 .. n : i \in 1 .. n + 1 /\ i <= n
    BY <1>0
  <2> QED
    BY <1>3, <2>1
<1> QED
  BY <1>1, <1>4 DEF c, n

LEMMA TripleJoined ==
  ASSUME NEW S, NEW x \in S, NEW y \in S, NEW z \in S
  PROVE  <<x, y, z>> = (<<x>> \o <<y>>) \o <<z>>
<1> DEFINE a == <<x>>
           b == <<y>>
           c == <<z>>
           t == <<x, y, z>>
           d == a \o b
           u == d \o c
<1>1. a \in Seq(S) /\ Len(a) = 1 /\ a[1] = x /\ b \in Seq(S) /\ Len(b) = 1 /\ b[1] = y
      /\ c \in Seq(S) /\ Len(c) = 1 /\ c[1] = z
  OBVIOUS
<1>2. t \in Seq(S) /\ Len(t) = 3 /\ t[1] = x /\ t[2] = y /\ t[3] = z
  OBVIOUS
<1> HIDE DEF a, b, c, t
<1>3. d \in Seq(S) /\ Len(d) = Len(a) + 1 /\ d[Len(a) + 1] = b[1] /\ \A i \in 1 .. Len(a) : d[i] = a[i]
  BY <1>1, PairJoined
<1> HIDE DEF d
<1>4. d \in Seq(S) /\ Len(d) = 2 /\ d[1] = x /\ d[2] = y
  BY <1>1, <1>3
<1>5. u \in Seq(S) /\ Len(u) = Len(d) + 1 /\ u[Len(d) + 1] = c[1] /\ \A i \in 1 .. Len(d) : u[i] = d[i]
  <2>1. d \in Seq(S) /\ c \in Seq(S) /\ Len(c) = 1
    BY <1>1, <1>4
  <2> QED
    BY <2>1, PairJoined
<1> HIDE DEF u
<1>6. Len(u) = 3 /\ u[1] = x /\ u[2] = y /\ u[3] = z
  BY <1>1, <1>4, <1>5
<1>7. t = u
  <2>1. \A i \in 1 .. 3 : t[i] = u[i]
    BY <1>2, <1>6
  <2> QED
    BY <1>2, <1>5, <1>6, <2>1, SeqEqual
<1> QED
  BY <1>7 DEF t, u, d, a, b, c

\* A window is copied to three buffers of the graph.
LEMMA WindowLoads ==
  ASSUME NEW r \in Rank
  PROVE  /\ Loads(CopyWindow, GraphSizes(r))
         /\ Touching(CopyWindow, {"trainingStaging"}, {"tokens", "targets", "mask"})
<1> DEFINE h == "trainingStaging"
           s == GraphSizes(r)
           a == Load(0, 512, "tokens")
           b == Load(512, 512, "targets")
           c == Load(1024, 512, "mask")
<1>2. "tokens" \in GraphBuffer /\ "targets" \in GraphBuffer /\ "mask" \in GraphBuffer
  BY DEF GraphBuffer
<1>b. 0 + 512 <= StagingRoom /\ 512 + 512 <= StagingRoom /\ 1024 + 512 <= StagingRoom
      /\ 0 \in Nat /\ 512 \in Nat /\ 1024 \in Nat
  BY SMT DEF StagingRoom
<1>3. Loads(a, s) /\ Touching(a, {h}, {"tokens"})
  BY <1>2, <1>b, StagingLoad
<1>4. Loads(b, s) /\ Touching(b, {h}, {"targets"})
  BY <1>2, <1>b, StagingLoad
<1>5. Loads(c, s) /\ Touching(c, {h}, {"mask"})
  BY <1>2, <1>b, StagingLoad
<1>7. CopyWindow = (a \o b) \o c
  <2> DEFINE x == Copy(Staging(0, 512), Whole("tokens"))
             y == Copy(Staging(512, 512), Whole("targets"))
             z == Copy(Staging(1024, 512), Whole("mask"))
             S == {x, y, z}
  <2>1. x \in S /\ y \in S /\ z \in S
    OBVIOUS
  <2>2. CopyWindow = <<x, y, z>> /\ a = <<x>> /\ b = <<y>> /\ c = <<z>>
    BY DEF CopyWindow, Load
  <2> HIDE DEF x, y, z, a, b, c, S
  <2>3. <<x, y, z>> = (<<x>> \o <<y>>) \o <<z>>
    BY <2>1, TripleJoined, SMT
  <2> QED
    BY <2>2, <2>3, Zenon
<1> HIDE DEF a, b, c, s, h
<1>8. {h} \cap {"tokens", "targets", "mask"} = {}
  BY DEF h
<1>9. Loads(a \o b, s) /\ Touching(a \o b, {h} \cup {h}, {"tokens"} \cup {"targets"})
  <2>1. {"tokens"} \cap ({h} \cup {"targets"}) = {} /\ {h} \cap {"targets"} = {}
    BY <1>8
  <2> QED
    BY <1>3, <1>4, <2>1, GraphLoads
<1>10. /\ Loads((a \o b) \o c, s)
       /\ Touching((a \o b) \o c, ({h} \cup {h}) \cup {h}, ({"tokens"} \cup {"targets"}) \cup {"mask"})
  <2>1. ({"tokens"} \cup {"targets"}) \cap (({h} \cup {h}) \cup {"mask"} \cup {h}) = {}
        /\ ({h} \cup {h}) \cap {"mask"} = {}
    BY <1>8
  <2> QED
    BY <1>5, <1>9, <2>1, GraphLoads
<1>11. ({h} \cup {h}) \cup {h} = {h} /\ ({"tokens"} \cup {"targets"}) \cup {"mask"} = {"tokens", "targets", "mask"}
  OBVIOUS
<1> QED
  BY <1>7, <1>10, <1>11 DEF h, s

LEMMA LoadWindowDone ==
  ASSUME NEW r \in Rank
  PROVE  Started(LoadWindow, GraphSizes(r)) /\ Closed(LoadWindow)
BY WindowLoads, UploadDoneCloses DEF LoadWindow

\* One more step of a program: kernels, a barrier, a copy between buffers.
LEMMA NextRun ==
  ASSUME NEW r \in Rank, NEW p, Started(p, GraphSizes(r)), Closed(p),
         NEW ks \in Seq(KernelName), ks # <<>>
  PROVE  Started(p \o Run(ks), GraphSizes(r)) /\ ClosedCopies(p \o Run(ks)) /\ Drained(p \o Run(ks))
BY RunKernels, ThenKernels

LEMMA NextDo ==
  ASSUME NEW r \in Rank, NEW p, Started(p, GraphSizes(r)), Closed(p), NEW k \in KernelName
  PROVE  Started(p \o Do(k), GraphSizes(r)) /\ ClosedCopies(p \o Do(k)) /\ Drained(p \o Do(k))
BY DoKernels, ThenKernels

\* A single copy from buffer to buffer, between two barriers that are enough.
LEMMA SoleCopy ==
  ASSUME NEW r \in Rank, NEW from \in GraphBuffer, NEW to \in GraphBuffer, NEW q \in Seq(Item),
         NEW k \in 1 .. Len(q), Commands(q) = {k}, q[k] = Copy(Whole(from), Whole(to)),
         NEW a \in 1 .. Len(q), a < k, Begins(q[a]), "TR" \in q[a].shows,
         q[a].on = {} \/ from \in q[a].on,
         NEW b \in 1 .. Len(q), k < b, q[b].stage = "barrier", "T" \in q[b].from, "C" \in q[b].to,
         "TW" \in q[b].makes, "CR" \in q[b].shows, q[b].on = {} \/ to \in q[b].on
  PROVE  Started(q, GraphSizes(r)) /\ PlainReads(q) /\ Opened(q) /\ Closed(q)
<1>0. "readback" \in DOMAIN GraphSizes(r)
  BY GraphSizesAre
<1>1. /\ Whole(from) \in Place /\ Whole(from)[1] = from /\ from \notin DOMAIN GraphSizes(r)
      /\ Whole(to) \in Place /\ Whole(to)[1] = to /\ to \notin DOMAIN GraphSizes(r)
  BY <1>0, GraphPlaces
<1>2. q[k].stage = "T" /\ q[k].reads = {Whole(from)} /\ q[k].writes = {Whole(to)}
  BY DEF Copy
<1>3. Safe(q)
  BY DEF Safe
<1>4. Fits(q, GraphSizes(r)) /\ Tame(q, GraphSizes(r)) /\ PlainReads(q)
  BY <1>1, <1>2 DEF Fits, Tame, PlainReads
<1>5. OpenedAt(q, k)
  BY <1>1, <1>2 DEF OpenedAt, Concerns
<1>6. Ends(q[b], q[k])
  BY <1>1, <1>2 DEF Ends, WriteAccess, Concerns
<1> QED
  BY <1>3, <1>4, <1>5, <1>6 DEF Started, Opened, Closed

LEMMA Carries ==
  ASSUME NEW r \in Rank, NEW from \in GraphBuffer, NEW to \in GraphBuffer
  PROVE  LET q == CarryOver(from, to)
         IN  Started(q, GraphSizes(r)) /\ PlainReads(q) /\ Opened(q) /\ Closed(q)
<1> DEFINE q == CarryOver(from, to)
           b1 == Barrier(AnyStage, {"T"}, {"CW"}, {"TR"}, {from})
           b2 == Barrier(AnyStage, {"T"}, {"CR", "TR", "TW"}, {"TW"}, {to})
           c == Copy(Whole(from), Whole(to))
<1>0. "readback" \in DOMAIN GraphSizes(r)
  BY GraphSizesAre
<1>1. c \in Command /\ c.stage = "T"
  <2>1. Whole(from) \in Place /\ Whole(to) \in Place
    BY <1>0, GraphPlaces
  <2>2. c \in Command
    BY <2>1, OneCopy, Zenon
  <2> QED
    BY <2>2 DEF Copy
<1>2. {from} \in SUBSET Buffer /\ {to} \in SUBSET Buffer /\ AnyStage \in SUBSET AnyStage
      /\ {"T"} \in SUBSET AnyStage /\ {"CW"} \in SUBSET AnyAccess /\ {"TR"} \in SUBSET AnyAccess
      /\ {"CR", "TR", "TW"} \in SUBSET AnyAccess /\ {"TW"} \in SUBSET AnyAccess
  BY GraphBufferIs DEF AnyStage, AnyAccess
<1>3. b1 \in Fence /\ b2 \in Fence /\ UploadDone \in Fence
  BY <1>2, BarrierFence, UsualFences
<1>4. /\ b1.stage = "barrier" /\ b1.from = AnyStage /\ b1.to = {"T"} /\ b1.shows = {"TR"} /\ b1.on = {from}
      /\ b2.stage = "barrier"
      /\ UploadDone.stage = "barrier" /\ UploadDone.from = {"T"} /\ UploadDone.to = {"C"}
      /\ UploadDone.makes = {"TW"} /\ UploadDone.shows = {"CR"} /\ UploadDone.on = {}
  BY DEF Barrier, UploadDone
<1>5. q = <<b1, b2, c, UploadDone>>
  BY DEF CarryOver
<1> HIDE DEF b1, b2, c, q
<1>6. Len(q) = 4 /\ q[1] = b1 /\ q[2] = b2 /\ q[3] = c /\ q[4] = UploadDone /\ q \in Seq(Item)
      /\ DOMAIN q = 1 .. 4
  BY <1>1, <1>3, <1>5 DEF Item
<1>7. Commands(q) = {3}
  BY <1>1, <1>4, <1>6 DEF Commands
<1>8. Begins(q[1])
  BY <1>4, <1>6 DEF Begins, AnyStage
<1>9. Started(q, GraphSizes(r)) /\ PlainReads(q) /\ Opened(q) /\ Closed(q)
  <2>1. 3 \in 1 .. Len(q) /\ 1 \in 1 .. Len(q) /\ 4 \in 1 .. Len(q) /\ 1 < 3 /\ 3 < 4
    BY <1>6
  <2>2. q[3] = Copy(Whole(from), Whole(to))
    BY <1>6 DEF c
  <2>3. "TR" \in q[1].shows /\ from \in q[1].on
    BY <1>4, <1>6
  <2>4. /\ q[4].stage = "barrier" /\ "T" \in q[4].from /\ "C" \in q[4].to /\ "TW" \in q[4].makes
        /\ "CR" \in q[4].shows /\ q[4].on = {}
    BY <1>4, <1>6
  <2> QED
    BY <1>6, <1>7, <1>8, <2>1, <2>2, <2>3, <2>4, SoleCopy
<1> QED
  BY <1>9 DEF q

LEMMA NextCarry ==
  ASSUME NEW r \in Rank, NEW p, Started(p, GraphSizes(r)), Closed(p),
         NEW from \in GraphBuffer, NEW to \in GraphBuffer
  PROVE  Started(p \o CarryOver(from, to), GraphSizes(r)) /\ Closed(p \o CarryOver(from, to))
BY Carries, Continue

LEMMA NamesJoined ==
  ASSUME NEW S, NEW a \in Seq(S), NEW b \in Seq(S), a # <<>>
  PROVE  a \o b \in Seq(S) /\ a \o b # <<>>
<1>1. a \o b \in Seq(S) /\ Len(a \o b) = Len(a) + Len(b)
  BY ConcatProperties
<1>2. Len(a) > 0 /\ Len(b) \in Nat
  BY EmptySeq
<1>3. Len(a \o b) # 0
  BY <1>1, <1>2
<1> QED
  BY <1>1, <1>3, EmptySeq

\* Sequences of kernels that the programs put together.
Named(ks) == ks \in Seq(KernelName) /\ ks # <<>>

LEMMA NamedJoined ==
  ASSUME NEW a, NEW b, Named(a), Named(b)
  PROVE  Named(a \o b)
BY NamesJoined DEF Named

LEMMA LengthNamed ==
  ASSUME NEW ks \in Seq(KernelName), NEW n \in Nat, Len(ks) = n + 1
  PROVE  Named(ks)
<1>1. Len(ks) # 0
  OBVIOUS
<1>2. ks # <<>>
  BY <1>1
<1> QED
  BY <1>2 DEF Named

LEMMA KernelsNamed ==
  \A k \in KernelName : Named(<<k>>)
<1> SUFFICES ASSUME NEW k \in KernelName PROVE Named(<<k>>)
  OBVIOUS
<1> DEFINE t == <<k>>
<1>1. t \in Seq(KernelName) /\ Len(t) = 0 + 1 /\ 0 \in Nat
  OBVIOUS
<1> HIDE DEF t
<1>2. Named(t)
  BY <1>1, LengthNamed
<1> QED
  BY <1>2 DEF t

LEMMA TwoNamed ==
  ASSUME NEW a \in KernelName, NEW b \in KernelName
  PROVE  Named(<<a, b>>)
<1> DEFINE t == <<a, b>>
<1>1. t \in Seq(KernelName) /\ Len(t) = 1 + 1 /\ 1 \in Nat
  OBVIOUS
<1> HIDE DEF t
<1>2. Named(t)
  BY <1>1, LengthNamed
<1> QED
  BY <1>2 DEF t

LEMMA ThreeNamed ==
  ASSUME NEW a \in KernelName, NEW b \in KernelName, NEW c \in KernelName
  PROVE  Named(<<a, b, c>>)
<1> DEFINE t == <<a, b, c>>
<1>1. t \in Seq(KernelName) /\ Len(t) = 2 + 1 /\ 2 \in Nat
  OBVIOUS
<1> HIDE DEF t
<1>2. Named(t)
  BY <1>1, LengthNamed
<1> QED
  BY <1>2 DEF t

LEMMA FourNamed ==
  ASSUME NEW a \in KernelName, NEW b \in KernelName, NEW c \in KernelName, NEW d \in KernelName
  PROVE  Named(<<a, b, c, d>>)
<1> DEFINE t == <<a, b, c, d>>
<1>1. t \in Seq(KernelName) /\ Len(t) = 3 + 1 /\ 3 \in Nat
  OBVIOUS
<1> HIDE DEF t
<1>2. Named(t)
  BY <1>1, LengthNamed
<1> QED
  BY <1>2 DEF t

LEMMA SixNamed ==
  ASSUME NEW a \in KernelName, NEW b \in KernelName, NEW c \in KernelName, NEW d \in KernelName,
         NEW e \in KernelName, NEW f \in KernelName
  PROVE  Named(<<a, b, c, d, e, f>>)
<1> DEFINE t == <<a, b, c, d, e, f>>
<1>1. t \in Seq(KernelName) /\ Len(t) = 5 + 1 /\ 5 \in Nat
  OBVIOUS
<1> HIDE DEF t
<1>2. Named(t)
  BY <1>1, LengthNamed
<1> QED
  BY <1>2 DEF t

LEMMA KernelNames ==
  /\ "forward" \in KernelName /\ "loss" \in KernelName /\ "lmBackward" \in KernelName
  /\ "lmHeadGradient" \in KernelName /\ "lmHeadSgd" \in KernelName /\ "lmHeadAdamw" \in KernelName
  /\ "outputGradient" \in KernelName /\ "outputSgd" \in KernelName /\ "outputAdamw" \in KernelName
  /\ "projBackward" \in KernelName /\ "attentionQ" \in KernelName /\ "attentionK" \in KernelName
  /\ "attentionV" \in KernelName /\ "qkvGradient" \in KernelName /\ "qkvSgd" \in KernelName
  /\ "qkvAdamw" \in KernelName /\ "projQ" \in KernelName /\ "projKV" \in KernelName
  /\ "projVV" \in KernelName /\ "embeddingGradient" \in KernelName /\ "embeddingSgd" \in KernelName
  /\ "positionGradient" \in KernelName /\ "positionSgd" \in KernelName
  /\ "positionAdamw" \in KernelName /\ "rmsFixed" \in KernelName /\ "ffnForward" \in KernelName
  /\ "lmHeadForward" \in KernelName /\ "ffnBackward" \in KernelName /\ "ffnGradient" \in KernelName
  /\ "rmsDgamma" \in KernelName /\ "rmsBackwardState" \in KernelName /\ "gammaAdamw" \in KernelName
  /\ "ffnW1Adamw" \in KernelName /\ "ffnB1Adamw" \in KernelName /\ "ffnW2Adamw" \in KernelName
  /\ "ffnB2Adamw" \in KernelName /\ "rmsNormGradient" \in KernelName /\ "metrics" \in KernelName
  /\ "rmsForward" \in KernelName /\ "rmsState" \in KernelName /\ "loraClear" \in KernelName
  /\ "loraAdamw" \in KernelName /\ "loraFinalize" \in KernelName
BY DEF KernelName

LEMMA GradientsNamed == Named(LossGradient) /\ Named(StateGradient)
<1>1. Named(LossGradient)
  BY KernelNames, ThreeNamed DEF LossGradient
<1>2. Named(StateGradient)
  BY KernelNames, SixNamed DEF StateGradient
<1> QED
  BY <1>1, <1>2

\* A window from the staging buffer and kernels behind it.
LEMMA WindowRunGood ==
  ASSUME NEW r \in Rank, NEW ks, Named(ks)
  PROVE  Good(LoadWindow \o Run(ks), GraphSizes(r))
<1>1. ks \in Seq(KernelName) /\ ks # <<>>
  BY DEF Named
<1>2. Started(LoadWindow \o Run(ks), GraphSizes(r))
  BY <1>1, LoadWindowDone, NextRun
<1> QED
  BY <1>2, StartedGood

\* The operations that load a window and run kernels over it.
LEMMA WindowOperationsGood ==
  ASSUME NEW r \in Rank
  PROVE  /\ Good(train_lm_head_sgd, GraphSizes(r))
         /\ Good(train_output_sgd, GraphSizes(r))
         /\ Good(train_qkv_sgd, GraphSizes(r))
         /\ Good(train_embeddings_sgd, GraphSizes(r))
         /\ Good(train_lm_head_adamw, GraphSizes(r))
         /\ Good(train_output_adamw, GraphSizes(r))
         /\ Good(train_ffn_forward_loss, GraphSizes(r))
<1>1. Good(train_lm_head_sgd, GraphSizes(r))
  <2>1. Named(<<"forward", "loss", "lmHeadGradient", "lmHeadSgd">>)
    BY KernelNames, FourNamed
  <2> QED
    BY <2>1, WindowRunGood DEF train_lm_head_sgd
<1>2. Good(train_output_sgd, GraphSizes(r))
  <2>1. Named(<<"outputGradient", "outputSgd">>)
    BY KernelNames, TwoNamed
  <2>2. Named(LossGradient \o <<"outputGradient", "outputSgd">>)
    BY <2>1, GradientsNamed, NamedJoined
  <2> QED
    BY <2>2, WindowRunGood DEF train_output_sgd
<1>3. Good(train_qkv_sgd, GraphSizes(r))
  <2>1. Named(<<"projBackward", "attentionQ", "attentionK", "attentionV", "qkvGradient", "qkvSgd">>)
    BY KernelNames, SixNamed
  <2>2. Named(LossGradient \o <<"projBackward", "attentionQ", "attentionK", "attentionV",
                                "qkvGradient", "qkvSgd">>)
    BY <2>1, GradientsNamed, NamedJoined
  <2> QED
    BY <2>2, WindowRunGood DEF train_qkv_sgd
<1>4. Good(train_embeddings_sgd, GraphSizes(r))
  <2>1. Named(<<"projBackward">>) /\ Named(<<"embeddingGradient", "embeddingSgd">>)
    BY KernelNames, KernelsNamed, TwoNamed
  <2>2. Named(LossGradient \o <<"projBackward">>)
    BY <2>1, GradientsNamed, NamedJoined
  <2>3. Named(LossGradient \o <<"projBackward">> \o StateGradient)
    BY <2>2, GradientsNamed, NamedJoined
  <2>4. Named(LossGradient \o <<"projBackward">> \o StateGradient
                \o <<"embeddingGradient", "embeddingSgd">>)
    BY <2>1, <2>3, NamedJoined
  <2> QED
    BY <2>4, WindowRunGood DEF train_embeddings_sgd
<1>5. Good(train_lm_head_adamw, GraphSizes(r))
  <2>1. Named(<<"forward", "loss", "lmHeadGradient", "lmHeadAdamw">>)
    BY KernelNames, FourNamed
  <2> QED
    BY <2>1, WindowRunGood DEF train_lm_head_adamw
<1>6. Good(train_output_adamw, GraphSizes(r))
  <2>1. Named(<<"outputGradient", "outputAdamw">>)
    BY KernelNames, TwoNamed
  <2>2. Named(LossGradient \o <<"outputGradient", "outputAdamw">>)
    BY <2>1, GradientsNamed, NamedJoined
  <2> QED
    BY <2>2, WindowRunGood DEF train_output_adamw
<1>7. Good(train_ffn_forward_loss, GraphSizes(r))
  <2>1. Named(<<"forward", "ffnForward", "rmsNormGradient">>)
    BY KernelNames, ThreeNamed
  <2> QED
    BY <2>1, WindowRunGood DEF train_ffn_forward_loss
<1> QED
  BY <1>1, <1>2, <1>3, <1>4, <1>5, <1>6, <1>7

\* One kernel, or nothing but kernels that do not touch each other's buffers.
LEMMA DoGood ==
  ASSUME NEW r \in Rank, NEW k \in KernelName
  PROVE  Good(Do(k), GraphSizes(r)) /\ Good(<<KernelDone>> \o Do(k), GraphSizes(r))
<1>1. Kernels(Do(k), GraphSizes(r))
  BY DoKernels
<1>2. Good(Do(k), GraphSizes(r))
  BY <1>1, StartedGood DEF Kernels
<1>3. Started(<<KernelDone>>, GraphSizes(r)) /\ Closed(<<KernelDone>>)
  BY FenceAlone, UsualFences, LoadsStarted
<1>4. Started(<<KernelDone>> \o Do(k), GraphSizes(r))
  BY <1>1, <1>3, ThenKernels
<1> QED
  BY <1>2, <1>4, StartedGood

\* The operations of one kernel.
LEMMA SingleKernelsGood ==
  ASSUME NEW r \in Rank
  PROVE  /\ Good(train_qkv_adamw_from_gradients, GraphSizes(r))
         /\ Good(run_ffn_w1_adamw, GraphSizes(r))
         /\ Good(run_rmsnorm_gamma_adamw_staged, GraphSizes(r))
         /\ Good(begin_lora_accumulation, GraphSizes(r))
         /\ Good(finalize_lora_adamw, GraphSizes(r))
         /\ Good(finalize_lora_sgd, GraphSizes(r))
         /\ Good(run_rmsnorm_forward_staged, GraphSizes(r))
         /\ Good(run_rmsnorm_state_only_staged, GraphSizes(r))
         /\ Good(run_rmsnorm_backward_staged, GraphSizes(r))
         /\ Good(run_rmsnorm_dgamma_staged, GraphSizes(r))
         /\ Good(run_rmsnorm_gamma_gradient, GraphSizes(r))
         /\ Good(run_ffn_forward, GraphSizes(r))
         /\ Good(run_ffn_backward, GraphSizes(r))
         /\ Good(run_ffn_parameter_gradients, GraphSizes(r))
BY KernelNames, DoGood
   DEF train_qkv_adamw_from_gradients, run_ffn_w1_adamw, run_rmsnorm_gamma_adamw_staged,
       begin_lora_accumulation, finalize_lora_adamw, finalize_lora_sgd, run_rmsnorm_forward_staged,
       run_rmsnorm_state_only_staged, run_rmsnorm_backward_staged, run_rmsnorm_dgamma_staged,
       run_rmsnorm_gamma_gradient, run_ffn_forward, run_ffn_backward, run_ffn_parameter_gradients

LEMMA FourSplit ==
  ASSUME NEW S, NEW x \in S, NEW y \in S, NEW z \in S, NEW u \in S
  PROVE  <<x, y, z, u>> = <<x>> \o <<y, z, u>>
<1> DEFINE a == <<x>>
           b == <<y, z, u>>
           t == <<x, y, z, u>>
           d == a \o b
<1>1. a \in Seq(S) /\ Len(a) = 1 /\ a[1] = x
  OBVIOUS
<1>2. b \in Seq(S) /\ Len(b) = 3 /\ b[1] = y /\ b[2] = z /\ b[3] = u
  OBVIOUS
<1>3. t \in Seq(S) /\ Len(t) = 4 /\ t[1] = x /\ t[2] = y /\ t[3] = z /\ t[4] = u
  OBVIOUS
<1> HIDE DEF a, b, t
<1>4. d \in Seq(S) /\ Len(d) = Len(a) + Len(b)
  BY <1>1, <1>2, ConcatProperties
<1>5. \A i \in 1 .. Len(a) + Len(b) : d[i] = IF i <= Len(a) THEN a[i] ELSE b[i - Len(a)]
  BY <1>1, <1>2, ConcatProperties
<1> HIDE DEF d
<1>6. Len(d) = 4 /\ \A i \in 1 .. 4 : d[i] = IF i <= 1 THEN a[i] ELSE b[i - 1]
  BY <1>1, <1>2, <1>4, <1>5
<1>7. d[1] = x /\ d[2] = y /\ d[3] = z /\ d[4] = u
  BY <1>1, <1>2, <1>6
<1>8. t = d
  <2>1. \A i \in 1 .. 4 : t[i] = d[i]
    BY <1>3, <1>7
  <2> QED
    BY <1>3, <1>4, <1>6, <2>1, SeqEqual
<1> QED
  BY <1>8 DEF t, d, a, b

LEMMA RunThenDone ==
  ASSUME NEW r \in Rank, NEW p, Started(p, GraphSizes(r)), Closed(p), NEW ks, Named(ks)
  PROVE  /\ Started((p \o Run(ks)) \o <<KernelDone>>, GraphSizes(r))
         /\ Closed((p \o Run(ks)) \o <<KernelDone>>)
<1>1. ks \in Seq(KernelName) /\ ks # <<>>
  BY DEF Named
<1>2. Started(p \o Run(ks), GraphSizes(r)) /\ ClosedCopies(p \o Run(ks))
  BY <1>1, NextRun
<1> QED
  BY <1>2, KernelDoneCloses

LEMMA DoThenDone ==
  ASSUME NEW r \in Rank, NEW p, Started(p, GraphSizes(r)), Closed(p), NEW k \in KernelName
  PROVE  /\ Started((p \o Do(k)) \o <<KernelDone>>, GraphSizes(r))
         /\ Closed((p \o Do(k)) \o <<KernelDone>>)
<1>2. Started(p \o Do(k), GraphSizes(r)) /\ ClosedCopies(p \o Do(k))
  BY NextDo
<1> QED
  BY <1>2, KernelDoneCloses

LEMMA RunEnds ==
  ASSUME NEW r \in Rank, NEW p, Started(p, GraphSizes(r)), Closed(p), NEW ks, Named(ks)
  PROVE  Good(p \o Run(ks), GraphSizes(r)) /\ Started(p \o Run(ks), GraphSizes(r)) /\ Drained(p \o Run(ks))
<1>1. ks \in Seq(KernelName) /\ ks # <<>>
  BY DEF Named
<1>2. Started(p \o Run(ks), GraphSizes(r)) /\ Drained(p \o Run(ks))
  BY <1>1, NextRun
<1> QED
  BY <1>2, StartedGood

LEMMA BarrierIs ==
  ASSUME NEW from, NEW to, NEW makes, NEW shows, NEW on
  PROVE  LET b == Barrier(from, to, makes, shows, on)
         IN  /\ b.stage = "barrier" /\ b.from = from /\ b.to = to
             /\ b.makes = makes /\ b.shows = shows /\ b.on = on
BY DEF Barrier

\* The two position steps copy dcontext to doutput between their kernels.
LEMMA PositionsSgdGood ==
  ASSUME NEW r \in Rank
  PROVE  Good(train_positions_sgd, GraphSizes(r))
<1> DEFINE b1 == Barrier({"C"}, {"T"}, {"CW"}, {"TR"}, {"dcontext"})
           b2 == Barrier({"T"}, {"C"}, {"TW"}, {"CR"}, {"doutput"})
           from == "dcontext"
           to == "doutput"
           c == Copy(Whole(from), Whole(to))
           m == <<b1, c, b2>>
           ks == LossGradient \o <<"projBackward">>
           ls == StateGradient \o <<"positionGradient", "positionSgd">>
<1>1. Named(ks) /\ Named(ls)
  BY KernelNames, GradientsNamed, KernelsNamed, TwoNamed, NamedJoined
<1>2. from \in GraphBuffer /\ to \in GraphBuffer
  BY DEF GraphBuffer
<1>3. b1 \in Fence /\ b2 \in Fence /\ KernelDone \in Fence
  <2>1. {from} \in SUBSET Buffer /\ {to} \in SUBSET Buffer
        /\ {"T"} \in SUBSET AnyStage /\ {"C"} \in SUBSET AnyStage
        /\ {"CW"} \in SUBSET AnyAccess /\ {"TR"} \in SUBSET AnyAccess
        /\ {"CR"} \in SUBSET AnyAccess /\ {"TW"} \in SUBSET AnyAccess
    BY <1>2, GraphBufferIs DEF AnyStage, AnyAccess
  <2> QED
    BY <2>1, BarrierFence, UsualFences
<1>4. c \in Item
  <2>1. "readback" \in DOMAIN GraphSizes(r)
    BY GraphSizesAre
  <2>2. Whole(from) \in Place /\ Whole(to) \in Place
    BY <1>2, <2>1, GraphPlaces
  <2>3. c \in Command
    BY <2>2, OneCopy, Zenon
  <2> QED
    BY <2>3 DEF Item
<1>5. /\ b1.stage = "barrier" /\ b1.from = {"C"} /\ b1.to = {"T"} /\ b1.shows = {"TR"} /\ b1.on = {from}
      /\ b2.stage = "barrier" /\ b2.from = {"T"} /\ b2.to = {"C"} /\ b2.makes = {"TW"}
      /\ b2.shows = {"CR"} /\ b2.on = {to} /\ c.stage = "T"
  BY DEF Barrier, Copy
<1>6. train_positions_sgd = ((LoadWindow \o Run(ks)) \o <<KernelDone, b1, c, b2>>) \o Run(ls)
  BY DEF train_positions_sgd
<1>7. c = Copy(Whole(from), Whole(to)) /\ m = <<b1, c, b2>>
  OBVIOUS
<1> HIDE DEF b1, b2, c, ks, ls, from, to, m
<1>8. m \in Seq(Item) /\ Len(m) = 3 /\ m[1] = b1 /\ m[2] = c /\ m[3] = b2 /\ DOMAIN m = 1 .. 3
  BY <1>3, <1>4, <1>7 DEF Item
<1>9. Commands(m) = {2}
  BY <1>5, <1>8 DEF Commands
<1>10. Started(m, GraphSizes(r)) /\ PlainReads(m) /\ Opened(m) /\ Closed(m)
  <2>1. 2 \in 1 .. Len(m) /\ 1 \in 1 .. Len(m) /\ 3 \in 1 .. Len(m) /\ 1 < 2 /\ 2 < 3
    BY <1>8
  <2>2. m[2] = Copy(Whole(from), Whole(to)) /\ Begins(m[1]) /\ "TR" \in m[1].shows /\ from \in m[1].on
    BY <1>5, <1>7, <1>8 DEF Begins
  <2>3. /\ m[3].stage = "barrier" /\ "T" \in m[3].from /\ "C" \in m[3].to /\ "TW" \in m[3].makes
        /\ "CR" \in m[3].shows /\ to \in m[3].on
    BY <1>5, <1>8
  <2> QED
    BY <1>2, <1>8, <1>9, <2>1, <2>2, <2>3, SoleCopy
<1>11. <<KernelDone, b1, c, b2>> = <<KernelDone>> \o m
  <2>1. KernelDone \in Item /\ b1 \in Item /\ b2 \in Item
    BY <1>3 DEF Item
  <2>2. <<KernelDone, b1, c, b2>> = <<KernelDone>> \o <<b1, c, b2>>
    BY <1>4, <2>1, FourSplit, SMTT(60)
  <2> QED
    BY <1>7, <2>2, Zenon
<1> DEFINE p == LoadWindow \o Run(ks)
           q == p \o <<KernelDone>>
           f == <<KernelDone>>
<1>12. Started(q, GraphSizes(r)) /\ Closed(q)
  BY <1>1, LoadWindowDone, RunThenDone
<1>13. p \in Seq(Item) /\ f \in Seq(Item)
  <2>1. Started(p, GraphSizes(r))
    BY <1>1, LoadWindowDone, RunEnds
  <2> QED
    BY <1>3, <2>1, FenceAlone DEF Started
<1>14. q = p \o f /\ train_positions_sgd = (p \o (f \o m)) \o Run(ls)
  BY <1>6, <1>11
<1> HIDE DEF p, q, f
<1>15. p \o (f \o m) = q \o m
  BY <1>8, <1>13, <1>14, Regroup
<1>16. Started(q \o m, GraphSizes(r)) /\ Closed(q \o m)
  BY <1>10, <1>12, Continue
<1>17. Good((q \o m) \o Run(ls), GraphSizes(r))
  BY <1>1, <1>16, RunEnds
<1> QED
  BY <1>14, <1>15, <1>17

LEMMA StagingFence ==
  ASSUME NEW makes \in SUBSET AnyAccess, NEW shows \in SUBSET AnyAccess
  PROVE  \E b \in Fence : StagingBarrier(makes, shows) = <<b>> /\ b.on = {"trainingStaging"}
<1> DEFINE b == Barrier({"T"}, {"T"}, makes, shows, {"trainingStaging"})
<1>1. {"T"} \in SUBSET AnyStage /\ {"trainingStaging"} \in SUBSET Buffer
  BY DEF AnyStage, Buffer, HostBuffer
<1>2. b \in Fence
  BY <1>1, BarrierFence
<1>3. b.on = {"trainingStaging"}
  BY DEF Barrier
<1>4. StagingBarrier(makes, shows) = <<b>>
  BY DEF StagingBarrier
<1> QED
  BY <1>2, <1>3, <1>4

LEMMA PairSplit ==
  ASSUME NEW S, NEW x \in S, NEW y \in S
  PROVE  <<x, y>> = <<x>> \o <<y>>
<1> DEFINE a == <<x>>
           b == <<y>>
           t == <<x, y>>
           d == a \o b
<1>1. a \in Seq(S) /\ Len(a) = 1 /\ a[1] = x /\ b \in Seq(S) /\ Len(b) = 1 /\ b[1] = y
  OBVIOUS
<1>2. t \in Seq(S) /\ Len(t) = 2 /\ t[1] = x /\ t[2] = y
  OBVIOUS
<1> HIDE DEF a, b, t
<1>3. d \in Seq(S) /\ Len(d) = Len(a) + 1 /\ d[Len(a) + 1] = b[1] /\ \A i \in 1 .. Len(a) : d[i] = a[i]
  BY <1>1, PairJoined
<1> HIDE DEF d
<1>4. Len(d) = 2 /\ d[1] = x /\ d[2] = y
  BY <1>1, <1>3
<1>5. t = d
  <2>1. \A i \in 1 .. 2 : t[i] = d[i]
    BY <1>2, <1>4
  <2> QED
    BY <1>2, <1>3, <1>4, <2>1, SeqEqual
<1> QED
  BY <1>5 DEF t, d, a, b

LEMMA TwoFences ==
  ASSUME NEW a \in Fence, NEW b \in Fence, NEW s, NEW p, Loads(p, s)
  PROVE  Loads(<<a, b>> \o p, s)
<1> DEFINE f == <<a>>
           g == <<b>>
<1>1. f \in Seq(Item) /\ g \in Seq(Item) /\ p \in Seq(Item)
  BY FenceAlone DEF Loads
<1>2. <<a, b>> = f \o g
  <2>1. a \in Item /\ b \in Item
    BY DEF Item
  <2> QED
    BY <2>1, PairSplit
<1>3. Loads(g \o p, s)
  BY LoadsFenced
<1>4. Loads(f \o (g \o p), s)
  BY <1>3, LoadsFenced
<1> HIDE DEF f, g
<1>5. (f \o g) \o p = f \o (g \o p)
  BY <1>1, Regroup
<1> QED
  BY <1>2, <1>4, <1>5, Zenon

LEMMA PositionsAdamwGood ==
  ASSUME NEW r \in Rank
  PROVE  Good(train_positions_adamw, GraphSizes(r))
<1> DEFINE b1 == Barrier(AnyStage, {"T"}, AnyAccess, {"TW"}, {})
           b2 == Barrier(AnyStage, {"T"}, {"CR", "TW"}, {"TW"}, {"tokens", "targets", "mask"})
           p0 == (<<b1, b2>> \o CopyWindow) \o StagingBarrier({"TR"}, {"TW"})
           p1 == p0 \o <<UploadDone>>
           p2 == (p1 \o Run(<<"forward", "rmsFixed">>)) \o <<KernelDone>>
           p3 == p2 \o CarryOver("states", "gammaInput")
           p4 == (p3 \o Do("ffnForward")) \o <<KernelDone>>
           p5 == p4 \o CarryOver("ffnOutput", "projected")
           p6 == (p5 \o Run(<<"lmHeadForward", "loss", "lmBackward", "ffnBackward">>)) \o <<KernelDone>>
           p7 == p6 \o CarryOver("ffnDx", "dprojected")
           p8 == (p7 \o Run(<<"ffnGradient", "rmsDgamma", "rmsBackwardState">>)) \o <<KernelDone>>
           p9 == p8 \o CarryOver("rmsDx", "dprojected")
           p10 == (p9 \o Do("projBackward")) \o <<KernelDone>>
           p11 == p10 \o CarryOver("dcontext", "doutput")
           p12 == (p11 \o Run(StateGradient \o <<"positionGradient">>)) \o <<KernelDone>>
           p13 == p12 \o CarryOver("dstates", "gammaInput")
           p14 == p13 \o Run(<<"gammaAdamw", "ffnW1Adamw", "ffnB1Adamw", "ffnW2Adamw",
                              "ffnB2Adamw", "positionAdamw">>)
           Ready(p) == Started(p, GraphSizes(r)) /\ Closed(p)
<1>1. train_positions_adamw = p14
  BY DEF train_positions_adamw
<1>2. /\ "states" \in GraphBuffer /\ "gammaInput" \in GraphBuffer /\ "ffnOutput" \in GraphBuffer
      /\ "projected" \in GraphBuffer /\ "ffnDx" \in GraphBuffer /\ "dprojected" \in GraphBuffer
      /\ "rmsDx" \in GraphBuffer /\ "dcontext" \in GraphBuffer /\ "doutput" \in GraphBuffer
      /\ "dstates" \in GraphBuffer /\ "tokens" \in GraphBuffer /\ "targets" \in GraphBuffer
      /\ "mask" \in GraphBuffer
  BY DEF GraphBuffer
<1>3. b1 \in Fence /\ b2 \in Fence
  <2>1. {"tokens", "targets", "mask"} \in SUBSET Buffer /\ {} \in SUBSET Buffer
    BY <1>2, GraphBufferIs
  <2>2. /\ AnyStage \in SUBSET AnyStage /\ {"T"} \in SUBSET AnyStage
        /\ AnyAccess \in SUBSET AnyAccess /\ {"TW"} \in SUBSET AnyAccess
        /\ {"CR", "TW"} \in SUBSET AnyAccess
    BY DEF AnyStage, AnyAccess
  <2> QED
    BY <2>1, <2>2, BarrierFence
<1> HIDE DEF b1, b2
<1>4. Loads(<<b1, b2>> \o CopyWindow, GraphSizes(r))
  BY <1>3, WindowLoads, TwoFences
<1>5. Loads(p0, GraphSizes(r))
  <2>1. {"TR"} \in SUBSET AnyAccess /\ {"TW"} \in SUBSET AnyAccess
    BY DEF AnyAccess
  <2>2. PICK b \in Fence : StagingBarrier({"TR"}, {"TW"}) = <<b>>
    BY <2>1, StagingFence
  <2> QED
    BY <1>4, <2>2, LoadsFenced
<1> HIDE DEF p0
<1>6. Ready(p1)
  BY <1>5, UploadDoneCloses
<1>a. \A p, ks : Ready(p) /\ Named(ks) => Ready((p \o Run(ks)) \o <<KernelDone>>)
  BY RunThenDone
<1>b. \A p : \A k \in KernelName : Ready(p) => Ready((p \o Do(k)) \o <<KernelDone>>)
  BY DoThenDone
<1>c. \A p : \A from, to \in GraphBuffer : Ready(p) => Ready(p \o CarryOver(from, to))
  BY NextCarry
<1> HIDE DEF Ready, p1
<1>7. Ready(p2)
  <2>1. Named(<<"forward", "rmsFixed">>)
    BY KernelNames, TwoNamed
  <2> QED
    BY <1>6, <1>a, <2>1
<1> HIDE DEF p2
<1>8. Ready(p3)
  BY <1>2, <1>7, <1>c
<1> HIDE DEF p3
<1>9. Ready(p4)
  BY <1>8, <1>b, KernelNames
<1> HIDE DEF p4
<1>10. Ready(p5)
  BY <1>2, <1>9, <1>c
<1> HIDE DEF p5
<1>11. Ready(p6)
  <2>1. Named(<<"lmHeadForward", "loss", "lmBackward", "ffnBackward">>)
    BY KernelNames, FourNamed
  <2> QED
    BY <1>10, <1>a, <2>1
<1> HIDE DEF p6
<1>12. Ready(p7)
  BY <1>2, <1>11, <1>c
<1> HIDE DEF p7
<1>13. Ready(p8)
  <2>1. Named(<<"ffnGradient", "rmsDgamma", "rmsBackwardState">>)
    BY KernelNames, ThreeNamed
  <2> QED
    BY <1>12, <1>a, <2>1
<1> HIDE DEF p8
<1>14. Ready(p9)
  BY <1>2, <1>13, <1>c
<1> HIDE DEF p9
<1>15. Ready(p10)
  BY <1>14, <1>b, KernelNames
<1> HIDE DEF p10
<1>16. Ready(p11)
  BY <1>2, <1>15, <1>c
<1> HIDE DEF p11
<1>17. Ready(p12)
  <2>1. Named(<<"positionGradient">>)
    BY KernelNames, KernelsNamed
  <2>2. Named(StateGradient \o <<"positionGradient">>)
    BY <2>1, GradientsNamed, NamedJoined
  <2> QED
    BY <1>16, <1>a, <2>2
<1> HIDE DEF p12
<1>18. Ready(p13)
  BY <1>2, <1>17, <1>c
<1> HIDE DEF p13
<1>19. Good(p14, GraphSizes(r))
  <2>1. Named(<<"gammaAdamw", "ffnW1Adamw", "ffnB1Adamw", "ffnW2Adamw", "ffnB2Adamw",
                "positionAdamw">>)
    BY KernelNames, SixNamed
  <2> QED
    BY <1>18, <2>1, RunEnds DEF Ready
<1> QED
  BY <1>1, <1>19

GraphPart == GraphBuffer \X Nat

\* Whole buffers of the graph, n bytes together.
GraphParts(p, n) == p \in Seq(GraphPart) /\ n \in Nat /\ Bytes(p) = n

LEMMA GraphPartIs ==
  /\ GraphPart \subseteq Part
  /\ \A b \in GraphBuffer : \A m \in Nat :
       <<b, m>> \in GraphPart /\ <<b, m>>[1] = b /\ <<b, m>>[2] = m
  /\ \A x \in GraphPart : x[1] \in GraphBuffer /\ x[2] \in Nat
BY DEF GraphPart, Part, Buffer

LEMMA NoParts == GraphParts(<<>>, 0)
BY BytesStep DEF GraphParts

LEMMA GrowParts ==
  ASSUME NEW p, NEW n, GraphParts(p, n), NEW x \in GraphPart
  PROVE  GraphParts(Append(p, x), n + x[2])
<1>1. p \in Seq(GraphPart) /\ n \in Nat /\ Bytes(p) = n
  BY DEF GraphParts
<1>2. p \in Seq(Part) /\ x \in Part
  BY <1>1, GraphPartIs
<1>3. Bytes(Append(p, x)) = n + x[2]
  BY <1>1, <1>2, BytesStep
<1>4. Append(p, x) \in Seq(GraphPart)
  BY <1>1, AppendProperties
<1>5. n + x[2] \in Nat
  BY <1>1, GraphPartIs
<1> QED
  BY <1>3, <1>4, <1>5 DEF GraphParts

LEMMA GraphPartsFit ==
  ASSUME NEW r \in Rank, NEW p, NEW n, GraphParts(p, n)
  PROVE  /\ Inside(p, GraphSizes(r)) /\ Names(p) \subseteq GraphBuffer /\ Bytes(p) = n
         /\ p \in Seq(GraphPart) /\ n \in Nat
<1>1. p \in Seq(GraphPart) /\ n \in Nat /\ Bytes(p) = n
  BY DEF GraphParts
<1>2. p \in Seq(Part) /\ DOMAIN p = 1 .. Len(p) /\ \A i \in 1 .. Len(p) : p[i] \in GraphPart
  BY <1>1, GraphPartIs
<1>3. \A i \in 1 .. Len(p) : p[i][1] \in GraphBuffer
  BY <1>2, GraphPartIs
<1> QED
  BY <1>1, <1>2, <1>3, GraphBufferIs DEF Inside, Names

LEMMA StagedRoom ==
  ASSUME NEW r \in Rank, NEW p, NEW n, GraphParts(p, n), NEW base \in Nat, base + n <= StagingRoom
  PROVE  Room(p, "trainingStaging", base, GraphSizes(r))
<1>1. Bytes(p) = n
  BY GraphPartsFit
<1>2. "trainingStaging" \in Buffer /\ "trainingStaging" \in DOMAIN GraphSizes(r)
  BY GraphBufferIs, GraphSizesAre
<1>3. GraphSizes(r)["trainingStaging"] = StagingRoom /\ StagingRoom \in Nat
  BY GraphSizesAre, SMT DEF StagingRoom
<1> QED
  BY <1>1, <1>2, <1>3 DEF Room

\* Parts of the graph copied to consecutive places of trainingStaging_.
LEMMA StagedPartsGood ==
  ASSUME NEW r \in Rank, NEW p, NEW n, GraphParts(p, n), NEW base \in Nat, base + n <= StagingRoom
  PROVE  /\ Stores(StagedParts(p, base), GraphSizes(r))
         /\ Good(StateOut(p, base), GraphSizes(r))
         /\ Good(AllOut(p, base), GraphSizes(r))
<1> DEFINE q == StagedParts(p, base)
<1>1. Stores(q, GraphSizes(r))
  BY StagedRoom, GraphPartsFit, CopyOutStores DEF StagedParts
<1> HIDE DEF q
<1>2. Names(p) \in SUBSET Buffer /\ {} \in SUBSET Buffer
  BY GraphPartsFit, GraphBufferIs
<1>3. /\ {"C"} \in SUBSET AnyStage /\ {"T"} \in SUBSET AnyStage /\ AnyStage \in SUBSET AnyStage
      /\ {"CW"} \in SUBSET AnyAccess /\ {"TR"} \in SUBSET AnyAccess /\ {"TW"} \in SUBSET AnyAccess
      /\ AnyAccess \in SUBSET AnyAccess
  BY DEF AnyStage, AnyAccess
<1>4. Barrier({"C"}, {"T"}, {"CW"}, {"TR"}, Names(p)) \in Fence
  BY <1>2, <1>3, BarrierFence
<1>5. Barrier(AnyStage, {"T"}, AnyAccess, {"TW"}, {}) \in Fence
  BY <1>2, <1>3, BarrierFence
<1>6. Good(StateOut(p, base), GraphSizes(r))
  <2>1. Stores(StateOut(p, base), GraphSizes(r))
    BY <1>1, <1>4, StoresFenced DEF StateOut, q
  <2> QED
    BY <2>1, StoresGood
<1>7. Good(AllOut(p, base), GraphSizes(r))
  <2>1. Stores(AllOut(p, base), GraphSizes(r))
    BY <1>1, <1>5, StoresFenced DEF AllOut, q
  <2> QED
    BY <2>1, StoresGood
<1> QED
  BY <1>1, <1>6, <1>7 DEF q

LEMMA OnePart ==
  ASSUME NEW b \in GraphBuffer, NEW m \in Nat
  PROVE  GraphParts(<<<<b, m>>>>, m)
<1> DEFINE x == <<b, m>>
<1>1. x \in GraphPart /\ x[2] = m
  BY GraphPartIs
<1> HIDE DEF x
<1>2. <<x>> = Append(<<>>, x)
  OBVIOUS
<1>3. GraphParts(Append(<<>>, x), 0 + x[2])
  BY <1>1, NoParts, GrowParts
<1>4. GraphParts(<<x>>, m)
  BY <1>1, <1>2, <1>3
<1> QED
  BY <1>4 DEF x

LEMMA TwoParts ==
  ASSUME NEW a \in GraphBuffer, NEW b \in GraphBuffer, NEW m \in Nat, NEW n \in Nat
  PROVE  GraphParts(<<<<a, m>>, <<b, n>>>>, m + n)
<1> DEFINE x == <<a, m>>
           y == <<b, n>>
           p == <<x>>
<1>1. y \in GraphPart /\ y[2] = n
  BY GraphPartIs
<1>2. GraphParts(p, m)
  BY OnePart
<1> HIDE DEF x, y
<1>3. <<x, y>> = Append(p, y)
  OBVIOUS
<1> HIDE DEF p
<1>4. GraphParts(Append(p, y), m + y[2])
  BY <1>1, <1>2, GrowParts
<1>5. GraphParts(<<x, y>>, m + n)
  BY <1>1, <1>3, <1>4
<1> QED
  BY <1>5 DEF x, y

LEMMA StagedOutGood ==
  ASSUME NEW r \in Rank, NEW b \in GraphBuffer, NEW m \in Nat, m <= 661512
  PROVE  Good(StagedOut(b, m, r), GraphSizes(r))
<1>1. adamw_staging_offset(r) \in Nat /\ adamw_staging_offset(r) + m <= StagingRoom
  BY GraphSizesAre, SMT DEF StagingRoom
<1>2. GraphParts(<<<<b, m>>>>, m)
  BY OnePart
<1> DEFINE p == <<<<b, m>>>>
<1> HIDE DEF p
<1>3. Good(StateOut(p, adamw_staging_offset(r)), GraphSizes(r))
  BY <1>1, <1>2, StagedPartsGood DEF p
<1> QED
  BY <1>3 DEF StagedOut, p

LEMMA MomentsGood ==
  ASSUME NEW r \in Rank, NEW a \in GraphBuffer, NEW b \in GraphBuffer, NEW m \in Nat, NEW n \in Nat,
         NEW base \in Nat, base + (m + n) <= StagingRoom
  PROVE  Good(StateOut(<<<<a, m>>, <<b, n>>>>, base), GraphSizes(r))
<1> DEFINE p == <<<<a, m>>, <<b, n>>>>
<1>1. GraphParts(p, m + n)
  BY TwoParts
<1> HIDE DEF p
<1>2. Good(StateOut(p, base), GraphSizes(r))
  BY <1>1, StagedPartsGood
<1> QED
  BY <1>2 DEF p

LEMMA BytesOfGraph ==
  /\ Floats(H * H) = 16384 /\ Floats(3 * H * H) = 49152 /\ Floats(Tcap * H) = 32768
  /\ Floats(V * H) = 66304 /\ Floats(H * Vp) = 81920 /\ Floats(Tcap * Vp) = 163840
  /\ Floats(Tcap) = 512 /\ Floats(H) = 256 /\ Floats(Vp) = 1280 /\ Floats(FfnSize) = 132352
  /\ W1 = 65536 /\ B1 = 1024 /\ W2 = 65536 /\ B2 = 256
BY SMT DEF Floats, H, Vp, V, Tcap, FfnSize, W1, B1, W2, B2

\* The readbacks of two buffers ...
LEMMA TwoBuffersGood ==
  ASSUME NEW r \in Rank
  PROVE  /\ Good(output_adamw_moments(r), GraphSizes(r))
         /\ Good(qkv_adamw_moments, GraphSizes(r))
         /\ Good(positions_adamw_moments(r), GraphSizes(r))
         /\ Good(lm_head_adamw_moments(r), GraphSizes(r))
         /\ Good(readback_rmsnorm_state_staged(r), GraphSizes(r))
<1> DEFINE o == adamw_staging_offset(r)
<1>1. o = 165888
  BY GraphSizesAre
<1>2. /\ "outputM" \in GraphBuffer /\ "outputV" \in GraphBuffer /\ "qkvM" \in GraphBuffer
      /\ "qkvV" \in GraphBuffer /\ "positionM" \in GraphBuffer /\ "positionV" \in GraphBuffer
      /\ "lmHeadM" \in GraphBuffer /\ "lmHeadV" \in GraphBuffer /\ "rmsRaw" \in GraphBuffer
      /\ "rmsInv" \in GraphBuffer
  BY DEF GraphBuffer
<1> DEFINE hh == Floats(H * H)
           qq == Floats(3 * H * H)
           th == Floats(Tcap * H)
           hv == Floats(H * Vp)
           tt == Floats(Tcap)
<1>3. /\ hh \in Nat /\ qq \in Nat /\ th \in Nat /\ hv \in Nat /\ tt \in Nat /\ o \in Nat /\ 0 \in Nat
      /\ o + (hh + hh) <= StagingRoom /\ 0 + (qq + qq) <= StagingRoom
      /\ o + (th + th) <= StagingRoom /\ o + (hv + hv) <= StagingRoom
      /\ o + (th + tt) <= StagingRoom
  BY <1>1, BytesOfGraph, SMT DEF StagingRoom
<1> HIDE DEF hh, qq, th, hv, tt, o
<1>4. Good(output_adamw_moments(r), GraphSizes(r))
  <2>1. Good(StateOut(<<<<"outputM", hh>>, <<"outputV", hh>>>>, o), GraphSizes(r))
    BY <1>2, <1>3, MomentsGood, Zenon
  <2> QED
    BY <2>1, Zenon DEF output_adamw_moments, hh, o
<1>5. Good(qkv_adamw_moments, GraphSizes(r))
  <2>1. Good(StateOut(<<<<"qkvM", qq>>, <<"qkvV", qq>>>>, 0), GraphSizes(r))
    BY <1>2, <1>3, MomentsGood, Zenon
  <2> QED
    BY <2>1, Zenon DEF qkv_adamw_moments, qq
<1>6. Good(positions_adamw_moments(r), GraphSizes(r))
  <2>1. Good(StateOut(<<<<"positionM", th>>, <<"positionV", th>>>>, o), GraphSizes(r))
    BY <1>2, <1>3, MomentsGood, Zenon
  <2> QED
    BY <2>1, Zenon DEF positions_adamw_moments, th, o
<1>7. Good(lm_head_adamw_moments(r), GraphSizes(r))
  <2>1. Good(StateOut(<<<<"lmHeadM", hv>>, <<"lmHeadV", hv>>>>, o), GraphSizes(r))
    BY <1>2, <1>3, MomentsGood, Zenon
  <2> QED
    BY <2>1, Zenon DEF lm_head_adamw_moments, hv, o
<1>8. Good(readback_rmsnorm_state_staged(r), GraphSizes(r))
  <2>1. Good(StateOut(<<<<"rmsRaw", th>>, <<"rmsInv", tt>>>>, o), GraphSizes(r))
    BY <1>2, <1>3, MomentsGood, Zenon
  <2> QED
    BY <2>1, Zenon DEF readback_rmsnorm_state_staged, th, tt, o
<1> QED
  BY <1>4, <1>5, <1>6, <1>7, <1>8

\* ... and of one, to the optimizer's part of the staging buffer.
LEMMA StagedBuffersGood ==
  ASSUME NEW r \in Rank
  PROVE  /\ Good(readback_rmsnorm_states_staged(r), GraphSizes(r))
         /\ Good(readback_rmsnorm_dx_staged(r), GraphSizes(r))
         /\ Good(readback_rmsnorm_dgamma_staged(r), GraphSizes(r))
         /\ Good(readback_ffn_dx_staged(r), GraphSizes(r))
         /\ Good(readback_ffn_output_staged(r), GraphSizes(r))
         /\ Good(readback_position_gradient(r), GraphSizes(r))
<1>1. /\ "states" \in GraphBuffer /\ "rmsDx" \in GraphBuffer /\ "gammaGradient" \in GraphBuffer
      /\ "ffnDx" \in GraphBuffer /\ "ffnOutput" \in GraphBuffer /\ "positionGradient" \in GraphBuffer
  BY DEF GraphBuffer
<1>2. /\ Floats(Tcap * H) \in Nat /\ Floats(H) \in Nat
      /\ Floats(Tcap * H) <= 661512 /\ Floats(H) <= 661512
  BY BytesOfGraph, SMT
<1>3. \A b \in GraphBuffer : Good(StagedOut(b, Floats(Tcap * H), r), GraphSizes(r))
                             /\ Good(StagedOut(b, Floats(H), r), GraphSizes(r))
  BY <1>2, StagedOutGood, SMT
<1> QED
  BY <1>1, <1>3, Zenon
     DEF readback_rmsnorm_states_staged, readback_rmsnorm_dx_staged, readback_rmsnorm_dgamma_staged,
         readback_ffn_dx_staged, readback_ffn_output_staged, readback_position_gradient

LEMMA GammaStateGood ==
  ASSUME NEW r \in Rank
  PROVE  Good(readback_gamma_state(r), GraphSizes(r))
<1> DEFINE n == Floats(H)
           x == <<"gamma", n>>
           y == <<"gammaM", n>>
           z == <<"gammaV", n>>
           base == adamw_staging_offset(r) + 3 * Floats(FfnSize)
<1>1. n \in Nat /\ base \in Nat /\ base + (n + n + n) <= StagingRoom
  BY GraphSizesAre, BytesOfGraph, SMT DEF StagingRoom
<1>2. readback_gamma_state(r) = AllOut(<<x, y, z>>, base)
  BY DEF readback_gamma_state
<1> HIDE DEF n, base
<1>3. z \in GraphPart /\ z[2] = n
  BY <1>1, GraphPartIs DEF GraphBuffer
<1>4. GraphParts(<<x, y>>, n + n)
  <2>1. "gamma" \in GraphBuffer /\ "gammaM" \in GraphBuffer
    BY DEF GraphBuffer
  <2> QED
    BY <1>1, <2>1, TwoParts, Zenon
<1> HIDE DEF x, y, z
<1> DEFINE p == <<x, y>>
           q == <<x, y, z>>
<1>5. q = Append(p, z)
  OBVIOUS
<1> HIDE DEF p, q
<1>6. GraphParts(q, n + n + n)
  <2>1. GraphParts(Append(p, z), (n + n) + z[2])
    BY <1>3, <1>4, GrowParts DEF p
  <2> QED
    BY <1>3, <1>5, <2>1
<1>7. Good(AllOut(q, base), GraphSizes(r))
  BY <1>1, <1>6, StagedPartsGood
<1> QED
  BY <1>2, <1>7 DEF q

\* Append extends explicit tuples.
LEMMA TuplesGrow ==
  /\ \A a, b, c : <<a, b, c>> = Append(<<a, b>>, c)
  /\ \A a, b, c, d : <<a, b, c, d>> = Append(<<a, b, c>>, d)
  /\ \A a, b, c, d, e : <<a, b, c, d, e>> = Append(<<a, b, c, d>>, e)
  /\ \A a, b, c, d, e, f : <<a, b, c, d, e, f>> = Append(<<a, b, c, d, e>>, f)
  /\ \A a, b, c, d, e, f, g : <<a, b, c, d, e, f, g>> = Append(<<a, b, c, d, e, f>>, g)
  /\ \A a, b, c, d, e, f, g, h :
       <<a, b, c, d, e, f, g, h>> = Append(<<a, b, c, d, e, f, g>>, h)
  /\ \A a, b, c, d, e, f, g, h, i :
       <<a, b, c, d, e, f, g, h, i>> = Append(<<a, b, c, d, e, f, g, h>>, i)
  /\ \A a, b, c, d, e, f, g, h, i, j :
       <<a, b, c, d, e, f, g, h, i, j>> = Append(<<a, b, c, d, e, f, g, h, i>>, j)
  /\ \A a, b, c, d, e, f, g, h, i, j, k :
       <<a, b, c, d, e, f, g, h, i, j, k>> = Append(<<a, b, c, d, e, f, g, h, i, j>>, k)
  /\ \A a, b, c, d, e, f, g, h, i, j, k, l :
       <<a, b, c, d, e, f, g, h, i, j, k, l>> = Append(<<a, b, c, d, e, f, g, h, i, j, k>>, l)
OBVIOUS

\* Twelve buffers from the offset of rank 4, whatever the rank.
LEMMA FfnStateGood ==
  ASSUME NEW r \in Rank
  PROVE  Good(readback_ffn_state, GraphSizes(r))
<1> DEFINE x1 == <<"ffnW1", W1>>
           x2 == <<"ffnB1", B1>>
           x3 == <<"ffnW2", W2>>
           x4 == <<"ffnB2", B2>>
           x5 == <<"ffnW1M", W1>>
           x6 == <<"ffnB1M", B1>>
           x7 == <<"ffnW2M", W2>>
           x8 == <<"ffnB2M", B2>>
           x9 == <<"ffnW1V", W1>>
           x10 == <<"ffnB1V", B1>>
           x11 == <<"ffnW2V", W2>>
           x12 == <<"ffnB2V", B2>>
<1>1. /\ x1 \in GraphPart /\ x1[2] = W1
      /\ x2 \in GraphPart /\ x2[2] = B1
      /\ x3 \in GraphPart /\ x3[2] = W2
      /\ x4 \in GraphPart /\ x4[2] = B2
      /\ x5 \in GraphPart /\ x5[2] = W1
      /\ x6 \in GraphPart /\ x6[2] = B1
      /\ x7 \in GraphPart /\ x7[2] = W2
      /\ x8 \in GraphPart /\ x8[2] = B2
      /\ x9 \in GraphPart /\ x9[2] = W1
      /\ x10 \in GraphPart /\ x10[2] = B1
      /\ x11 \in GraphPart /\ x11[2] = W2
      /\ x12 \in GraphPart /\ x12[2] = B2
  <2>1. W1 \in Nat /\ B1 \in Nat /\ W2 \in Nat /\ B2 \in Nat /\ Floats(H) \in Nat /\ Floats(Tcap * H) \in Nat
    BY BytesOfGraph
  <2>2. "ffnW1" \in GraphBuffer /\ "ffnB1" \in GraphBuffer /\ "ffnW2" \in GraphBuffer /\ "ffnB2" \in GraphBuffer /\ "ffnW1M" \in GraphBuffer /\ "ffnB1M" \in GraphBuffer /\ "ffnW2M" \in GraphBuffer /\ "ffnB2M" \in GraphBuffer /\ "ffnW1V" \in GraphBuffer /\ "ffnB1V" \in GraphBuffer /\ "ffnW2V" \in GraphBuffer /\ "ffnB2V" \in GraphBuffer
    BY DEF GraphBuffer
  <2> QED
    BY <2>1, <2>2, GraphPartIs
<1> HIDE DEF x1, x2, x3, x4, x5, x6, x7, x8, x9, x10, x11, x12
<1> DEFINE p1 == <<x1>>
           p2 == <<x1, x2>>
           p3 == <<x1, x2, x3>>
           p4 == <<x1, x2, x3, x4>>
           p5 == <<x1, x2, x3, x4, x5>>
           p6 == <<x1, x2, x3, x4, x5, x6>>
           p7 == <<x1, x2, x3, x4, x5, x6, x7>>
           p8 == <<x1, x2, x3, x4, x5, x6, x7, x8>>
           p9 == <<x1, x2, x3, x4, x5, x6, x7, x8, x9>>
           p10 == <<x1, x2, x3, x4, x5, x6, x7, x8, x9, x10>>
           p11 == <<x1, x2, x3, x4, x5, x6, x7, x8, x9, x10, x11>>
           p12 == <<x1, x2, x3, x4, x5, x6, x7, x8, x9, x10, x11, x12>>
<1>2. p1 = Append(<<>>, x1)
  OBVIOUS
<1>3. p2 = Append(p1, x2)
  BY TuplesGrow
<1>4. p3 = Append(p2, x3)
  BY TuplesGrow
<1>5. p4 = Append(p3, x4)
  BY TuplesGrow
<1>6. p5 = Append(p4, x5)
  BY TuplesGrow
<1>7. p6 = Append(p5, x6)
  BY TuplesGrow
<1>8. p7 = Append(p6, x7)
  BY TuplesGrow
<1>9. p8 = Append(p7, x8)
  BY TuplesGrow
<1>10. p9 = Append(p8, x9)
  BY TuplesGrow
<1>11. p10 = Append(p9, x10)
  BY TuplesGrow
<1>12. p11 = Append(p10, x11)
  BY TuplesGrow
<1>13. p12 = Append(p11, x12)
  BY TuplesGrow
<1> HIDE DEF p1, p2, p3, p4, p5, p6, p7, p8, p9, p10, p11, p12
<1>s1. GraphParts(p1, 0 + x1[2])
  BY <1>1, <1>2, NoParts, GrowParts
<1>s2. GraphParts(p2, (0 + x1[2]) + x2[2])
  BY <1>1, <1>3, <1>s1, GrowParts
<1>s3. GraphParts(p3, ((0 + x1[2]) + x2[2]) + x3[2])
  BY <1>1, <1>4, <1>s2, GrowParts
<1>s4. GraphParts(p4, (((0 + x1[2]) + x2[2]) + x3[2]) + x4[2])
  BY <1>1, <1>5, <1>s3, GrowParts
<1>s5. GraphParts(p5, ((((0 + x1[2]) + x2[2]) + x3[2]) + x4[2]) + x5[2])
  BY <1>1, <1>6, <1>s4, GrowParts
<1>s6. GraphParts(p6, (((((0 + x1[2]) + x2[2]) + x3[2]) + x4[2]) + x5[2]) + x6[2])
  BY <1>1, <1>7, <1>s5, GrowParts
<1>s7. GraphParts(p7, ((((((0 + x1[2]) + x2[2]) + x3[2]) + x4[2]) + x5[2]) + x6[2]) + x7[2])
  BY <1>1, <1>8, <1>s6, GrowParts
<1>s8. GraphParts(p8, (((((((0 + x1[2]) + x2[2]) + x3[2]) + x4[2]) + x5[2]) + x6[2]) + x7[2]) + x8[2])
  BY <1>1, <1>9, <1>s7, GrowParts
<1>s9. GraphParts(p9, ((((((((0 + x1[2]) + x2[2]) + x3[2]) + x4[2]) + x5[2]) + x6[2]) + x7[2]) + x8[2]) + x9[2])
  BY <1>1, <1>10, <1>s8, GrowParts
<1>s10. GraphParts(p10, (((((((((0 + x1[2]) + x2[2]) + x3[2]) + x4[2]) + x5[2]) + x6[2]) + x7[2]) + x8[2]) + x9[2]) + x10[2])
  BY <1>1, <1>11, <1>s9, GrowParts
<1>s11. GraphParts(p11, ((((((((((0 + x1[2]) + x2[2]) + x3[2]) + x4[2]) + x5[2]) + x6[2]) + x7[2]) + x8[2]) + x9[2]) + x10[2]) + x11[2])
  BY <1>1, <1>12, <1>s10, GrowParts
<1>s12. GraphParts(p12, (((((((((((0 + x1[2]) + x2[2]) + x3[2]) + x4[2]) + x5[2]) + x6[2]) + x7[2]) + x8[2]) + x9[2]) + x10[2]) + x11[2]) + x12[2])
  BY <1>1, <1>13, <1>s11, GrowParts
<1>20. GraphParts(p12, 397056)
  <2>1. (((((((((((0 + x1[2]) + x2[2]) + x3[2]) + x4[2]) + x5[2]) + x6[2]) + x7[2]) + x8[2]) + x9[2]) + x10[2]) + x11[2]) + x12[2] = 397056
    BY <1>1, BytesOfGraph, SMT
  <2> QED
    BY <1>s12, <2>1, SMT
<1>21. adamw_staging_offset(4) \in Nat /\ adamw_staging_offset(4) + 397056 <= StagingRoom
  <2>1. 4 \in Rank
    BY DEF Rank
  <2>2. adamw_staging_offset(4) = 165888
    BY <2>1, GraphSizesAre
  <2> QED
    BY <2>2, SMT DEF StagingRoom
<1>22. Good(AllOut(p12, adamw_staging_offset(4)), GraphSizes(r))
  BY <1>20, <1>21, StagedPartsGood, SMT
<1> QED
  BY <1>22, Zenon DEF readback_ffn_state, p12, x1, x2, x3, x4, x5, x6, x7, x8, x9, x10, x11, x12

\* Bytes of parts one behind the other.
LEMMA BytesJoined ==
  ASSUME NEW p \in Seq(Part), NEW q \in Seq(Part)
  PROVE  Bytes(p \o q) = Bytes(p) + Bytes(q)
<1> DEFINE r == p \o q
           l == Len(p)
           m == Len(q)
<1>1. /\ r \in Seq(Part) /\ Len(r) = l + m /\ l \in Nat /\ m \in Nat
      /\ \A n \in 1 .. l + m : r[n] = IF n <= l THEN p[n] ELSE q[n - l]
  BY ConcatProperties
<1>2. PICK f : EndsOf(f, p)
  BY SumsExist
<1>3. PICK g : EndsOf(g, q)
  BY SumsExist
<1>4. /\ f[l] = Bytes(p) /\ g[m] = Bytes(q)
  BY <1>2, <1>3, BytesAre
<1>5. /\ f \in [0 .. l -> Nat] /\ f[0] = 0 /\ \A n \in 1 .. l : f[n] = f[n - 1] + p[n][2]
      /\ g \in [0 .. m -> Nat] /\ g[0] = 0 /\ \A n \in 1 .. m : g[n] = g[n - 1] + q[n][2]
  BY <1>2, <1>3 DEF EndsOf
<1> HIDE DEF r, l, m
<1> DEFINE h == [n \in 0 .. l + m |-> IF n <= l THEN f[n] ELSE f[l] + g[n - l]]
<1>6. h \in [0 .. l + m -> Nat]
  <2>1. \A n \in 0 .. l + m : IF n <= l THEN n \in 0 .. l ELSE n - l \in 0 .. m
    BY <1>1
  <2> QED
    BY <1>1, <1>5, <2>1, SMTT(30)
<1>7. h[0] = 0 /\ h[l + m] = f[l] + g[m]
  <2>1. CASE m = 0
    BY <1>1, <1>5, <2>1
  <2>2. CASE m # 0
    BY <1>1, <1>5, <2>2
  <2> QED
    BY <2>1, <2>2
<1>8. \A n \in 1 .. l + m : h[n] = h[n - 1] + r[n][2]
  <2> SUFFICES ASSUME NEW n \in 1 .. l + m PROVE h[n] = h[n - 1] + r[n][2]
    OBVIOUS
  <2>1. CASE n <= l
    <3>1. n \in 1 .. l /\ n - 1 <= l /\ n \in 0 .. l + m /\ n - 1 \in 0 .. l + m
      BY <1>1, <2>1
    <3>2. h[n] = f[n] /\ h[n - 1] = f[n - 1] /\ r[n] = p[n]
      BY <1>1, <2>1, <3>1
    <3> QED
      BY <1>5, <3>1, <3>2
  <2>2. CASE n = l + 1
    <3>1. n - 1 = l /\ n - l = 1 /\ ~ (n <= l) /\ 1 \in 1 .. m /\ n \in 0 .. l + m /\ n - 1 \in 0 .. l + m
      BY <1>1, <2>2
    <3>2. h[n] = f[l] + g[1] /\ h[n - 1] = f[l] /\ r[n] = q[1]
      BY <1>1, <3>1
    <3>3. g[1] = 0 + q[1][2]
      BY <1>5, <3>1
    <3>4. g[1] \in Nat /\ f[l] \in Nat
      BY <1>1, <1>5, <3>1
    <3>5. g[1] = g[1 - 1] + q[1][2] /\ g[0] = 0 /\ 1 - 1 = 0
      BY <1>5, <3>1
    <3>6. q[1][2] \in Nat
      BY <3>1 DEF Part, m
    <3> HIDE DEF h
    <3> QED
      BY <3>2, <3>4, <3>5, <3>6
  <2>3. CASE n > l + 1
    <3> DEFINE k == n - l
    <3>1. k \in 1 .. m /\ k - 1 \in 0 .. m /\ n - 1 - l = k - 1 /\ ~ (n <= l) /\ ~ (n - 1 <= l)
          /\ n \in 0 .. l + m /\ n - 1 \in 0 .. l + m /\ k - 1 \in 1 .. m
      BY <1>1, <2>3
    <3>2. h[n] = f[l] + g[k] /\ h[n - 1] = f[l] + g[k - 1] /\ r[n] = q[k]
      BY <1>1, <3>1
    <3>3. g[k] = g[k - 1] + q[k][2]
      BY <1>5, <3>1
    <3> HIDE DEF k
    <3>a. l \in 0 .. l
      BY <1>1
    <3>4. g[k - 1] \in Nat /\ f[l] \in Nat
      BY <1>5, <3>1, <3>a
    <3>5. q[k][2] \in Nat
      BY <3>1 DEF Part, m
    <3> HIDE DEF h
    <3> QED
      BY <3>2, <3>3, <3>4, <3>5
  <2> QED
    BY <1>1, <2>1, <2>2, <2>3
<1> HIDE DEF h
<1>9. EndsOf(h, r) /\ h[Len(r)] = f[l] + g[m]
  BY <1>1, <1>6, <1>7, <1>8 DEF EndsOf
<1>10. h[Len(r)] = Bytes(r)
  BY <1>1, <1>9, BytesAre
<1> QED
  BY <1>4, <1>9, <1>10 DEF r, l, m

LEMMA PartsJoined ==
  ASSUME NEW p, NEW q, NEW m, NEW n, GraphParts(p, m), GraphParts(q, n)
  PROVE  GraphParts(p \o q, m + n)
<1>1. p \in Seq(GraphPart) /\ m \in Nat /\ Bytes(p) = m /\ q \in Seq(GraphPart) /\ n \in Nat /\ Bytes(q) = n
  BY DEF GraphParts
<1>2. p \in Seq(Part) /\ q \in Seq(Part)
  BY <1>1, GraphPartIs
<1>3. p \o q \in Seq(GraphPart)
  BY <1>1, ConcatProperties
<1>4. Bytes(p \o q) = m + n
  BY <1>1, <1>2, BytesJoined
<1> QED
  BY <1>1, <1>3, <1>4 DEF GraphParts

LEMMA FfnGradientPartsAre ==
  GraphParts(FfnGradientParts, 132352)
<1> DEFINE x1 == <<"ffnW1Gradient", W1>>
           x2 == <<"ffnB1Gradient", B1>>
           x3 == <<"ffnW2Gradient", W2>>
           x4 == <<"ffnB2Gradient", B2>>
<1>1. /\ x1 \in GraphPart /\ x1[2] = W1
      /\ x2 \in GraphPart /\ x2[2] = B1
      /\ x3 \in GraphPart /\ x3[2] = W2
      /\ x4 \in GraphPart /\ x4[2] = B2
  <2>1. W1 \in Nat /\ B1 \in Nat /\ W2 \in Nat /\ B2 \in Nat /\ Floats(H) \in Nat /\ Floats(Tcap * H) \in Nat
    BY BytesOfGraph
  <2>2. "ffnW1Gradient" \in GraphBuffer /\ "ffnB1Gradient" \in GraphBuffer /\ "ffnW2Gradient" \in GraphBuffer /\ "ffnB2Gradient" \in GraphBuffer
    BY DEF GraphBuffer
  <2> QED
    BY <2>1, <2>2, GraphPartIs
<1> HIDE DEF x1, x2, x3, x4
<1> DEFINE p1 == <<x1>>
           p2 == <<x1, x2>>
           p3 == <<x1, x2, x3>>
           p4 == <<x1, x2, x3, x4>>
<1>2. p1 = Append(<<>>, x1)
  OBVIOUS
<1>3. p2 = Append(p1, x2)
  BY TuplesGrow
<1>4. p3 = Append(p2, x3)
  BY TuplesGrow
<1>5. p4 = Append(p3, x4)
  BY TuplesGrow
<1> HIDE DEF p1, p2, p3, p4
<1>s1. GraphParts(p1, 0 + x1[2])
  BY <1>1, <1>2, NoParts, GrowParts
<1>s2. GraphParts(p2, (0 + x1[2]) + x2[2])
  BY <1>1, <1>3, <1>s1, GrowParts
<1>s3. GraphParts(p3, ((0 + x1[2]) + x2[2]) + x3[2])
  BY <1>1, <1>4, <1>s2, GrowParts
<1>s4. GraphParts(p4, (((0 + x1[2]) + x2[2]) + x3[2]) + x4[2])
  BY <1>1, <1>5, <1>s3, GrowParts
<1>20. GraphParts(p4, 132352)
  <2>1. (((0 + x1[2]) + x2[2]) + x3[2]) + x4[2] = 132352
    BY <1>1, BytesOfGraph, SMT
  <2> QED
    BY <1>s4, <2>1, SMT
<1>21. p4 = FfnGradientParts
  BY Zenon DEF p4, x1, x2, x3, x4, FfnGradientParts
<1> QED
  BY <1>20, <1>21, SMT

RowParts == <<<<"ffnDx", Floats(Tcap * H)>>, <<"activations", Floats(Tcap * H)>>,
              <<"states", Floats(Tcap * H)>>, <<"dstates", Floats(Tcap * H)>>>>

LEMMA RowPartsAre ==
  GraphParts(RowParts, 131072)
<1> DEFINE x1 == <<"ffnDx", Floats(Tcap * H)>>
           x2 == <<"activations", Floats(Tcap * H)>>
           x3 == <<"states", Floats(Tcap * H)>>
           x4 == <<"dstates", Floats(Tcap * H)>>
<1>1. /\ x1 \in GraphPart /\ x1[2] = Floats(Tcap * H)
      /\ x2 \in GraphPart /\ x2[2] = Floats(Tcap * H)
      /\ x3 \in GraphPart /\ x3[2] = Floats(Tcap * H)
      /\ x4 \in GraphPart /\ x4[2] = Floats(Tcap * H)
  <2>1. W1 \in Nat /\ B1 \in Nat /\ W2 \in Nat /\ B2 \in Nat /\ Floats(H) \in Nat /\ Floats(Tcap * H) \in Nat
    BY BytesOfGraph
  <2>2. "ffnDx" \in GraphBuffer /\ "activations" \in GraphBuffer /\ "states" \in GraphBuffer /\ "dstates" \in GraphBuffer
    BY DEF GraphBuffer
  <2> QED
    BY <2>1, <2>2, GraphPartIs
<1> HIDE DEF x1, x2, x3, x4
<1> DEFINE p1 == <<x1>>
           p2 == <<x1, x2>>
           p3 == <<x1, x2, x3>>
           p4 == <<x1, x2, x3, x4>>
<1>2. p1 = Append(<<>>, x1)
  OBVIOUS
<1>3. p2 = Append(p1, x2)
  BY TuplesGrow
<1>4. p3 = Append(p2, x3)
  BY TuplesGrow
<1>5. p4 = Append(p3, x4)
  BY TuplesGrow
<1> HIDE DEF p1, p2, p3, p4
<1>s1. GraphParts(p1, 0 + x1[2])
  BY <1>1, <1>2, NoParts, GrowParts
<1>s2. GraphParts(p2, (0 + x1[2]) + x2[2])
  BY <1>1, <1>3, <1>s1, GrowParts
<1>s3. GraphParts(p3, ((0 + x1[2]) + x2[2]) + x3[2])
  BY <1>1, <1>4, <1>s2, GrowParts
<1>s4. GraphParts(p4, (((0 + x1[2]) + x2[2]) + x3[2]) + x4[2])
  BY <1>1, <1>5, <1>s3, GrowParts
<1>20. GraphParts(p4, 131072)
  <2>1. (((0 + x1[2]) + x2[2]) + x3[2]) + x4[2] = 131072
    BY <1>1, BytesOfGraph, SMT
  <2> QED
    BY <1>s4, <2>1, SMT
<1>21. p4 = RowParts
  BY Zenon DEF p4, x1, x2, x3, x4, RowParts
<1> QED
  BY <1>20, <1>21, SMT

LEMMA Interleaved ==
  ASSUME NEW s, NEW p, Stores(p, s), NEW b \in Fence
  PROVE  Stores([n \in 1 .. 2 * Len(p) |-> IF n % 2 = 1 THEN b ELSE p[n \div 2]], s)
<1> DEFINE L == Len(p)
           q == [n \in 1 .. 2 * L |-> IF n % 2 = 1 THEN b ELSE p[n \div 2]]
<1>1. p \in Seq(Item) /\ L \in Nat /\ \A n \in 1 .. L : p[n] \in Item
  BY DEF Stores
<1>0. Commands(p) \subseteq 1 .. L /\ \A n \in 1 .. L : p[n].stage # "barrier" => n \in Commands(p)
  BY <1>1, CommandItems
<1> HIDE DEF L
<1>2. ASSUME NEW n \in 1 .. 2 * L
      PROVE  q[n] = b \/ \E m \in 1 .. L : n = 2 * m /\ q[n] = p[m]
  <2>1. n % 2 = 1 \/ n % 2 = 0
    OBVIOUS
  <2>2. CASE n % 2 = 1
    BY <2>2
  <2>3. CASE n % 2 = 0
    <3> DEFINE m == n \div 2
    <3>1. n = 2 * m /\ m \in 1 .. L
      BY <1>1, <2>3
    <3>2. q[n] = p[m]
      BY <2>3
    <3> QED
      BY <3>1, <3>2
  <2> QED
    BY <2>1, <2>2, <2>3
<1>3. DOMAIN q = 1 .. 2 * L /\ q = [n \in 1 .. 2 * L |-> q[n]]
  OBVIOUS
<1> HIDE DEF q
<1>4. b \in Item /\ b.stage = "barrier"
  BY DEF Item, Fence
<1>5. \A n \in 1 .. 2 * L : q[n] \in Item
  BY <1>1, <1>2, <1>4
<1>6. q \in Seq(Item)
  BY <1>1, <1>3, <1>5
<1>7. \A n \in Commands(q) : \E m \in Commands(p) : n = 2 * m /\ q[n] = p[m]
  <2> SUFFICES ASSUME NEW n \in Commands(q) PROVE \E m \in Commands(p) : n = 2 * m /\ q[n] = p[m]
    OBVIOUS
  <2>1. n \in 1 .. 2 * L /\ q[n].stage # "barrier"
    BY <1>3 DEF Commands
  <2>2. PICK m \in 1 .. L : n = 2 * m /\ q[n] = p[m]
    BY <1>2, <1>4, <2>1
  <2>3. m \in Commands(p)
    BY <1>0, <2>1, <2>2
  <2> QED
    BY <2>2, <2>3
<1>8. Parallel(q)
  <2> SUFFICES ASSUME NEW i \in Commands(q), NEW k \in Commands(q), i < k
               PROVE  Untouched(q[i], q[k])
    BY DEF Parallel
  <2>1. PICK m \in Commands(p) : i = 2 * m /\ q[i] = p[m]
    BY <1>7
  <2>2. PICK n \in Commands(p) : k = 2 * n /\ q[k] = p[n]
    BY <1>7
  <2>3. m < n
    BY <1>0, <1>1, <2>1, <2>2
  <2> QED
    BY <2>1, <2>2, <2>3 DEF Stores, Parallel
<1>9. Fits(q, s) /\ PlainReads(q) /\ \A n \in Commands(q) : q[n].stage = "T"
  BY <1>7 DEF Stores, Fits, PlainReads
<1> QED
  BY <1>6, <1>8, <1>9 DEF Stores, q, L

\* The gradients of the feed-forward layer, and all of them together.
LEMMA GradientReadsGood ==
  ASSUME NEW r \in Rank
  PROVE  /\ Good(readback_ffn_gradients_staged(r), GraphSizes(r))
         /\ Good(readback_combined_gradients(r), GraphSizes(r))
<1> DEFINE o == adamw_staging_offset(r)
           base == o + 3 * Floats(FfnSize) + 3 * Floats(H)
<1>1. o \in Nat /\ base \in Nat /\ o + 132352 <= StagingRoom /\ base + 263680 <= StagingRoom
  BY GraphSizesAre, BytesOfGraph, SMT DEF StagingRoom
<1>2. /\ {"C"} \in SUBSET AnyStage /\ {"T"} \in SUBSET AnyStage /\ AnyStage \in SUBSET AnyStage
      /\ {"CW"} \in SUBSET AnyAccess /\ {"TR"} \in SUBSET AnyAccess /\ {"TW"} \in SUBSET AnyAccess
      /\ AnyAccess \in SUBSET AnyAccess /\ Transfers \in SUBSET AnyAccess
      /\ {"ffnW1Gradient"} \in SUBSET Buffer /\ {} \in SUBSET Buffer /\ {"trainingStaging"} \in SUBSET Buffer
  BY DEF AnyStage, AnyAccess, Transfers, Buffer, GraphBuffer, HostBuffer
<1>3. Good(readback_ffn_gradients_staged(r), GraphSizes(r))
  <2> DEFINE b == Barrier({"C"}, {"T"}, {"CW"}, {"TR"}, {"ffnW1Gradient"})
             p == StagedParts(FfnGradientParts, o)
  <2>1. b \in Fence
    BY <1>2, BarrierFence
  <2>2. Stores(p, GraphSizes(r))
    BY <1>1, FfnGradientPartsAre, StagedPartsGood, SMT
  <2>3. readback_ffn_gradients_staged(r) = <<b>> \o p
    BY DEF readback_ffn_gradients_staged
  <2> HIDE DEF b, p
  <2> QED
    BY <2>1, <2>2, <2>3, StoresFenced, StoresGood
<1>4. Good(readback_combined_gradients(r), GraphSizes(r))
  <2> DEFINE rows == Floats(Tcap * H)
             one == <<<<"gammaGradient", Floats(H)>>>>
             last == <<<<"ffnDx", rows>>, <<"activations", rows>>, <<"states", rows>>, <<"dstates", rows>>>>
             parts == one \o FfnGradientParts \o last
             copies == StagedParts(parts, base)
             b == Barrier(AnyStage, {"T"}, AnyAccess, {"TW"}, {"trainingStaging"})
             c == Barrier({"T"}, {"T"}, Transfers, Transfers, {})
             q == [n \in 1 .. 2 * Len(copies) |-> IF n % 2 = 1 THEN c ELSE copies[n \div 2]]
  <2>1. readback_combined_gradients(r) = <<b>> \o q \o StagingBarrier({"TW"}, Transfers)
    BY DEF readback_combined_gradients
  <2>2. b \in Fence /\ c \in Fence
    BY <1>2, BarrierFence
  <2>3. PICK d \in Fence : StagingBarrier({"TW"}, Transfers) = <<d>>
    BY <1>2, StagingFence
  <2>4. GraphParts(one, 256)
    <3>1. "gammaGradient" \in GraphBuffer
      BY DEF GraphBuffer
    <3>2. Floats(H) = 256 /\ Floats(H) \in Nat
      BY BytesOfGraph
    <3>3. GraphParts(one, Floats(H))
      BY <3>1, <3>2, OnePart, Zenon
    <3> QED
      BY <3>2, <3>3, Zenon
  <2>5. GraphParts(last, 131072)
    <3>1. last = RowParts
      BY Zenon DEF RowParts
    <3> HIDE DEF last
    <3> QED
      BY <3>1, RowPartsAre, SMT
  <2> HIDE DEF b, c, one, last, base
  <2> DEFINE k == 256
             m == 132352
             n == 131072
  <2>6. GraphParts(one, k) /\ GraphParts(FfnGradientParts, m) /\ GraphParts(last, n)
    BY <2>4, <2>5, FfnGradientPartsAre, SMT
  <2>7. k + m + n = 263680
    BY SMT
  <2> HIDE DEF k, m, n
  <2>a. GraphParts(parts, k + m + n)
    <3>1. GraphParts(one \o FfnGradientParts, k + m)
      BY <2>6, PartsJoined
    <3> QED
      BY <2>6, <3>1, PartsJoined
  <2> HIDE DEF parts
  <2>8. Stores(copies, GraphSizes(r))
    <3>1. base + (k + m + n) <= StagingRoom
      BY <1>1, <2>7, SMT
    <3> QED
      BY <1>1, <2>a, <3>1, StagedPartsGood, SMT
  <2> HIDE DEF copies
  <2>9. Stores(q, GraphSizes(r))
    BY <2>2, <2>8, Interleaved
  <2> HIDE DEF q
  <2>10. Stores(<<b>> \o q, GraphSizes(r))
    BY <2>2, <2>9, StoresFenced
  <2>11. Stores((<<b>> \o q) \o <<d>>, GraphSizes(r))
    BY <2>10, StoresFenced
  <2> QED
    BY <2>1, <2>3, <2>11, StoresGood
<1> QED
  BY <1>3, <1>4

-----------------------------------------------------------------------------
(* Single buffers, and the adapters.                                        *)

FirstBytes(b, n) == <<Copy(Whole(b), Readback(n))>>

LEMMA ReadbackStore ==
  ASSUME NEW r \in Rank, NEW b \in GraphBuffer, NEW n \in Nat, n <= Floats(Tcap * Vp)
  PROVE  Stores(FirstBytes(b, n), GraphSizes(r))
<1> DEFINE p == FirstBytes(b, n)
           host == "readback"
<1>1. host \in DOMAIN GraphSizes(r) /\ 0 \in Nat /\ n <= GraphSizes(r)[host]
  BY GraphSizesAre, BytesOfGraph, SMT
<1>2. p = <<Copy(Whole(b), <<host, 0, n>>)>>
  BY DEF Readback, FirstBytes
<1> HIDE DEF host, p
<1>3. Stores(p, GraphSizes(r))
  BY <1>1, <1>2, GraphStore
<1> QED
  BY <1>3 DEF p

LEMMA BehindFence ==
  ASSUME NEW r \in Rank, NEW f \in Fence, NEW b \in GraphBuffer, NEW n \in Nat, n <= Floats(Tcap * Vp)
  PROVE  /\ <<f, Copy(Whole(b), Readback(n))>> = <<f>> \o FirstBytes(b, n)
         /\ Good(<<f, Copy(Whole(b), Readback(n))>>, GraphSizes(r))
<1> DEFINE c == Copy(Whole(b), Readback(n))
           p == <<c>>
           q == <<f, c>>
<1>1. Stores(p, GraphSizes(r)) /\ p = FirstBytes(b, n)
  BY ReadbackStore DEF FirstBytes
<1>2. c \in Item
  <2>1. p \in Seq(Item)
    BY <1>1 DEF Stores
  <2> HIDE DEF c
  <2>2. p[1] \in Item
    BY <2>1
  <2> QED
    BY <2>2
<1> HIDE DEF c
<1>3. q = <<f>> \o p
  <2>1. f \in Item
    BY DEF Item
  <2> QED
    BY <1>2, <2>1, PairSplit
<1> HIDE DEF p
<1>4. Good(<<f>> \o p, GraphSizes(r))
  BY <1>1, StoresFenced, StoresGood
<1>5. Good(q, GraphSizes(r)) /\ q = <<f>> \o FirstBytes(b, n)
  BY <1>1, <1>3, <1>4
<1> QED
  BY <1>5 DEF q, c

LEMMA ReadOutGood ==
  ASSUME NEW r \in Rank, NEW b \in GraphBuffer, NEW n \in Nat, n <= Floats(Tcap * Vp)
  PROVE  Good(ReadOut(b, n), GraphSizes(r))
<1>1. /\ {"C"} \in SUBSET AnyStage /\ {"T"} \in SUBSET AnyStage /\ {b} \in SUBSET Buffer
      /\ {"CW"} \in SUBSET AnyAccess /\ {"TR"} \in SUBSET AnyAccess
  BY GraphBufferIs DEF AnyStage, AnyAccess, Buffer
<1>2. Barrier({"C"}, {"T"}, {"CW"}, {"TR"}, {b}) \in Fence
  BY <1>1, BarrierFence
<1> QED
  BY <1>2, BehindFence DEF ReadOut

\* The readbacks of one buffer through readback_.
LEMMA ReadOutsGood ==
  ASSUME NEW r \in Rank
  PROVE  /\ Good(readback_base_train_output, GraphSizes(r))
         /\ Good(readback_base_train_qkv("query"), GraphSizes(r))
         /\ Good(readback_base_train_qkv_gradients("qkvGradientQ"), GraphSizes(r))
         /\ Good(readback_positions, GraphSizes(r))
         /\ Good(readback_base_train_embeddings, GraphSizes(r))
         /\ Good(readback_base_train_lm_head, GraphSizes(r))
         /\ Good(readback_projected, GraphSizes(r))
<1>1. /\ "output" \in GraphBuffer /\ "query" \in GraphBuffer /\ "qkvGradientQ" \in GraphBuffer
      /\ "positions" \in GraphBuffer /\ "embeddings" \in GraphBuffer /\ "lmHead" \in GraphBuffer
      /\ "projected" \in GraphBuffer
  BY DEF GraphBuffer
<1> DEFINE room == Floats(Tcap * Vp)
           hh == Floats(H * H)
           th == Floats(Tcap * H)
           vh == Floats(V * H)
           hv == Floats(H * Vp)
<1>2. /\ hh \in Nat /\ hh <= room /\ th \in Nat /\ th <= room
      /\ vh \in Nat /\ vh <= room /\ hv \in Nat /\ hv <= room
  BY BytesOfGraph, SMT
<1>3. Good(ReadOut("output", hh), GraphSizes(r)) /\ Good(ReadOut("query", hh), GraphSizes(r))
      /\ Good(ReadOut("qkvGradientQ", hh), GraphSizes(r))
  BY <1>1, <1>2, ReadOutGood, Zenon
<1>4. Good(ReadOut("positions", th), GraphSizes(r)) /\ Good(ReadOut("projected", th), GraphSizes(r))
  BY <1>1, <1>2, ReadOutGood, Zenon
<1>5. Good(ReadOut("embeddings", vh), GraphSizes(r))
  BY <1>1, <1>2, ReadOutGood, Zenon
<1>6. Good(readback_base_train_lm_head, GraphSizes(r))
  <2>1. /\ {"C"} \in SUBSET AnyStage /\ {"T"} \in SUBSET AnyStage /\ {"lmHead"} \in SUBSET Buffer
        /\ {"CR"} \in SUBSET AnyAccess /\ {"TR"} \in SUBSET AnyAccess
    BY <1>1, GraphBufferIs DEF AnyStage, AnyAccess, Buffer
  <2>2. Barrier({"C"}, {"T"}, {"CR"}, {"TR"}, {"lmHead"}) \in Fence
    BY <2>1, BarrierFence
  <2> QED
    BY <1>1, <1>2, <2>2, BehindFence, Zenon DEF readback_base_train_lm_head
<1>7. readback_projected = ReadOut("projected", th)
  BY DEF readback_projected, ReadOut
<1> HIDE DEF room
<1> QED
  BY <1>3, <1>4, <1>5, <1>6, <1>7, Zenon
     DEF readback_base_train_output, readback_base_train_qkv, readback_base_train_qkv_gradients,
         readback_positions, readback_base_train_embeddings

LEMMA HostLoad ==
  ASSUME NEW r \in Rank, NEW b \in GraphBuffer, NEW n \in Nat, n <= GraphSizes(r)["hostStaging"]
  PROVE  Loads(<<Copy(<<"hostStaging", 0, n>>, Whole(b))>>, GraphSizes(r))
<1> DEFINE host == "hostStaging"
           at == 0
           p == <<Copy(<<host, at, n>>, Whole(b))>>
<1>1. host \in DOMAIN GraphSizes(r) /\ at \in Nat /\ n <= GraphSizes(r)[host]
  BY GraphSizesAre
<1>2. p = <<Copy(<<host, at, n>>, Whole(b))>>
  OBVIOUS
<1> HIDE DEF p, host, at
<1>3. Loads(p, GraphSizes(r))
  BY <1>1, <1>2, GraphLoad
<1> QED
  BY <1>3 DEF p, host, at

\* One upload, behind a barrier on everything.
LEMMA UploadGood ==
  ASSUME NEW r \in Rank, NEW b \in GraphBuffer, NEW n \in Nat, n <= GraphSizes(r)["hostStaging"]
  PROVE  Good(upload(b, n), GraphSizes(r))
<1> DEFINE host == "hostStaging"
           at == 0
           x == Barrier(AnyStage, {"T"}, AnyAccess, Transfers, {})
           y == Copy(<<host, at, n>>, Whole(b))
           z == Barrier({"T"}, AnyStage, {"TW"}, {"TW", "CR"}, {b})
           p == <<y>>
<1>2. Loads(p, GraphSizes(r))
  BY HostLoad
<1>3. x \in Fence /\ z \in Fence
  <2>1. /\ {"T"} \in SUBSET AnyStage /\ AnyStage \in SUBSET AnyStage /\ {b} \in SUBSET Buffer
        /\ AnyAccess \in SUBSET AnyAccess /\ Transfers \in SUBSET AnyAccess /\ {} \in SUBSET Buffer
        /\ {"TW"} \in SUBSET AnyAccess /\ {"TW", "CR"} \in SUBSET AnyAccess
    BY GraphBufferIs DEF AnyStage, AnyAccess, Transfers, Buffer
  <2> QED
    BY <2>1, BarrierFence
<1>4. upload(b, n) = <<x, y, z>>
  BY DEF upload
<1>5. y \in Item
  <2>1. p \in Seq(Item)
    BY <1>2 DEF Loads
  <2> HIDE DEF y
  <2>2. p[1] \in Item
    BY <2>1
  <2> QED
    BY <2>2
<1> HIDE DEF x, y, z
<1>6. <<x, y, z>> = (<<x>> \o p) \o <<z>>
  <2>1. x \in Item /\ z \in Item
    BY <1>3 DEF Item
  <2> QED
    BY <1>5, <2>1, TripleJoined
<1> HIDE DEF p
<1>7. Loads((<<x>> \o p) \o <<z>>, GraphSizes(r))
  BY <1>2, <1>3, LoadsFenced
<1> DEFINE u == (<<x>> \o p) \o <<z>>
<1>8. upload(b, n) = u
  BY <1>4, <1>6
<1> HIDE DEF u
<1>9. Good(u, GraphSizes(r))
  BY <1>7, LoadsStarted, StartedGood DEF u
<1> QED
  BY <1>8, <1>9

LEMMA UpdateMomentsGood ==
  ASSUME NEW r \in Rank
  PROVE  Good(update_qkv_adamw_moments, GraphSizes(r))
<1> DEFINE n == Floats(3 * H * H)
           host == "trainingStaging"
           p == <<<<"qkvM", n>>, <<"qkvV", n>>>>
<1>1. "qkvM" \in GraphBuffer /\ "qkvV" \in GraphBuffer
  BY DEF GraphBuffer
<1>2. n \in Nat /\ 0 \in Nat /\ 0 + (n + n) <= StagingRoom
  BY BytesOfGraph, SMT DEF StagingRoom
<1>3. update_qkv_adamw_moments = CopyIn(host, p, 0)
  BY DEF update_qkv_adamw_moments
<1> HIDE DEF n
<1>4. GraphParts(p, n + n)
  BY <1>1, <1>2, TwoParts, Zenon
<1>5. Distinct(p)
  <2>1. Len(p) = 2 /\ p[1][1] = "qkvM" /\ p[2][1] = "qkvV"
    OBVIOUS
  <2> HIDE DEF p
  <2> QED
    BY <2>1 DEF Distinct
<1> HIDE DEF p
<1> DEFINE base == 0
<1>6. Room(p, host, base, GraphSizes(r))
  BY <1>2, <1>4, StagedRoom
<1> HIDE DEF base, host
<1>a. Inside(p, GraphSizes(r))
  BY <1>4, GraphPartsFit
<1>7. Loads(CopyIn(host, p, base), GraphSizes(r))
  BY <1>a, <1>5, <1>6, CopyInLoads
<1> QED
  BY <1>3, <1>7, LoadsStarted, StartedGood DEF base, host

LEMMA LoraPartsAre ==
  ASSUME NEW r \in Rank
  PROVE  GraphParts(LoraParts(r), 6144 * r) /\ Distinct(LoraParts(r))
<1> DEFINE parts == LoraParts(r)
           x1 == <<"loraA", lora_bytes(r)>>
           x2 == <<"loraB", lora_bytes(r)>>
           x3 == <<"loraMA", lora_bytes(r)>>
           x4 == <<"loraVA", lora_bytes(r)>>
           x5 == <<"loraMB", lora_bytes(r)>>
           x6 == <<"loraVB", lora_bytes(r)>>
<1>1. /\ x1 \in GraphPart /\ x1[2] = lora_bytes(r)
      /\ x2 \in GraphPart /\ x2[2] = lora_bytes(r)
      /\ x3 \in GraphPart /\ x3[2] = lora_bytes(r)
      /\ x4 \in GraphPart /\ x4[2] = lora_bytes(r)
      /\ x5 \in GraphPart /\ x5[2] = lora_bytes(r)
      /\ x6 \in GraphPart /\ x6[2] = lora_bytes(r)
  <2>1. lora_bytes(r) \in Nat
    BY GraphSizesAre, SMT
  <2>2. "loraA" \in GraphBuffer /\ "loraB" \in GraphBuffer /\ "loraMA" \in GraphBuffer /\ "loraVA" \in GraphBuffer /\ "loraMB" \in GraphBuffer /\ "loraVB" \in GraphBuffer
    BY DEF GraphBuffer
  <2> QED
    BY <2>1, <2>2, GraphPartIs
<1>0. parts[1] = x1 /\ parts[2] = x2 /\ parts[3] = x3 /\ parts[4] = x4 /\ parts[5] = x5 /\ parts[6] = x6
      /\ parts = [n \in 1 .. 6 |-> parts[n]]
  BY DEF LoraParts
<1>d. /\ x1[1] = "loraA" /\ x2[1] = "loraB" /\ x3[1] = "loraMA" /\ x4[1] = "loraVA"
      /\ x5[1] = "loraMB" /\ x6[1] = "loraVB"
  OBVIOUS
<1> HIDE DEF parts, x1, x2, x3, x4, x5, x6
<1> DEFINE p1 == <<x1>>
           p2 == <<x1, x2>>
           p3 == <<x1, x2, x3>>
           p4 == <<x1, x2, x3, x4>>
           p5 == <<x1, x2, x3, x4, x5>>
           p6 == <<x1, x2, x3, x4, x5, x6>>
<1>2. p1 = Append(<<>>, x1)
  OBVIOUS
<1>3. p2 = Append(p1, x2)
  BY TuplesGrow
<1>4. p3 = Append(p2, x3)
  BY TuplesGrow
<1>5. p4 = Append(p3, x4)
  BY TuplesGrow
<1>6. p5 = Append(p4, x5)
  BY TuplesGrow
<1>7. p6 = Append(p5, x6)
  BY TuplesGrow
<1> HIDE DEF p1, p2, p3, p4, p5, p6
<1>s1. GraphParts(p1, 0 + x1[2])
  BY <1>1, <1>2, NoParts, GrowParts
<1>s2. GraphParts(p2, (0 + x1[2]) + x2[2])
  BY <1>1, <1>3, <1>s1, GrowParts
<1>s3. GraphParts(p3, ((0 + x1[2]) + x2[2]) + x3[2])
  BY <1>1, <1>4, <1>s2, GrowParts
<1>s4. GraphParts(p4, (((0 + x1[2]) + x2[2]) + x3[2]) + x4[2])
  BY <1>1, <1>5, <1>s3, GrowParts
<1>s5. GraphParts(p5, ((((0 + x1[2]) + x2[2]) + x3[2]) + x4[2]) + x5[2])
  BY <1>1, <1>6, <1>s4, GrowParts
<1>s6. GraphParts(p6, (((((0 + x1[2]) + x2[2]) + x3[2]) + x4[2]) + x5[2]) + x6[2])
  BY <1>1, <1>7, <1>s5, GrowParts
<1>20. p6[1] = x1 /\ p6[2] = x2 /\ p6[3] = x3 /\ p6[4] = x4 /\ p6[5] = x5 /\ p6[6] = x6 /\ Len(p6) = 6
  BY DEF p6
<1>21. parts = p6
  <2>1. p6 \in Seq(GraphPart)
    BY <1>s6 DEF GraphParts
  <2>2. p6 = [n \in 1 .. 6 |-> p6[n]]
    BY <1>20, <2>1
  <2>3. \A n \in 1 .. 6 : parts[n] = p6[n]
    <3>1. \A n \in 1 .. 6 : n = 1 \/ n = 2 \/ n = 3 \/ n = 4 \/ n = 5 \/ n = 6
      OBVIOUS
    <3> QED
      BY <1>0, <1>20, <3>1
  <2> QED
    BY <1>0, <2>2, <2>3
<1>22. (((((0 + x1[2]) + x2[2]) + x3[2]) + x4[2]) + x5[2]) + x6[2] = 6144 * r
  BY <1>1, GraphSizesAre, SMT
<1>23. Distinct(parts)
  <2> SUFFICES ASSUME NEW i \in 1 .. 6, NEW k \in 1 .. 6, i # k PROVE parts[i][1] # parts[k][1]
    BY <1>20, <1>21 DEF Distinct
  <2>1. i = 1 \/ i = 2 \/ i = 3 \/ i = 4 \/ i = 5 \/ i = 6
    OBVIOUS
  <2>2. k = 1 \/ k = 2 \/ k = 3 \/ k = 4 \/ k = 5 \/ k = 6
    OBVIOUS
  <2> QED
    BY <1>0, <1>d, <2>1, <2>2
<1>24. GraphParts(parts, 6144 * r)
  BY <1>s6, <1>21, <1>22, SMT
<1> QED
  BY <1>23, <1>24 DEF parts

\* The six buffers of the adapters' AdamW state, out and back.
LEMMA LoraStateGood ==
  ASSUME NEW r \in Rank
  PROVE  /\ Good(readback_lora_adamw_state(r), GraphSizes(r))
         /\ Good(update_lora_adamw_state(r), GraphSizes(r))
<1> DEFINE o == adamw_staging_offset(r)
           p == LoraParts(r)
           n == 6144 * r
           host == "trainingStaging"
           b == Barrier({"T"}, {"C"}, {"TW"}, {"CR"}, Names(p))
           q == CopyIn(host, p, o)
<1>1. o \in Nat /\ o + n <= StagingRoom /\ n \in Nat
  BY GraphSizesAre, SMT DEF StagingRoom, Rank
<1>2. GraphParts(p, n) /\ Distinct(p)
  BY LoraPartsAre
<1>3. update_lora_adamw_state(r) = q \o <<b>> /\ readback_lora_adamw_state(r) = StateOut(p, o)
  BY DEF update_lora_adamw_state, readback_lora_adamw_state
<1> HIDE DEF n, p, o
<1>4. Good(StateOut(p, o), GraphSizes(r))
  BY <1>1, <1>2, StagedPartsGood
<1>5. Loads(q, GraphSizes(r))
  <2>1. Room(p, host, o, GraphSizes(r))
    BY <1>1, <1>2, StagedRoom
  <2> QED
    BY <1>2, <2>1, GraphPartsFit, CopyInLoads
<1>6. b \in Fence
  <2>1. /\ {"C"} \in SUBSET AnyStage /\ {"T"} \in SUBSET AnyStage /\ Names(p) \in SUBSET Buffer
        /\ {"TW"} \in SUBSET AnyAccess /\ {"CR"} \in SUBSET AnyAccess
    BY <1>2, GraphPartsFit, GraphBufferIs DEF AnyStage, AnyAccess
  <2> QED
    BY <2>1, BarrierFence
<1> HIDE DEF b, q
<1>7. Good(q \o <<b>>, GraphSizes(r))
  BY <1>5, <1>6, LoadsFenced, LoadsStarted, StartedGood
<1> QED
  BY <1>3, <1>4, <1>7

\* Copies between places of which those written do not overlap and lie in other
\* buffers than those read.
MovesApart(f, t, L, s) ==
  /\ \A n \in 1 .. L : f[n] \in Place /\ t[n] \in Place
  /\ \A n \in 1 .. L : /\ f[n][1] \in DOMAIN s => f[n][3] <= s[f[n][1]]
                       /\ t[n][1] \in DOMAIN s => t[n][3] <= s[t[n][1]]
  /\ \A i, k \in 1 .. L : f[i][1] # t[k][1]
  /\ \A i, k \in 1 .. L : i < k => ~ Clash(t[i], t[k])

Moves(f, t, L) == [n \in 1 .. L |-> Copy(f[n], t[n])]

\* Copies between pairwise disjoint places.
LEMMA MovesGood ==
  ASSUME NEW s, NEW L \in Nat, NEW f, NEW t, MovesApart(f, t, L, s)
  PROVE  /\ Moves(f, t, L) \in Seq(Item) /\ Parallel(Moves(f, t, L))
         /\ Fits(Moves(f, t, L), s)
<1> DEFINE p == Moves(f, t, L)
<1>a. p = [n \in 1 .. L |-> Copy(f[n], t[n])]
  BY DEF Moves
<1> HIDE DEF p
<1>0. /\ \A n \in 1 .. L : f[n] \in Place /\ t[n] \in Place
      /\ \A n \in 1 .. L : /\ f[n][1] \in DOMAIN s => f[n][3] <= s[f[n][1]]
                           /\ t[n][1] \in DOMAIN s => t[n][3] <= s[t[n][1]]
      /\ \A i, k \in 1 .. L : f[i][1] # t[k][1]
      /\ \A i, k \in 1 .. L : i < k => ~ Clash(t[i], t[k])
  BY DEF MovesApart
<1>1. ASSUME NEW n \in 1 .. L
      PROVE  p[n] \in Command /\ p[n].reads = {f[n]} /\ p[n].writes = {t[n]}
  <2>1. p[n] = [stage |-> "T", reads |-> {f[n]}, writes |-> {t[n]}]
    BY <1>a DEF Copy
  <2>2. {f[n]} \in SUBSET Place /\ {t[n]} \in SUBSET Place
    BY <1>0
  <2> QED
    BY <2>1, <2>2 DEF Command, AnyStage
<1>2. p \in Seq(Item) /\ Commands(p) \subseteq 1 .. L
  <2>1. \A n \in 1 .. L : p[n] \in Item
    BY <1>1 DEF Item
  <2> QED
    BY <1>a, <2>1 DEF Commands
<1>3. Parallel(p)
  <2> SUFFICES ASSUME NEW i \in 1 .. L, NEW k \in 1 .. L, i < k PROVE Untouched(p[i], p[k])
    BY <1>2 DEF Parallel
  <2>1. p[i].reads = {f[i]} /\ p[i].writes = {t[i]} /\ p[k].reads = {f[k]} /\ p[k].writes = {t[k]}
    BY <1>1
  <2>2. f[i][1] # t[k][1] /\ f[k][1] # t[i][1] /\ ~ Clash(t[i], t[k])
    BY <1>0
  <2>3. ~ Clash(t[i], f[k]) /\ ~ Clash(f[i], t[k])
    BY <2>2 DEF Clash
  <2> QED
    BY <2>1, <2>2, <2>3 DEF Untouched
<1>4. Fits(p, s)
  <2> SUFFICES ASSUME NEW k \in 1 .. L, NEW q \in p[k].reads \cup p[k].writes, q[1] \in DOMAIN s
               PROVE  q[3] <= s[q[1]]
    BY <1>2 DEF Fits
  <2>1. q = f[k] \/ q = t[k]
    BY <1>1
  <2> QED
    BY <1>0, <2>1
<1> QED
  BY <1>2, <1>3, <1>4 DEF p

LEMMA ProductsGrow ==
  ASSUME NEW a \in Nat, NEW m \in Nat, NEW n \in Nat, m <= n
  PROVE  m * a <= n * a /\ m * a \in Nat /\ n * a \in Nat
<1>1. PICK d \in Nat : n = m + d
  <2>1. n - m \in Nat /\ n = m + (n - m)
    OBVIOUS
  <2> QED
    BY <2>1
<1>2. n * a = m * a + d * a /\ d * a \in Nat /\ m * a \in Nat
  BY <1>1
<1> QED
  BY <1>2

\* The places of the adapters on the device and on the host.
OnDevice(a, n) ==
  <<IF n % 2 = 1 THEN "loraA" ELSE "loraB", ((n - 1) \div 2) * a, (((n - 1) \div 2) + 1) * a>>
OnHost(a, n) == <<"hostStaging", (n - 1) * a, ((n - 1) + 1) * a>>

LEMMA AdapterPlaces ==
  ASSUME NEW r \in Rank, NEW a \in Nat, 8 * a <= GraphSizes(r)["hostStaging"]
  PROVE  /\ \A n \in 1 .. 8 :
              /\ OnDevice(a, n) \in Place /\ OnDevice(a, n)[1] \in {"loraA", "loraB"}
              /\ OnHost(a, n) \in Place /\ OnHost(a, n)[1] = "hostStaging"
              /\ OnHost(a, n)[3] <= GraphSizes(r)["hostStaging"]
         /\ \A i, k \in 1 .. 8 :
              i < k => /\ ~ Clash(OnDevice(a, i), OnDevice(a, k))
                       /\ ~ Clash(OnHost(a, i), OnHost(a, k))
<1>0. GraphSizes(r)["hostStaging"] \in Nat
  BY GraphSizesAre DEF Rank
<1>a. "loraA" \in Buffer /\ "loraB" \in Buffer /\ "hostStaging" \in Buffer
  BY DEF Buffer, GraphBuffer, HostBuffer
<1>1. ASSUME NEW n \in 1 .. 8
      PROVE  /\ OnHost(a, n) \in Place /\ OnHost(a, n)[1] = "hostStaging"
             /\ OnHost(a, n)[2] = (n - 1) * a /\ OnHost(a, n)[3] = n * a
             /\ OnHost(a, n)[3] <= GraphSizes(r)["hostStaging"]
  <2>1. n - 1 \in Nat /\ n \in Nat /\ (n - 1) + 1 = n /\ n <= 8 /\ 8 \in Nat
    OBVIOUS
  <2>2. (n - 1) * a \in Nat /\ n * a \in Nat /\ n * a <= 8 * a /\ 8 * a \in Nat
    BY <2>1, ProductsGrow
  <2> DEFINE x == (n - 1) * a
             y == n * a
  <2>3. OnHost(a, n) = <<"hostStaging", x, y>>
    BY <2>1 DEF OnHost
  <2> HIDE DEF x, y
  <2>4. <<"hostStaging", x, y>> \in Place
    BY <1>a, <2>2 DEF Place, x, y
  <2>5. y <= GraphSizes(r)["hostStaging"]
    BY <1>0, <2>2 DEF y
  <2> QED
    BY <2>3, <2>4, <2>5 DEF x, y
<1>2. ASSUME NEW n \in 1 .. 8
      PROVE  LET m == (n - 1) \div 2
             IN  /\ OnDevice(a, n) \in Place
                 /\ OnDevice(a, n)[1] = (IF n % 2 = 1 THEN "loraA" ELSE "loraB")
                 /\ OnDevice(a, n)[2] = m * a /\ OnDevice(a, n)[3] = (m + 1) * a
                 /\ m \in Nat
  <2> DEFINE m == (n - 1) \div 2
             c == IF n % 2 = 1 THEN "loraA" ELSE "loraB"
             x == m * a
             y == (m + 1) * a
  <2>1. m \in Nat /\ m + 1 \in Nat /\ m <= m + 1
    OBVIOUS
  <2>2. OnDevice(a, n) = <<c, x, y>>
    BY DEF OnDevice
  <2>3. c \in Buffer
    BY <1>a
  <2> HIDE DEF m, c
  <2>4. x \in Nat /\ y \in Nat
    BY <2>1, ProductsGrow
  <2> HIDE DEF x, y
  <2>5. <<c, x, y>> \in Place
    BY <2>3, <2>4 DEF Place
  <2> QED
    BY <2>1, <2>2, <2>5 DEF c, x, y, m
<1>3. ASSUME NEW i \in 1 .. 8, NEW k \in 1 .. 8, i < k
      PROVE  ~ Clash(OnHost(a, i), OnHost(a, k))
  <2>1. i \in Nat /\ k - 1 \in Nat /\ i <= k - 1
    BY <1>3
  <2>2. i * a <= (k - 1) * a /\ i * a \in Nat /\ (k - 1) * a \in Nat
    BY <2>1, ProductsGrow
  <2>3. OnHost(a, i)[3] = i * a /\ OnHost(a, k)[2] = (k - 1) * a
    BY <1>1
  <2> DEFINE x == i * a
             y == (k - 1) * a
  <2> HIDE DEF x, y
  <2>4. x <= y /\ x \in Nat /\ y \in Nat /\ OnHost(a, i)[3] = x /\ OnHost(a, k)[2] = y
    BY <2>2, <2>3 DEF x, y
  <2> QED
    BY <2>4 DEF Clash
<1>4. ASSUME NEW i \in 1 .. 8, NEW k \in 1 .. 8, i < k
      PROVE  ~ Clash(OnDevice(a, i), OnDevice(a, k))
  <2> DEFINE m == (i - 1) \div 2
             n == (k - 1) \div 2
             x == (m + 1) * a
             y == n * a
  <2>1. SUFFICES ASSUME OnDevice(a, i)[1] = OnDevice(a, k)[1] PROVE ~ Clash(OnDevice(a, i), OnDevice(a, k))
    BY DEF Clash
  <2>2. i % 2 = k % 2
    <3>1. (IF i % 2 = 1 THEN "loraA" ELSE "loraB") = (IF k % 2 = 1 THEN "loraA" ELSE "loraB")
      BY <1>2, <2>1
    <3> QED
      BY <3>1
  <2>3. m + 1 \in Nat /\ n \in Nat /\ m + 1 <= n
    BY <1>4, <2>2
  <2>4. OnDevice(a, i)[3] = x /\ OnDevice(a, k)[2] = y
    BY <1>2
  <2> HIDE DEF m, n
  <2>5. x <= y /\ x \in Nat /\ y \in Nat
    BY <2>3, ProductsGrow
  <2> HIDE DEF x, y
  <2> QED
    BY <2>4, <2>5 DEF Clash
<1>5. \A n \in 1 .. 8 : OnDevice(a, n) \in Place /\ OnDevice(a, n)[1] \in {"loraA", "loraB"}
  BY <1>2
<1> QED
  BY <1>1, <1>3, <1>4, <1>5

\* Eight copies between the factors of four targets and the host's buffer.
LEMMA AdaptersGood ==
  ASSUME NEW r \in Rank
  PROVE  /\ Good(readback_lora_adapters(r), GraphSizes(r))
         /\ Good(update_lora_adapters(r), GraphSizes(r))
<1> DEFINE a == H * Floats(r)
           f == [n \in 1 .. 8 |-> OnDevice(a, n)]
           t == [n \in 1 .. 8 |-> OnHost(a, n)]
           out == [n \in 1 .. 8 |-> Copy(f[n], t[n])]
           in == [n \in 1 .. 8 |-> Copy(t[n], f[n])]
           b == Barrier({"T"}, {"C"}, {"TW"}, {"CR"}, LoraAdapters)
           s == GraphSizes(r)
<1>1. readback_lora_adapters(r) = out
  BY DEF readback_lora_adapters, AdapterCopies, OnDevice, OnHost
<1>2. update_lora_adapters(r) = in \o <<b>>
  BY DEF update_lora_adapters, AdapterCopies, OnDevice, OnHost
<1>3. a \in Nat /\ 8 * a <= s["hostStaging"] /\ 8 \in Nat
  <2>1. r \in Nat
    BY DEF Rank
  <2>2. a = 256 * r
    BY <2>1 DEF H, Floats
  <2> QED
    BY <2>1, <2>2, GraphSizesAre
<1>4. "loraA" \notin DOMAIN s /\ "loraB" \notin DOMAIN s /\ "hostStaging" \in DOMAIN s
  BY GraphSizesAre
<1> HIDE DEF a, s
<1>5. /\ \A n \in 1 .. 8 :
           /\ OnDevice(a, n) \in Place /\ OnDevice(a, n)[1] \in {"loraA", "loraB"}
           /\ OnHost(a, n) \in Place /\ OnHost(a, n)[1] = "hostStaging"
           /\ OnHost(a, n)[3] <= s["hostStaging"]
      /\ \A i, k \in 1 .. 8 :
           i < k => /\ ~ Clash(OnDevice(a, i), OnDevice(a, k))
                    /\ ~ Clash(OnHost(a, i), OnHost(a, k))
  BY <1>3, AdapterPlaces DEF s
<1>6. \A n \in 1 .. 8 : f[n] = OnDevice(a, n) /\ t[n] = OnHost(a, n)
  OBVIOUS
<1> HIDE DEF f, t
<1>7. /\ \A n \in 1 .. 8 : f[n] \in Place /\ t[n] \in Place
      /\ \A n \in 1 .. 8 : /\ f[n][1] \in DOMAIN s => f[n][3] <= s[f[n][1]]
                           /\ t[n][1] \in DOMAIN s => t[n][3] <= s[t[n][1]]
      /\ \A i, k \in 1 .. 8 : f[i][1] # t[k][1] /\ t[i][1] # f[k][1]
      /\ \A i, k \in 1 .. 8 : i < k => ~ Clash(t[i], t[k]) /\ ~ Clash(f[i], f[k])
  BY <1>4, <1>5, <1>6
<1>a. MovesApart(f, t, 8, s) /\ MovesApart(t, f, 8, s)
  BY <1>7 DEF MovesApart
<1>b. out = Moves(f, t, 8) /\ in = Moves(t, f, 8)
  BY DEF Moves
<1> HIDE DEF in, out
<1>8. out \in Seq(Item) /\ Parallel(out) /\ Fits(out, s)
  BY <1>3, <1>a, <1>b, MovesGood
<1>9. in \in Seq(Item) /\ Parallel(in) /\ Fits(in, s)
  BY <1>3, <1>a, <1>b, MovesGood
<1>10. b \in Fence
  <2>1. /\ {"C"} \in SUBSET AnyStage /\ {"T"} \in SUBSET AnyStage /\ LoraAdapters \in SUBSET Buffer
        /\ {"TW"} \in SUBSET AnyAccess /\ {"CR"} \in SUBSET AnyAccess
    BY DEF AnyStage, AnyAccess, LoraAdapters, Buffer, GraphBuffer
  <2> QED
    BY <2>1, BarrierFence
<1> HIDE DEF b
<1>11. Good(out, s)
  BY <1>8, ParallelSafe DEF Good
<1>12. Good(in \o <<b>>, s)
  <2> DEFINE g == <<b>>
  <2>1. g \in Seq(Item) /\ Parallel(g) /\ Commands(g) = {} /\ Fits(g, s)
    BY <1>10, FenceAlone
  <2> HIDE DEF g
  <2>2. Parallel(in \o g) /\ Fits(in \o g, s)
    BY <1>9, <2>1, ParallelJoin, FitsJoin
  <2>3. in \o g \in Seq(Item)
    BY <1>9, <2>1, ConcatProperties
  <2>4. Good(in \o g, s)
    BY <2>2, <2>3, ParallelSafe DEF Good
  <2> QED
    BY <2>4 DEF g
<1> QED
  BY <1>1, <1>2, <1>11, <1>12 DEF s, in, out

-----------------------------------------------------------------------------
(* Forward passes whose results are copied out.                             *)

LEMMA ResultDoneOpens == ResultDone \in Fence /\ Opens(ResultDone)
<1>1. ResultDone \in Fence
  BY UsualFences
<1>2. /\ ResultDone.stage = "barrier" /\ ResultDone.from = {"C"} /\ ResultDone.to = {"T"}
      /\ ResultDone.makes = {"CW"} /\ ResultDone.shows = {"TR"} /\ ResultDone.on = {}
  BY BarrierIs DEF ResultDone
<1> QED
  BY <1>1, <1>2 DEF Opens, Begins

\* A result on its way to the host behind ResultDone.
LogitsOut == <<ResultDone, Copy(Whole("logits"), Readback(Floats(Tcap * Vp)))>>

LEMMA LogitsFetched ==
  ASSUME NEW r \in Rank
  PROVE  Stores(LogitsOut, GraphSizes(r)) /\ Fetched(LogitsOut) /\ PlainReads(LogitsOut)
<1> DEFINE n == Floats(Tcap * Vp)
           b == "logits"
<1>1. n \in Nat /\ n <= Floats(Tcap * Vp) /\ b \in GraphBuffer
  BY BytesOfGraph, SMT DEF GraphBuffer
<1>2. LogitsOut = <<ResultDone, Copy(Whole(b), Readback(n))>>
  BY DEF LogitsOut
<1> HIDE DEF n, b
<1>3. Stores(FirstBytes(b, n), GraphSizes(r))
  BY <1>1, ReadbackStore
<1>4. LogitsOut = <<ResultDone>> \o FirstBytes(b, n)
  BY <1>1, <1>2, ResultDoneOpens, BehindFence
<1>5. Stores(LogitsOut, GraphSizes(r)) /\ Fetched(LogitsOut)
  BY <1>3, <1>4, ResultDoneOpens, StoresFetched
<1> QED
  BY <1>5 DEF Stores

\* A program that ends by storing what its kernels wrote.
LEMMA EndWith ==
  ASSUME NEW s, NEW p, NEW q, Started(p, s), Drained(p), Stores(q, s), Fetched(q)
  PROVE  Good(p \o q, s)
<1>1. Good(q, s) /\ PlainReads(q)
  BY StoresGood DEF Stores
<1> QED
  BY <1>1, Finish

\* The forward passes.
LEMMA ForwardGood ==
  ASSUME NEW r \in Rank
  PROVE  Good(forward, GraphSizes(r))
<1>1. "forward" \in KernelName
  BY DEF KernelName
<1>2. Started(Do("forward"), GraphSizes(r)) /\ Drained(Do("forward"))
  BY <1>1, DoKernels, KernelsWait
<1>3. Good(Do("forward") \o LogitsOut, GraphSizes(r))
  BY <1>2, LogitsFetched, EndWith
<1> QED
  BY <1>3 DEF forward, LogitsOut

LEMMA FixedForwardGood ==
  ASSUME NEW r \in Rank
  PROVE  Good(forward_fixed_retained, GraphSizes(r))
<1> DEFINE s == GraphSizes(r)
           c == Copy(Staging(0, 512), Whole("tokens"))
           l == Load(0, 512, "tokens")
           m == StagingBarrier(Transfers, {"TR"})
           w == StagingBarrier({"TW"}, Transfers)
           p0 == m \o <<c, UploadDone>>
           p1 == p0 \o Do("forward")
<1>1. PICK f \in Fence : m = <<f>>
  BY StagingFence DEF Transfers, AnyAccess
<1>2. PICK g \in Fence : w = <<g>>
  BY StagingFence DEF Transfers, AnyAccess
<1>3. Loads(l, s)
  <2> DEFINE lo == 0
             n == 512
             b == "tokens"
  <2>1. lo \in Nat /\ n \in Nat /\ lo + n <= StagingRoom /\ b \in GraphBuffer
    BY DEF StagingRoom, GraphBuffer
  <2> HIDE DEF lo, n, b
  <2>2. Loads(Load(lo, n, b), s)
    BY <2>1, StagingLoad
  <2> QED
    BY <2>2 DEF lo, n, b
<1>4. l = <<c>>
  BY DEF Load
<1>5. <<c, UploadDone>> = l \o <<UploadDone>>
  <2>1. l \in Seq(Item) /\ l[1] = c
    <3>1. l \in Seq(Item)
      BY <1>3 DEF Loads
    <3> QED
      BY <1>4, <3>1
  <2> HIDE DEF c
  <2>2. Len(l) = 1
    BY <1>4
  <2>3. c \in Item /\ UploadDone \in Item
    BY <2>1, <2>2, UsualFences DEF Item
  <2> HIDE DEF l
  <2>4. <<c, UploadDone>> = <<c>> \o <<UploadDone>>
    BY <2>3, PairSplit, Zenon
  <2> QED
    BY <1>4, <2>4, Zenon
<1> HIDE DEF c, l, m, w
<1>6. m \o (l \o <<UploadDone>>) = (m \o l) \o <<UploadDone>>
  <2>1. m \in Seq(Item) /\ l \in Seq(Item) /\ <<UploadDone>> \in Seq(Item)
    BY <1>1, <1>3, FenceAlone, UsualFences DEF Loads
  <2> QED
    BY <2>1, Regroup
<1>7. Loads(m \o l, s)
  BY <1>1, <1>3, LoadsFenced
<1>8. Started(p0, s) /\ Closed(p0)
  BY <1>5, <1>6, <1>7, UploadDoneCloses
<1>9. "forward" \in KernelName
  BY DEF KernelName
<1>10. Started(p1, s) /\ Drained(p1)
  <2> HIDE DEF p0
  <2> QED
    BY <1>8, <1>9, NextDo
<1> HIDE DEF p1
<1>11. Stores(LogitsOut \o w, s) /\ Fetched(LogitsOut \o w)
  BY <1>2, LogitsFetched, FetchedFenced
<1>12. Good(p1 \o (LogitsOut \o w), s)
  BY <1>10, <1>11, EndWith
<1>13. (p1 \o LogitsOut) \o w = p1 \o (LogitsOut \o w)
  <2>1. p1 \in Seq(Item) /\ LogitsOut \in Seq(Item) /\ w \in Seq(Item)
    BY <1>2, <1>10, LogitsFetched, FenceAlone DEF Started, Stores
  <2> QED
    BY <2>1, Regroup
<1>14. forward_fixed_retained = (p1 \o LogitsOut) \o w
  BY DEF forward_fixed_retained, LogitsOut, p1, c, m, w
<1> QED
  BY <1>12, <1>13, <1>14

\* Copies out of the graph into the bytes from lo to hi of the staging buffer.
Saves(p, s, lo, hi) ==
  /\ Stores(p, s)
  /\ \A k \in Commands(p) :
       /\ \A q \in p[k].reads : q[1] \in GraphBuffer
       /\ \A q \in p[k].writes : q[1] = "trainingStaging" /\ lo <= q[2] /\ q[3] <= hi

Save(b, lo, n) == <<Copy(Whole(b), Staging(lo, n))>>

\* One such copy, ...
LEMMA SaveOne ==
  ASSUME NEW r \in Rank, NEW b \in GraphBuffer, NEW lo \in Nat, NEW n \in Nat, lo + n <= StagingRoom
  PROVE  Saves(Save(b, lo, n), GraphSizes(r), lo, lo + n)
<1> DEFINE p == Save(b, lo, n)
           hi == lo + n
           host == "trainingStaging"
           f == Whole(b)
           t == <<host, lo, hi>>
<1>1. hi \in Nat
  OBVIOUS
<1>2. host \in DOMAIN GraphSizes(r) /\ hi <= GraphSizes(r)[host]
  BY GraphSizesAre, SMT DEF StagingRoom
<1>3. p = <<Copy(f, t)>>
  BY DEF Staging, Save
<1>4. t[1] = host /\ t[2] = lo /\ t[3] = hi
  OBVIOUS
<1>a. host = "trainingStaging"
  OBVIOUS
<1> HIDE DEF hi, host, p
<1>5. Stores(p, GraphSizes(r))
  BY <1>1, <1>2, <1>3, GraphStore
<1>6. f \in Place /\ f[1] = b /\ t \in Place
  BY <1>1, <1>2, GraphPlaces
<1> HIDE DEF f, t
<1>7. CopyAt(p, f, t)
  BY <1>3, <1>6, OneCopy, Zenon
<1>8. lo <= lo /\ hi <= hi
  BY <1>1
<1>9. Saves(p, GraphSizes(r), lo, hi)
  BY <1>4, <1>5, <1>6, <1>7, <1>8, <1>a DEF Saves, CopyAt
<1> QED
  BY <1>9 DEF p, hi

\* ... and another one behind its bytes.
LEMMA SaveMore ==
  ASSUME NEW s, NEW p, NEW q, NEW lo \in Nat, NEW mid \in Nat, NEW at \in Nat, NEW hi \in Nat,
         Saves(p, s, lo, mid), Saves(q, s, at, hi), lo <= at, mid <= at, mid <= hi
  PROVE  Saves(p \o q, s, lo, hi)
<1>1. /\ p \in Seq(Item) /\ q \in Seq(Item)
      /\ \A k \in Commands(p) : p[k] \in Command
      /\ \A k \in Commands(q) : q[k] \in Command
  BY CommandItems DEF Saves, Stores
<1>2. ASSUME NEW i \in Commands(p), NEW k \in Commands(q)
      PROVE  Untouched(p[i], q[k])
  <2>1. \A x \in GraphBuffer : x # "trainingStaging"
    BY GraphBufferIs, GraphSizesAre DEF GraphBuffer
  <2>2. \A x \in p[i].writes : x \in Place /\ x[1] = "trainingStaging" /\ x[3] <= mid
    BY <1>1 DEF Saves, Command
  <2>3. \A x \in q[k].writes : x \in Place /\ x[1] = "trainingStaging" /\ at <= x[2]
    BY <1>1 DEF Saves, Command
  <2>4. \A x \in p[i].reads : x[1] \in GraphBuffer
    BY DEF Saves
  <2>5. \A x \in q[k].reads : x[1] \in GraphBuffer
    BY DEF Saves
  <2>6. ASSUME NEW x \in p[i].writes, NEW y \in q[k].writes
        PROVE  ~ Clash(x, y)
    <3>1. x[3] \in Nat /\ y[2] \in Nat /\ x[3] <= mid /\ at <= y[2]
      BY <2>2, <2>3 DEF Place
    <3> QED
      BY <3>1 DEF Clash
  <2> QED
    BY <2>1, <2>2, <2>3, <2>4, <2>5, <2>6 DEF Untouched, Clash
<1>3. Stores(p \o q, s)
  BY <1>2, StoresJoin DEF Saves
<1>4. ASSUME NEW n \in Commands(p \o q)
      PROVE  LET c == (p \o q)[n]
             IN  /\ \A x \in c.reads : x[1] \in GraphBuffer
                 /\ \A x \in c.writes : x[1] = "trainingStaging" /\ lo <= x[2] /\ x[3] <= hi
  <2> DEFINE c == (p \o q)[n]
  <2>1. \/ n \in Commands(p) /\ c = p[n]
        \/ \E k \in Commands(q) : n = Len(p) + k /\ c = q[k]
    BY <1>1, Joined
  <2> HIDE DEF c
  <2>2. CASE n \in Commands(p) /\ c = p[n]
    <3>1. c.writes \subseteq Place
      BY <1>1, <2>2 DEF Command
    <3>2. \A x \in c.writes : x[3] \in Nat /\ x[1] = "trainingStaging" /\ lo <= x[2] /\ x[3] <= mid
      BY <2>2, <3>1 DEF Saves, Place
    <3> QED
      BY <2>2, <3>2 DEF Saves, c
  <2>3. CASE \E k \in Commands(q) : n = Len(p) + k /\ c = q[k]
    <3>1. PICK k \in Commands(q) : c = q[k]
      BY <2>3
    <3>2. c.writes \subseteq Place
      BY <1>1, <3>1 DEF Command
    <3>3. \A x \in c.writes : x[2] \in Nat /\ x[1] = "trainingStaging" /\ at <= x[2] /\ x[3] <= hi
      BY <3>1, <3>2 DEF Saves, Place
    <3> QED
      BY <3>1, <3>3 DEF Saves, c
  <2> QED
    BY <2>1, <2>2, <2>3
<1> QED
  BY <1>3, <1>4 DEF Saves

LEMMA RegroupGood ==
  ASSUME NEW p \in Seq(Item), NEW a \in Seq(Item), NEW b \in Seq(Item), NEW c \in Seq(Item), NEW s
  PROVE  Good(p \o (a \o (b \o c)), s) => Good(((p \o a) \o b) \o c, s)
<1> DEFINE d == p \o a
           e == b \o c
<1>1. d \in Seq(Item) /\ e \in Seq(Item)
  BY Joined
<1> HIDE DEF d, e
<1>2. (d \o b) \o c = d \o (b \o c)
  BY <1>1, Regroup, SMTT(60)
<1>3. (p \o a) \o e = p \o (a \o e)
  BY <1>1, Regroup, SMTT(60)
<1> QED
  BY <1>2, <1>3, Zenon DEF d, e

\* What a program copies out at its end, behind ResultDone and a barrier on the
\* staging buffer.
LEMMA SavedBehind ==
  ASSUME NEW s, NEW p, NEW f \in Fence, NEW q, Started(p, s), Drained(p), Stores(q, s)
  PROVE  Good(((p \o <<ResultDone>>) \o <<f>>) \o q, s)
<1> DEFINE rd == <<ResultDone>>
           fs == <<f>>
           t == fs \o q
<1>1. p \in Seq(Item) /\ rd \in Seq(Item) /\ fs \in Seq(Item) /\ q \in Seq(Item)
  BY FenceAlone, UsualFences DEF Started, Stores
<1>2. Stores(t, s)
  BY StoresFenced
<1>3. Stores(rd \o t, s) /\ Fetched(rd \o t)
  <2> HIDE DEF t
  <2> QED
    BY <1>2, ResultDoneOpens, StoresFetched
<1>4. Good(p \o (rd \o t), s)
  <2> HIDE DEF t, rd
  <2> QED
    BY <1>3, EndWith
<1> HIDE DEF rd, fs
<1>5. Good(p \o (rd \o (fs \o q)), s) => Good(((p \o rd) \o fs) \o q, s)
  BY <1>1, RegroupGood
<1> QED
  BY <1>4, <1>5 DEF rd, fs

\* Logits and row losses are copied out next to each other.
LEMMA FixedLossGood ==
  ASSUME NEW r \in Rank
  PROVE  Good(forward_loss_fixed_retained, GraphSizes(r))
<1> DEFINE s == GraphSizes(r)
           n == Floats(Tcap * Vp)
           at == 1536
           one == "logits"
           two == "rowLoss"
           x == Copy(Whole(one), Staging(at, n))
           y == Copy(Whole(two), Staging(at + n, Floats(Tcap)))
           m == StagingBarrier(Transfers, {"TR"})
           o == StagingBarrier(Transfers, {"TW"})
           w == StagingBarrier({"TW"}, Transfers)
           ks == <<"forward", "ffnForward", "loss">>
           p0 == (m \o CopyWindow) \o o
           p1 == p0 \o <<UploadDone>>
           p2 == p1 \o Run(ks)
           e == <<x, y>>
<1>1. PICK f \in Fence : m = <<f>>
  BY StagingFence DEF Transfers, AnyAccess
<1>2. PICK g \in Fence : w = <<g>>
  BY StagingFence DEF Transfers, AnyAccess
<1>3. PICK h \in Fence : o = <<h>>
  BY StagingFence DEF Transfers, AnyAccess
<1>4. Named(ks)
  <2>1. "forward" \in KernelName /\ "ffnForward" \in KernelName /\ "loss" \in KernelName
    BY DEF KernelName
  <2> QED
    BY <2>1, ThreeNamed
<1>5. at \in Nat /\ n \in Nat /\ at + n \in Nat /\ at + n <= StagingRoom
      /\ Floats(Tcap) \in Nat /\ (at + n) + Floats(Tcap) <= StagingRoom
      /\ (at + n) + Floats(Tcap) \in Nat /\ at <= at + n /\ at + n <= (at + n) + Floats(Tcap)
  BY SMT DEF Floats, Tcap, Vp, StagingRoom
<1>6. one \in GraphBuffer /\ two \in GraphBuffer
  BY DEF GraphBuffer
<1>7. forward_loss_fixed_retained = (((p2 \o <<ResultDone>>) \o o) \o e) \o w
  BY DEF forward_loss_fixed_retained
<1>8. Save(one, at, n) = <<x>> /\ Save(two, at + n, Floats(Tcap)) = <<y>>
  BY DEF Save
<1> HIDE DEF at, n, one, two, m, o, w, ks
<1>9. Saves(<<x>>, s, at, at + n) /\ Saves(<<y>>, s, at + n, (at + n) + Floats(Tcap))
  BY <1>5, <1>6, <1>8, SaveOne
<1>10. e = <<x>> \o <<y>>
  <2>1. <<x>> \in Seq(Item) /\ <<y>> \in Seq(Item)
    BY <1>9 DEF Saves, Stores
  <2> HIDE DEF x, y
  <2>2. <<x>>[1] \in Item /\ <<y>>[1] \in Item
    BY <2>1
  <2>3. x \in Item /\ y \in Item
    BY <2>2
  <2> QED
    BY <2>3, PairSplit
<1> HIDE DEF x, y, e
<1>11. Stores(e, s)
  <2>1. Saves(<<x>> \o <<y>>, s, at, (at + n) + Floats(Tcap))
    <3> DEFINE mid == at + n
               hi == mid + Floats(Tcap)
    <3>1. mid \in Nat /\ hi \in Nat /\ at <= mid /\ mid <= hi /\ mid <= mid
      BY <1>5
    <3>2. Saves(<<x>>, s, at, mid) /\ Saves(<<y>>, s, mid, hi)
      BY <1>9
    <3> HIDE DEF mid, hi, s
    <3>3. Saves(<<x>> \o <<y>>, s, at, hi)
      BY <1>5, <3>1, <3>2, SaveMore
    <3> QED
      BY <3>3 DEF hi, mid
  <2> QED
    BY <1>10, <2>1 DEF Saves
<1>12. Stores(e \o w, s)
  BY <1>2, <1>11, StoresFenced
<1>13. Loads(p0, s)
  <2>1. Loads(m \o CopyWindow, s)
    BY <1>1, WindowLoads, LoadsFenced
  <2> QED
    BY <1>3, <2>1, LoadsFenced
<1>14. Started(p1, s) /\ Closed(p1)
  BY <1>13, UploadDoneCloses
<1> HIDE DEF p1
<1>15. Started(p2, s) /\ Drained(p2)
  BY <1>4, <1>14, RunEnds
<1> HIDE DEF p2
<1>16. Good(((p2 \o <<ResultDone>>) \o o) \o (e \o w), s)
  BY <1>3, <1>12, <1>15, SavedBehind
<1>17. (((p2 \o <<ResultDone>>) \o o) \o e) \o w = ((p2 \o <<ResultDone>>) \o o) \o (e \o w)
  <2>1. p2 \in Seq(Item) /\ <<ResultDone>> \in Seq(Item) /\ o \in Seq(Item)
    BY <1>3, <1>15, FenceAlone, UsualFences DEF Started
  <2>2. e \in Seq(Item) /\ w \in Seq(Item)
    BY <1>2, <1>11, FenceAlone DEF Stores
  <2>3. (p2 \o <<ResultDone>>) \o o \in Seq(Item)
    BY <2>1, Joined
  <2> QED
    BY <2>2, <2>3, Regroup
<1> QED
  BY <1>7, <1>16, <1>17

-----------------------------------------------------------------------------
(* Kernels next to each other, with nothing between them.                   *)

\* One dispatch, as a program.
LEMMA DoIs ==
  ASSUME NEW r \in Rank, NEW k \in KernelName
  PROVE  LET p == Do(k)
         IN  /\ p \in Seq(Item) /\ Len(p) = 1 /\ Commands(p) = {1} /\ p[1] = Dispatch(K[k])
             /\ p[1] \in Command /\ p[1].stage = "C"
             /\ p[1].reads = {Whole(b) : b \in K[k].reads}
             /\ p[1].writes = {Whole(b) : b \in K[k].writes}
             /\ Touching(p, K[k].reads, K[k].writes)
             /\ Parallel(p) /\ Fits(p, GraphSizes(r))
<1> DEFINE p == Do(k)
           c == Dispatch(K[k])
<1>1. c \in Command /\ c.stage = "C"
  BY KernelFits, DispatchIs
<1>2. c.reads = {Whole(b) : b \in K[k].reads} /\ c.writes = {Whole(b) : b \in K[k].writes}
  BY DEF Dispatch
<1>3. p = <<c>>
  BY DEF Do
<1>4. Started(p, GraphSizes(r))
  BY DoKernels, KernelsWait
<1> HIDE DEF c, p
<1>5. p \in Seq(Item) /\ Len(p) = 1 /\ p[1] = c /\ DOMAIN p = {1}
  BY <1>1, <1>3 DEF Item
<1>6. Commands(p) = {1}
  BY <1>1, <1>5 DEF Commands
<1>7. Touching(p, K[k].reads, K[k].writes)
  <2>1. \A b : Whole(b)[1] = b
    BY DEF Whole
  <2> QED
    BY <1>2, <1>5, <1>6, <2>1 DEF Touching
<1>8. Parallel(p)
  BY <1>6 DEF Parallel
<1> QED
  BY <1>1, <1>2, <1>4, <1>5, <1>6, <1>7, <1>8 DEF Started, p, c

\* Commands that need nothing between them, on the buffers R and W.
Aside(p, s, R, W) == /\ p \in Seq(Item) /\ Parallel(p) /\ Fits(p, s) /\ Touching(p, R, W)

\* Programs on different buffers need nothing between them.
LEMMA AsideJoin ==
  ASSUME NEW s, NEW p, NEW q, NEW R, NEW W, NEW A, NEW B,
         Aside(p, s, R, W), Aside(q, s, A, B), W \cap (A \cup B) = {}, R \cap B = {}
  PROVE  Aside(p \o q, s, R \cup A, W \cup B)
<1>1. p \in Seq(Item) /\ q \in Seq(Item)
  BY DEF Aside
<1>2. \A i \in Commands(p) : \A k \in Commands(q) : Untouched(p[i], q[k])
  BY ByName DEF Aside
<1>3. Parallel(p \o q)
  BY <1>1, <1>2, ParallelJoin DEF Aside
<1>4. Fits(p \o q, s)
  BY <1>1, FitsJoin DEF Aside
<1>5. Touching(p \o q, R \cup A, W \cup B)
  BY <1>1, TouchingJoin DEF Aside
<1>6. p \o q \in Seq(Item)
  BY <1>1, Joined
<1> QED
  BY <1>3, <1>4, <1>5, <1>6 DEF Aside

LEMMA DoAside ==
  ASSUME NEW r \in Rank, NEW k \in KernelName
  PROVE  Aside(Do(k), GraphSizes(r), K[k].reads, K[k].writes)
BY DoIs DEF Aside

LEMMA AsideGood ==
  ASSUME NEW s, NEW p, NEW R, NEW W, Aside(p, s, R, W)
  PROVE  Good(p, s)
BY ParallelSafe DEF Aside, Good

\* The four groups of the feed-forward layer share no buffer.
LEMMA FfnAdamwAllGood ==
  ASSUME NEW r \in Rank
  PROVE  Good(run_ffn_adamw_all, GraphSizes(r))
<1> DEFINE s == GraphSizes(r)
           R1 == {"ffnW1", "ffnW1M", "ffnW1V", "ffnW1Gradient"}
           Q1 == {"ffnW1", "ffnW1M", "ffnW1V"}
           R2 == {"ffnB1", "ffnB1M", "ffnB1V", "ffnB1Gradient"}
           Q2 == {"ffnB1", "ffnB1M", "ffnB1V"}
           R3 == {"ffnW2", "ffnW2M", "ffnW2V", "ffnW2Gradient"}
           Q3 == {"ffnW2", "ffnW2M", "ffnW2V"}
           R4 == {"ffnB2", "ffnB2M", "ffnB2V", "ffnB2Gradient"}
           Q4 == {"ffnB2", "ffnB2M", "ffnB2V"}
<1>1. /\ "ffnW1Adamw" \in KernelName /\ "ffnB1Adamw" \in KernelName
      /\ "ffnW2Adamw" \in KernelName /\ "ffnB2Adamw" \in KernelName
  BY DEF KernelName
<1>2. /\ K["ffnW1Adamw"].reads = R1 /\ K["ffnW1Adamw"].writes = Q1
      /\ K["ffnB1Adamw"].reads = R2 /\ K["ffnB1Adamw"].writes = Q2
      /\ K["ffnW2Adamw"].reads = R3 /\ K["ffnW2Adamw"].writes = Q3
      /\ K["ffnB2Adamw"].reads = R4 /\ K["ffnB2Adamw"].writes = Q4
  <2>1. /\ K["ffnW1Adamw"] = FfnKernels["ffnW1Adamw"] /\ K["ffnB1Adamw"] = FfnKernels["ffnB1Adamw"]
        /\ K["ffnW2Adamw"] = FfnKernels["ffnW2Adamw"] /\ K["ffnB2Adamw"] = FfnKernels["ffnB2Adamw"]
    BY KernelsAre, KernelDomains
  <2>2. \A w, x : Optimizer(w, x).reads = w \cup x /\ Optimizer(w, x).writes = w
    BY DEF Optimizer, Kernel
  <2>3. /\ FfnKernels["ffnW1Adamw"] = Optimizer({"ffnW1", "ffnW1M", "ffnW1V"}, {"ffnW1Gradient"})
        /\ FfnKernels["ffnB1Adamw"] = Optimizer({"ffnB1", "ffnB1M", "ffnB1V"}, {"ffnB1Gradient"})
        /\ FfnKernels["ffnW2Adamw"] = Optimizer({"ffnW2", "ffnW2M", "ffnW2V"}, {"ffnW2Gradient"})
        /\ FfnKernels["ffnB2Adamw"] = Optimizer({"ffnB2", "ffnB2M", "ffnB2V"}, {"ffnB2Gradient"})
    BY DEF FfnKernels
  <2> QED
    BY <2>1, <2>2, <2>3
<1>4. /\ Q1 \cap (R2 \cup Q2) = {} /\ R1 \cap Q2 = {}
      /\ (Q1 \cup Q2) \cap (R3 \cup Q3) = {} /\ (R1 \cup R2) \cap Q3 = {}
      /\ ((Q1 \cup Q2) \cup Q3) \cap (R4 \cup Q4) = {} /\ ((R1 \cup R2) \cup R3) \cap Q4 = {}
  OBVIOUS
<1> HIDE DEF R1, Q1, R2, Q2, R3, Q3, R4, Q4
<1>3. /\ Aside(Do("ffnW1Adamw"), s, R1, Q1) /\ Aside(Do("ffnB1Adamw"), s, R2, Q2)
      /\ Aside(Do("ffnW2Adamw"), s, R3, Q3) /\ Aside(Do("ffnB2Adamw"), s, R4, Q4)
  BY <1>1, <1>2, DoAside
<1> HIDE DEF s
<1>5. Aside(Do("ffnW1Adamw") \o Do("ffnB1Adamw"), s, R1 \cup R2, Q1 \cup Q2)
  BY <1>3, <1>4, AsideJoin
<1>6. Aside((Do("ffnW1Adamw") \o Do("ffnB1Adamw")) \o Do("ffnW2Adamw"), s,
            (R1 \cup R2) \cup R3, (Q1 \cup Q2) \cup Q3)
  BY <1>3, <1>4, <1>5, AsideJoin
<1>7. Aside(((Do("ffnW1Adamw") \o Do("ffnB1Adamw")) \o Do("ffnW2Adamw")) \o Do("ffnB2Adamw"), s,
            ((R1 \cup R2) \cup R3) \cup R4, ((Q1 \cup Q2) \cup Q3) \cup Q4)
  BY <1>3, <1>4, <1>6, AsideJoin
<1> QED
  BY <1>7, AsideGood DEF run_ffn_adamw_all, s

-----------------------------------------------------------------------------
(* A token's training step: the fill of dlogits starts before the forward   *)
(* kernel has ended, but touches nothing that kernel uses.                  *)

\* A program may follow one that is closed except for commands it does not touch.
LEMMA ContinueApart ==
  ASSUME NEW s, NEW p, NEW q, Started(p, s), Closed(p), Started(q, s), PlainReads(q),
         \A k \in Commands(q) : \/ q[k].stage = "C"
                                \/ \A i \in Commands(p) : Untouched(p[i], q[k])
  PROVE  Started(p \o q, s) /\ (Drained(q) => Drained(p \o q))
<1>0. /\ p \in Seq(Item) /\ q \in Seq(Item) /\ Safe(p) /\ Safe(q)
      /\ Fits(p, s) /\ Fits(q, s) /\ Tame(p, s) /\ Tame(q, s)
  BY DEF Started
<1>1. ASSUME NEW i \in Commands(p), NEW k \in Commands(q)
      PROVE  Apart(p \o q, i, Len(p) + k)
  <2>1. CASE q[k].stage = "C"
    <3>1. Covers(p[i], q[k])
      BY <1>0, WholeCovers DEF Tame, PlainReads
    <3> QED
      BY <1>0, <2>1, <3>1, CrossClosed
  <2>2. CASE Untouched(p[i], q[k])
    <3>1. i \in 1 .. Len(p) /\ k \in 1 .. Len(q)
      BY <1>0, CommandItems
    <3>2. (p \o q)[i] = p[i] /\ (p \o q)[Len(p) + k] = q[k]
      BY <1>0, <3>1, Joined
    <3> QED
      BY <2>2, <3>2, UntouchedApart
  <2> QED
    BY <2>1, <2>2
<1>2. p \o q \in Seq(Item)
  BY <1>0, Joined
<1>3. Safe(p \o q)
  BY <1>0, <1>1, SafeJoin
<1>4. Started(p \o q, s)
  BY <1>0, <1>2, <1>3, FitsJoin, TameJoin DEF Started
<1>5. Drained(p)
  BY ClosedDrained
<1> QED
  BY <1>0, <1>4, <1>5, EndsJoin

LEMMA RunOfTwo ==
  ASSUME NEW r \in Rank, NEW k \in KernelName, NEW l \in KernelName
  PROVE  LET p == Run(<<k, l>>)
         IN  /\ p \in Seq(Item) /\ Len(p) = 3 /\ Commands(p) = {1, 3}
             /\ p[1] = Dispatch(K[k]) /\ p[2] = KernelDone /\ p[3] = Dispatch(K[l])
<1> DEFINE ks == <<k, l>>
           f == [n \in DOMAIN ks |-> K[ks[n]]]
           p == Run(ks)
<1>1. ks \in Seq(KernelName) /\ ks # <<>> /\ Len(ks) = 2 /\ DOMAIN ks = 1 .. 2 /\ ks[1] = k /\ ks[2] = l
  OBVIOUS
<1>2. Kernels(p, GraphSizes(r))
  <2> HIDE DEF ks
  <2> QED
    BY <1>1, RunKernels
<1>3. p \in Seq(Item)
  BY <1>2 DEF Kernels, Started
<1> HIDE DEF ks
<1>4. f = [n \in 1 .. 2 |-> K[ks[n]]]
  BY <1>1
<1>5. p = Chain(f, KernelDone)
  BY DEF Run
<1> HIDE DEF f, p
<1>6. Len(f) = 2 /\ f[1] = K[k] /\ f[2] = K[l]
  BY <1>1, <1>4
<1>7. /\ DOMAIN p = 1 .. 3
      /\ \A n \in DOMAIN p :
           \/ \E m \in 1 .. 2 : n = 2 * m - 1 /\ p[n] = Dispatch(f[m])
           \/ \E m \in 1 .. 2 : n = 2 * m /\ p[n] = KernelDone
  <2>1. Len(f) \in Nat
    BY <1>6
  <2>2. /\ DOMAIN p = 1 .. 2 * Len(f) - 1
        /\ \A n \in DOMAIN p :
             \/ \E m \in 1 .. Len(f) : n = 2 * m - 1 /\ p[n] = Dispatch(f[m])
             \/ \E m \in 1 .. Len(f) : n = 2 * m /\ p[n] = KernelDone
    BY <1>5, <2>1, ChainIs
  <2> QED
    BY <1>6, <2>2
<1>8. Len(p) = 3
  BY <1>3, <1>7
<1>9. p[1] = Dispatch(K[k]) /\ p[2] = KernelDone /\ p[3] = Dispatch(K[l])
  <2>1. 1 \in DOMAIN p /\ 2 \in DOMAIN p /\ 3 \in DOMAIN p
    BY <1>7
  <2>2. \A m \in 1 .. 2 : m = 1 \/ m = 2
    OBVIOUS
  <2> QED
    BY <1>6, <1>7, <2>1, <2>2
<1>10. Commands(p) = {1, 3}
  <2>1. \A x : Dispatch(x).stage # "barrier"
    BY DEF Dispatch
  <2>2. KernelDone.stage = "barrier"
    BY DEF KernelDone, Barrier
  <2> QED
    BY <1>7, <1>9, <2>1, <2>2 DEF Commands
<1> QED
  BY <1>3, <1>8, <1>9, <1>10 DEF p, ks

FillDone == Barrier({"T"}, {"C"}, {"TW"}, {"CW"}, {})

\* The buffer is filled, and kernels that overwrite it wait.
Filled(b) == <<Fill(Whole(b)), FillDone>>

LEMMA FilledIs ==
  ASSUME NEW r \in Rank, NEW b \in GraphBuffer
  PROVE  LET p == Filled(b)
         IN  /\ Started(p, GraphSizes(r)) /\ PlainReads(p) /\ Drained(p)
             /\ Len(p) = 2 /\ Commands(p) = {1} /\ p[2] = FillDone /\ FillDone \in Fence
             /\ p[1] = Fill(Whole(b)) /\ p[1] \in Command
             /\ p[1].stage = "T" /\ p[1].reads = {} /\ p[1].writes = {Whole(b)}
<1> DEFINE c == Fill(Whole(b))
           p == Filled(b)
<1>0. "readback" \in DOMAIN GraphSizes(r)
  BY GraphSizesAre
<1>1. Whole(b) \in Place /\ Whole(b)[1] = b /\ b \notin DOMAIN GraphSizes(r)
  BY <1>0, GraphPlaces
<1>2. c.stage = "T" /\ c.reads = {} /\ c.writes = {Whole(b)} /\ c \in Command
  <2>1. c = [stage |-> "T", reads |-> {}, writes |-> {Whole(b)}]
    BY DEF Fill
  <2> QED
    BY <1>1, <2>1 DEF Command, AnyStage
<1>3. FillDone \in Fence
  <2>1. {"T"} \in SUBSET AnyStage /\ {"C"} \in SUBSET AnyStage /\ {"TW"} \in SUBSET AnyAccess
        /\ {"CW"} \in SUBSET AnyAccess /\ {} \in SUBSET Buffer
    BY DEF AnyStage, AnyAccess
  <2> QED
    BY <2>1, BarrierFence DEF FillDone
<1>4. /\ FillDone.stage = "barrier" /\ FillDone.from = {"T"} /\ FillDone.to = {"C"}
      /\ FillDone.makes = {"TW"} /\ FillDone.shows = {"CW"} /\ FillDone.on = {}
  BY BarrierIs DEF FillDone
<1>5. p = <<c, FillDone>>
  BY DEF Filled
<1> HIDE DEF c, p
<1>6. p \in Seq(Item) /\ Len(p) = 2 /\ p[1] = c /\ p[2] = FillDone /\ DOMAIN p = 1 .. 2
  BY <1>2, <1>3, <1>5 DEF Item
<1>7. Commands(p) = {1}
  BY <1>2, <1>4, <1>6 DEF Commands
<1>8. Safe(p)
  BY <1>7 DEF Safe
<1>9. Fits(p, GraphSizes(r)) /\ Tame(p, GraphSizes(r)) /\ PlainReads(p)
  BY <1>1, <1>2, <1>6, <1>7 DEF Fits, Tame, PlainReads
<1>10. Drained(p)
  <2>1. Ends(p[2], p[1])
    BY <1>2, <1>4, <1>6 DEF Ends, WriteAccess, Concerns
  <2>2. 2 \in 1 .. Len(p) /\ 1 < 2
    BY <1>6
  <2> QED
    BY <1>7, <2>1, <2>2 DEF Drained
<1> QED
  BY <1>2, <1>3, <1>6, <1>7, <1>8, <1>9, <1>10 DEF Started, p, c

LEMMA LossKernelsAre ==
  /\ "loss" \in KernelName /\ "lmBackward" \in KernelName /\ "forward" \in KernelName
  /\ K["loss"].reads = {"logits", "targets", "mask"} /\ K["loss"].writes = {"dlogits", "rowLoss"}
  /\ K["lmBackward"].reads = {"dlogits", "lmHead"} /\ K["lmBackward"].writes = {"dprojected"}
  /\ K["forward"].reads = ForwardReads /\ K["forward"].writes = ForwardWrites
<1>1. /\ K["loss"] = LossKernels["loss"] /\ K["lmBackward"] = LossKernels["lmBackward"]
      /\ K["forward"] = ForwardKernels["forward"]
  BY KernelsAre, KernelDomains
<1>2. \A x, y : Kernel(x, y).reads = x /\ Kernel(x, y).writes = y
  BY DEF Kernel
<1>3. /\ LossKernels["loss"] = Kernel({"logits", "targets", "mask"}, {"dlogits", "rowLoss"})
      /\ LossKernels["lmBackward"] = Kernel({"dlogits", "lmHead"}, {"dprojected"})
      /\ ForwardKernels["forward"] = Kernel(ForwardReads, ForwardWrites)
  BY DEF LossKernels, ForwardKernels
<1>4. "loss" \in KernelName /\ "lmBackward" \in KernelName /\ "forward" \in KernelName
  BY DEF KernelName
<1> QED
  BY <1>1, <1>2, <1>3, <1>4

LossAndBackward == Filled("dlogits") \o Run(<<"loss", "lmBackward">>)

\* The fill of dlogits is shown to the loss kernel by the barrier behind it.
LEMMA FillThenLoss ==
  ASSUME NEW r \in Rank
  PROVE  LET q == LossAndBackward
         IN  /\ Started(q, GraphSizes(r)) /\ PlainReads(q) /\ Drained(q)
             /\ \A k \in Commands(q) :
                  q[k].stage = "C" \/ (q[k].reads = {} /\ q[k].writes = {Whole("dlogits")})
<1> DEFINE b == "dlogits"
           s == GraphSizes(r)
           ks == <<"loss", "lmBackward">>
           g == Filled(b)
           u == Run(ks)
           q == g \o u
           loss == Dispatch(K["loss"])
           back == Dispatch(K["lmBackward"])
<1>1. b \in GraphBuffer
  BY DEF GraphBuffer
<1>2. /\ Started(g, s) /\ PlainReads(g) /\ Drained(g)
      /\ Len(g) = 2 /\ Commands(g) = {1} /\ g[2] = FillDone
      /\ g[1].stage = "T" /\ g[1].reads = {} /\ g[1].writes = {Whole(b)}
  BY <1>1, FilledIs
<1>3. u \in Seq(Item) /\ Len(u) = 3 /\ Commands(u) = {1, 3}
      /\ u[1] = loss /\ u[2] = KernelDone /\ u[3] = back
  BY LossKernelsAre, RunOfTwo
<1>4. Started(u, s) /\ PlainReads(u) /\ Drained(u)
  <2>1. Named(ks)
    BY LossKernelsAre, TwoNamed
  <2> HIDE DEF ks
  <2>2. Kernels(u, s)
    BY <2>1, RunKernels DEF Named
  <2> QED
    BY <2>2, KernelsWait
<1>5. loss.stage = "C" /\ back.stage = "C"
      /\ loss.reads = {Whole(x) : x \in {"logits", "targets", "mask"}}
      /\ back.reads = {Whole(x) : x \in {"dlogits", "lmHead"}}
      /\ back.writes = {Whole(x) : x \in {"dprojected"}}
  BY LossKernelsAre DEF Dispatch
<1>a. b = "dlogits" /\ b \notin {"logits", "targets", "mask"} /\ b \notin {"dprojected"}
  OBVIOUS
<1>b. \A x, y : Clash(Whole(x), Whole(y)) => x = y
  BY DEF Clash, Whole
<1>c. \A x : Within(Whole(x), Whole(x))
  BY DEF Within, Whole
<1> HIDE DEF b, s, ks, g, u, loss, back
<1>6. /\ q \in Seq(Item)
      /\ q[1] = g[1] /\ q[2] = FillDone /\ q[3] = loss /\ q[4] = KernelDone /\ q[5] = back
      /\ \A n \in Commands(q) : n = 1 \/ q[n] = loss \/ q[n] = back
  <2>1. g \in Seq(Item) /\ u \in Seq(Item)
    BY <1>2, <1>4 DEF Started
  <2>a. /\ q \in Seq(Item) /\ \A n \in 1 .. Len(g) : q[n] = g[n]
        /\ \A n \in 1 .. Len(u) : q[Len(g) + n] = u[n]
        /\ \A n \in Commands(q) : \/ n \in Commands(g) /\ q[n] = g[n]
                                  \/ \E k \in Commands(u) : n = Len(g) + k /\ q[n] = u[k]
    BY <2>1, Joined
  <2>2. /\ q \in Seq(Item) /\ \A n \in 1 .. 2 : q[n] = g[n]
        /\ \A n \in 1 .. 3 : q[2 + n] = u[n]
    BY <1>2, <1>3, <2>a
  <2>3. \A n \in Commands(q) : n = 1 \/ q[n] = u[1] \/ q[n] = u[3]
    BY <1>2, <1>3, <2>a
  <2>4. 1 \in 1 .. 2 /\ 2 \in 1 .. 2 /\ 1 \in 1 .. 3 /\ 2 \in 1 .. 3 /\ 3 \in 1 .. 3
        /\ 2 + 1 = 3 /\ 2 + 2 = 4 /\ 2 + 3 = 5
    OBVIOUS
  <2> HIDE DEF q
  <2>5. q[1] = g[1] /\ q[2] = g[2] /\ q[2 + 1] = u[1] /\ q[2 + 2] = u[2] /\ q[2 + 3] = u[3]
    BY <2>2, <2>4
  <2> QED
    BY <1>2, <1>3, <2>2, <2>3, <2>4, <2>5
<1> HIDE DEF q
<1>7. /\ FillDone.stage = "barrier" /\ FillDone.from = {"T"} /\ FillDone.to = {"C"}
      /\ FillDone.makes = {"TW"} /\ FillDone.on = {}
      /\ KernelDone.stage = "barrier" /\ KernelDone.from = {"C"} /\ KernelDone.to = {"C"}
      /\ KernelDone.shows = {"CR"} /\ KernelDone.on = {}
  BY BarrierIs DEF FillDone, KernelDone
<1>8. WriteAccess(q[1]) = "TW" /\ ReadAccess(q[5]) = "CR"
  BY <1>2, <1>5, <1>6 DEF WriteAccess, ReadAccess
<1>9. Apart(q, 1, 3)
  <2>1. Linked(q, 1, 3, 2, 2)
    BY <1>2, <1>5, <1>6, <1>7 DEF Linked
  <2>2. 2 \in 1 .. 3
    OBVIOUS
  <2>3. \A y : Released(q, 1, 3, y)
    BY <1>6, <1>7, <1>8, <2>1, <2>2 DEF Released, Concerns
  <2>4. \A y \in q[3].reads : ~ Clash(Whole(b), y)
    BY <1>5, <1>6, <1>a, <1>b
  <2> QED
    BY <1>2, <1>6, <2>3, <2>4 DEF Apart
<1>10. Apart(q, 1, 5)
  <2>1. Linked(q, 1, 5, 2, 2) /\ Linked(q, 1, 5, 2, 4)
    BY <1>2, <1>5, <1>6, <1>7 DEF Linked
  <2>2. 2 \in 1 .. 5 /\ 4 \in 1 .. 5
    OBVIOUS
  <2>3. \A y : Released(q, 1, 5, y)
    BY <1>6, <1>7, <1>8, <2>1, <2>2 DEF Released, Concerns
  <2>4. \A y : Visible(q, 1, 5, y)
    BY <1>6, <1>7, <1>8, <2>1, <2>2 DEF Visible, Concerns
  <2>5. \A y \in q[5].reads : Clash(Whole(b), y) => Within(y, Whole(b))
    BY <1>5, <1>6, <1>b, <1>c
  <2> QED
    BY <1>2, <1>6, <2>3, <2>4, <2>5 DEF Apart
<1>11. Safe(q)
  <2>0. g \in Seq(Item) /\ u \in Seq(Item) /\ Safe(g) /\ Safe(u)
    BY <1>2, <1>4 DEF Started
  <2>1. \A i \in Commands(g) : \A k \in Commands(u) : Apart(g \o u, i, Len(g) + k)
    <3>1. Apart(q, 1, 2 + 1) /\ Apart(q, 1, 2 + 3)
      BY <1>9, <1>10
    <3> QED
      BY <1>2, <1>3, <3>1 DEF q
  <2> QED
    BY <2>0, <2>1, SafeJoin DEF q
<1>12. Started(q, s) /\ PlainReads(q) /\ Drained(q)
  <2>0. /\ g \in Seq(Item) /\ u \in Seq(Item) /\ Fits(g, s) /\ Fits(u, s)
        /\ Tame(g, s) /\ Tame(u, s)
    BY <1>2, <1>4 DEF Started
  <2>1. Fits(q, s) /\ Tame(q, s)
    BY <2>0, FitsJoin, TameJoin DEF q
  <2>2. PlainReads(q) /\ Drained(q)
    BY <1>2, <1>4, <2>0, PlainJoin, EndsJoin DEF q
  <2> QED
    BY <1>6, <1>11, <2>1, <2>2 DEF Started
<1>13. \A k \in Commands(q) :
         q[k].stage = "C" \/ (q[k].reads = {} /\ q[k].writes = {Whole(b)})
  BY <1>2, <1>5, <1>6
<1> QED
  BY <1>12, <1>13 DEF LossAndBackward, q, g, u, ks, b, s

LEMMA FourEnd ==
  ASSUME NEW S, NEW x \in S, NEW y \in S, NEW z \in S, NEW u \in S
  PROVE  <<x, y, z, u>> = <<x, y, z>> \o <<u>>
<1> DEFINE a == <<x, y, z>>
           b == <<u>>
           t == <<x, y, z, u>>
           d == a \o b
<1>1. a \in Seq(S) /\ Len(a) = 3 /\ a[1] = x /\ a[2] = y /\ a[3] = z
  OBVIOUS
<1>2. b \in Seq(S) /\ Len(b) = 1 /\ b[1] = u
  OBVIOUS
<1>3. t \in Seq(S) /\ Len(t) = 4 /\ t[1] = x /\ t[2] = y /\ t[3] = z /\ t[4] = u
  OBVIOUS
<1> HIDE DEF a, b, t
<1>4. d \in Seq(S) /\ Len(d) = Len(a) + Len(b)
  BY <1>1, <1>2, ConcatProperties
<1>7. \A i \in 1 .. Len(a) + Len(b) : d[i] = IF i <= Len(a) THEN a[i] ELSE b[i - Len(a)]
  BY <1>1, <1>2, ConcatProperties
<1> HIDE DEF d
<1>8. Len(d) = 4 /\ \A i \in 1 .. 4 : d[i] = IF i <= 3 THEN a[i] ELSE b[i - 3]
  BY <1>1, <1>2, <1>4, <1>7
<1>5. Len(d) = 4 /\ d[1] = x /\ d[2] = y /\ d[3] = z /\ d[4] = u
  BY <1>1, <1>2, <1>8
<1>6. t = d
  <2>1. \A i \in 1 .. 4 : t[i] = d[i]
    BY <1>3, <1>5
  <2> QED
    BY <1>3, <1>4, <1>5, <2>1, SeqEqual
<1> QED
  BY <1>6 DEF t, d, a, b

LEMMA TripleSplit ==
  ASSUME NEW S, NEW x \in S, NEW y \in S, NEW z \in S
  PROVE  <<x, y, z>> = <<x>> \o <<y, z>>
<1> DEFINE a == <<x>>
           b == <<y, z>>
           t == <<x, y, z>>
           d == a \o b
<1>1. a \in Seq(S) /\ Len(a) = 1 /\ a[1] = x
  OBVIOUS
<1>2. b \in Seq(S) /\ Len(b) = 2 /\ b[1] = y /\ b[2] = z
  OBVIOUS
<1>3. t \in Seq(S) /\ Len(t) = 3 /\ t[1] = x /\ t[2] = y /\ t[3] = z
  OBVIOUS
<1> HIDE DEF a, b, t
<1>4. d \in Seq(S) /\ Len(d) = Len(a) + Len(b)
  BY <1>1, <1>2, ConcatProperties
<1>5. \A i \in 1 .. Len(a) + Len(b) : d[i] = IF i <= Len(a) THEN a[i] ELSE b[i - Len(a)]
  BY <1>1, <1>2, ConcatProperties
<1> HIDE DEF d
<1>6. Len(d) = 3 /\ \A i \in 1 .. 3 : d[i] = IF i <= 1 THEN a[i] ELSE b[i - 1]
  BY <1>1, <1>2, <1>4, <1>5
<1>7. d[1] = x /\ d[2] = y /\ d[3] = z
  BY <1>1, <1>2, <1>6
<1>8. t = d
  <2>1. \A i \in 1 .. 3 : t[i] = d[i]
    BY <1>3, <1>7
  <2> QED
    BY <1>3, <1>4, <1>6, <2>1, SeqEqual
<1> QED
  BY <1>8 DEF t, d, a, b

\* Equality of programs, named so that long concatenations are compared as a whole.
Same(p, q) == p = q

LEMMA RegroupMiddle ==
  ASSUME NEW p \in Seq(Item), NEW a \in Seq(Item), NEW b \in Seq(Item), NEW c \in Seq(Item)
  PROVE  Same((p \o (a \o b)) \o c, (p \o a) \o (b \o c))
<1> DEFINE d == p \o a
<1>1. d \in Seq(Item)
  BY Joined
<1>2. p \o (a \o b) = d \o b
  BY Regroup
<1> HIDE DEF d
<1>3. (d \o b) \o c = d \o (b \o c)
  BY <1>1, Regroup
<1> QED
  BY <1>2, <1>3, Zenon DEF d, Same

\* The token's window and its target.
TokenWindow == <<Copy(Staging(0, 512), Whole("tokens")),
                 Copy(Staging(512, 4), Whole("targets")),
                 Copy(Staging(516, 4), Whole("mask"))>>

LEMMA TokenWindowLoads ==
  ASSUME NEW r \in Rank
  PROVE  /\ Loads(TokenWindow, GraphSizes(r))
         /\ Touching(TokenWindow, {"trainingStaging"}, {"tokens", "targets", "mask"})
<1> DEFINE h == "trainingStaging"
           s == GraphSizes(r)
           a == Load(0, 512, "tokens")
           b == Load(512, 4, "targets")
           c == Load(516, 4, "mask")
<1>2. "tokens" \in GraphBuffer /\ "targets" \in GraphBuffer /\ "mask" \in GraphBuffer
  BY DEF GraphBuffer
<1>b. 0 + 512 <= StagingRoom /\ 512 + 4 <= StagingRoom /\ 516 + 4 <= StagingRoom
      /\ 0 \in Nat /\ 512 \in Nat /\ 516 \in Nat /\ 4 \in Nat
  BY SMT DEF StagingRoom
<1>3. Loads(a, s) /\ Touching(a, {h}, {"tokens"})
  BY <1>2, <1>b, StagingLoad
<1>4. Loads(b, s) /\ Touching(b, {h}, {"targets"})
  BY <1>2, <1>b, StagingLoad
<1>5. Loads(c, s) /\ Touching(c, {h}, {"mask"})
  BY <1>2, <1>b, StagingLoad
<1>7. TokenWindow = (a \o b) \o c
  <2> DEFINE x == Copy(Staging(0, 512), Whole("tokens"))
             y == Copy(Staging(512, 4), Whole("targets"))
             z == Copy(Staging(516, 4), Whole("mask"))
             S == {x, y, z}
  <2>1. x \in S /\ y \in S /\ z \in S
    OBVIOUS
  <2>2. TokenWindow = <<x, y, z>> /\ a = <<x>> /\ b = <<y>> /\ c = <<z>>
    BY DEF TokenWindow, Load
  <2> HIDE DEF x, y, z, a, b, c, S
  <2>3. <<x, y, z>> = (<<x>> \o <<y>>) \o <<z>>
    BY <2>1, TripleJoined, SMT
  <2> QED
    BY <2>2, <2>3, Zenon
<1> HIDE DEF a, b, c, s, h
<1>8. {h} \cap {"tokens", "targets", "mask"} = {}
  BY DEF h
<1>9. Loads(a \o b, s) /\ Touching(a \o b, {h} \cup {h}, {"tokens"} \cup {"targets"})
  <2>1. {"tokens"} \cap ({h} \cup {"targets"}) = {} /\ {h} \cap {"targets"} = {}
    BY <1>8
  <2> QED
    BY <1>3, <1>4, <2>1, GraphLoads
<1>10. /\ Loads((a \o b) \o c, s)
       /\ Touching((a \o b) \o c, ({h} \cup {h}) \cup {h}, ({"tokens"} \cup {"targets"}) \cup {"mask"})
  <2>1. ({"tokens"} \cup {"targets"}) \cap (({h} \cup {h}) \cup {"mask"} \cup {h}) = {}
        /\ ({h} \cup {h}) \cap {"mask"} = {}
    BY <1>8
  <2> QED
    BY <1>5, <1>9, <2>1, GraphLoads
<1>11. ({h} \cup {h}) \cup {h} = {h} /\ ({"tokens"} \cup {"targets"}) \cup {"mask"} = {"tokens", "targets", "mask"}
  OBVIOUS
<1> QED
  BY <1>7, <1>10, <1>11 DEF h, s

TokenResults ==
  <<Copy(Whole("dlogits"), Staging(520, Floats(Vp))),
    Copy(Whole("rowLoss"), Staging(520 + Floats(Vp), 4)),
    Copy(Whole("dprojected"), Staging(520 + Floats(Vp) + 4, Floats(H)))>>

LEMMA TokenResultsStored ==
  ASSUME NEW r \in Rank
  PROVE  Stores(TokenResults, GraphSizes(r))
<1> DEFINE s == GraphSizes(r)
           at == 520
           n == Floats(Vp)
           m == 4
           l == Floats(H)
           one == "dlogits"
           two == "rowLoss"
           three == "dprojected"
           x == Copy(Whole(one), Staging(at, n))
           y == Copy(Whole(two), Staging(at + n, m))
           z == Copy(Whole(three), Staging((at + n) + m, l))
           mid == at + n
           last == mid + m
           hi == last + l
<1>1. /\ at \in Nat /\ n \in Nat /\ m \in Nat /\ l \in Nat /\ mid \in Nat /\ last \in Nat /\ hi \in Nat
      /\ at <= mid /\ mid <= last /\ last <= hi
      /\ mid <= StagingRoom /\ last <= StagingRoom /\ hi <= StagingRoom
  BY SMT DEF Floats, Vp, H, StagingRoom
<1>2. one \in GraphBuffer /\ two \in GraphBuffer /\ three \in GraphBuffer
  BY DEF GraphBuffer
<1>3. TokenResults = <<x, y, z>>
  BY DEF TokenResults
<1>4. Save(one, at, n) = <<x>> /\ Save(two, mid, m) = <<y>> /\ Save(three, last, l) = <<z>>
  BY DEF Save
<1> HIDE DEF at, n, m, l, one, two, three, x, y, z
<1>5. Saves(<<x>>, s, at, mid) /\ Saves(<<y>>, s, mid, last) /\ Saves(<<z>>, s, last, hi)
  BY <1>1, <1>2, <1>4, SaveOne
<1> HIDE DEF mid, last, hi, s
<1>6. Saves(<<x>> \o <<y>>, s, at, last)
  <2>1. mid <= mid
    BY <1>1
  <2> QED
    BY <1>1, <1>5, <2>1, SaveMore
<1>7. Saves((<<x>> \o <<y>>) \o <<z>>, s, at, hi)
  <2>1. last <= last /\ at <= last
    BY <1>1
  <2> QED
    BY <1>1, <1>5, <1>6, <2>1, SaveMore
<1>8. <<x, y, z>> = (<<x>> \o <<y>>) \o <<z>>
  <2> DEFINE S == {x, y, z}
  <2>1. x \in S /\ y \in S /\ z \in S
    OBVIOUS
  <2> HIDE DEF S
  <2> QED
    BY <2>1, TripleJoined, SMT
<1> QED
  BY <1>3, <1>7, <1>8 DEF Saves, s

\* token_step_training: its fill may run beside the forward kernel.
LEMMA TokenStepGood ==
  ASSUME NEW r \in Rank
  PROVE  Good(token_step_training, GraphSizes(r))
<1> DEFINE s == GraphSizes(r)
           f == Fill(Whole("dlogits"))
           g == Filled("dlogits")
           u == Run(<<"loss", "lmBackward">>)
           o == StagingBarrier(Transfers, {"TW"})
           kd == <<KernelDone>>
           p0 == TokenWindow \o <<UploadDone>>
           p1 == p0 \o Do("forward")
           p2 == p1 \o kd
           p3 == p2 \o LossAndBackward
           R1 == {"trainingStaging"}
           Q1 == {"tokens", "targets", "mask"}
<1>1. PICK e \in Fence : o = <<e>>
  BY StagingFence DEF Transfers, AnyAccess
<1>2. Loads(TokenWindow, s) /\ Touching(TokenWindow, R1, Q1)
  BY TokenWindowLoads
<1>3. Started(p0, s) /\ Closed(p0) /\ p0 \in Seq(Item)
  BY <1>2, UploadDoneCloses DEF Started
<1>4. Touching(<<UploadDone>>, {}, {}) /\ Touching(kd, {}, {})
      /\ <<UploadDone>> \in Seq(Item) /\ kd \in Seq(Item)
  BY FenceAlone, UsualFences DEF Touching
<1>5. Touching(p0, R1, Q1)
  <2>1. TokenWindow \in Seq(Item)
    BY <1>2 DEF Loads
  <2>2. Touching(p0, R1 \cup {}, Q1 \cup {})
    BY <1>2, <1>4, <2>1, TouchingJoin
  <2> QED
    BY <2>2
<1> HIDE DEF p0, R1, Q1
<1>6. Started(p1, s) /\ ClosedCopies(p1) /\ p1 \in Seq(Item)
  BY <1>3, LossKernelsAre, NextDo DEF Started
<1>7. Touching(p1, R1 \cup ForwardReads, Q1 \cup ForwardWrites)
  <2>1. Do("forward") \in Seq(Item) /\ Touching(Do("forward"), ForwardReads, ForwardWrites)
    BY LossKernelsAre, DoIs
  <2> QED
    BY <1>3, <1>5, <2>1, TouchingJoin
<1>8. Started(p2, s) /\ Closed(p2) /\ p2 \in Seq(Item)
  <2> HIDE DEF p1
  <2> QED
    BY <1>6, KernelDoneCloses DEF Started
<1>9. Touching(p2, R1 \cup ForwardReads, Q1 \cup ForwardWrites)
  <2> HIDE DEF p1, kd
  <2>1. Touching(p2, (R1 \cup ForwardReads) \cup {}, (Q1 \cup ForwardWrites) \cup {})
    BY <1>4, <1>6, <1>7, TouchingJoin
  <2> QED
    BY <2>1
<1>10. Started(p3, s) /\ Drained(p3)
  <2> HIDE DEF p2
  <2>1. /\ Started(LossAndBackward, s) /\ PlainReads(LossAndBackward) /\ Drained(LossAndBackward)
        /\ \A k \in Commands(LossAndBackward) :
             \/ LossAndBackward[k].stage = "C"
             \/ /\ LossAndBackward[k].reads = {}
                /\ LossAndBackward[k].writes = {Whole("dlogits")}
    BY FillThenLoss
  <2>2. "dlogits" \notin R1 \cup ForwardReads /\ "dlogits" \notin Q1 \cup ForwardWrites
    BY DEF R1, Q1, ForwardReads, ForwardWrites
  <2>3. ASSUME NEW i \in Commands(p2), NEW k \in Commands(LossAndBackward),
               LossAndBackward[k].reads = {}, LossAndBackward[k].writes = {Whole("dlogits")}
        PROVE  Untouched(p2[i], LossAndBackward[k])
    <3>1. Whole("dlogits")[1] = "dlogits"
      BY DEF Whole
    <3>2. \A x \in p2[i].reads \cup p2[i].writes : x[1] # "dlogits"
      BY <1>9, <2>2 DEF Touching
    <3>3. \A x \in p2[i].reads \cup p2[i].writes :
            ~ Clash(x, Whole("dlogits"))
      BY <3>1, <3>2 DEF Clash
    <3> QED
      BY <2>3, <3>3 DEF Untouched
  <2> QED
    BY <1>8, <2>1, <2>3, ContinueApart
<1>11. Good(((p3 \o <<ResultDone>>) \o o) \o TokenResults, s)
  <2> HIDE DEF p3
  <2> QED
    BY <1>1, <1>10, TokenResultsStored, SavedBehind
<1>12. (p1 \o <<KernelDone, f, FillDone>>) \o u = p3
  <2>1. f \in Item /\ KernelDone \in Item /\ FillDone \in Item /\ g \in Seq(Item)
    <3> DEFINE b == "dlogits"
    <3>1. b \in GraphBuffer
      BY DEF GraphBuffer
    <3> HIDE DEF b
    <3>2. /\ Filled(b)[1] = Fill(Whole(b)) /\ Filled(b)[1] \in Command /\ FillDone \in Fence
          /\ Started(Filled(b), s)
      BY <3>1, FilledIs
    <3> QED
      BY <3>2, UsualFences DEF Item, b, Started
  <2>2. u \in Seq(Item)
    BY LossKernelsAre, RunOfTwo
  <2>3. g = <<f, FillDone>> /\ LossAndBackward = g \o u
    BY DEF Filled, LossAndBackward
  <2> HIDE DEF f, g, u
  <2>4. <<KernelDone, f, FillDone>> = kd \o <<f, FillDone>>
    BY <2>1, TripleSplit, Zenon
  <2> HIDE DEF p1, kd
  <2>5. Same((p1 \o (kd \o g)) \o u, (p1 \o kd) \o (g \o u))
    BY <1>4, <1>6, <2>1, <2>2, RegroupMiddle
  <2> QED
    BY <2>3, <2>4, <2>5, Zenon DEF Same
<1>13. token_step_training
         = (((p1 \o <<KernelDone, f, FillDone>>) \o u) \o <<ResultDone>> \o o) \o TokenResults
  <2> DEFINE x == Copy(Staging(0, 512), Whole("tokens"))
             y == Copy(Staging(512, 4), Whole("targets"))
             z == Copy(Staging(516, 4), Whole("mask"))
             S == {x, y, z, UploadDone}
  <2>1. x \in S /\ y \in S /\ z \in S /\ UploadDone \in S
    OBVIOUS
  <2>2. /\ TokenWindow = <<x, y, z>>
        /\ token_step_training
             = ((((((<<x, y, z, UploadDone>> \o Do("forward")) \o <<KernelDone, f, FillDone>>) \o u)
                  \o <<ResultDone>>) \o o) \o TokenResults)
    BY DEF TokenWindow, token_step_training, TokenResults, FillDone
  <2> HIDE DEF x, y, z, S
  <2>3. <<x, y, z, UploadDone>> = <<x, y, z>> \o <<UploadDone>>
    BY <2>1, FourEnd, SMT
  <2>4. <<x, y, z, UploadDone>> = p0
    BY <2>2, <2>3 DEF p0
  <2> QED
    BY <2>2, <2>4, Zenon
<1> QED
  BY <1>11, <1>12, <1>13

-----------------------------------------------------------------------------
(* The evaluation of a dataset batch: one window after the other, with the  *)
(* metrics copied out between them.                                         *)

\* What p has written, and what it has read, waits for copies to come, ...
Settled(p) ==
  \A i \in Commands(p) :
    \/ /\ p[i].stage = "C"
       /\ \E c \in 1 .. Len(p) : i < c /\ Opens(p[c])
    \/ /\ p[i].stage = "T"
       /\ \E b, c \in 1 .. Len(p) : /\ i < b /\ b <= c /\ Ends(p[b], p[i]) /\ "CR" \in p[b].shows
                                    /\ Opens(p[c])

\* ... and the kernels of q wait for copies before them.
Uploads(b) == /\ b.stage = "barrier" /\ "T" \in b.from /\ "C" \in b.to
              /\ "CR" \in b.shows /\ b.on = {}

Reopened(q) ==
  \A k \in Commands(q) : q[k].stage = "C" => \E b \in 1 .. Len(q) : b < k /\ Uploads(q[b])

\* A kernel or a copy of a settled program is out of the way of the copies behind
\* it and, through the barrier after those, of the kernels.
LEMMA CrossSettled ==
  ASSUME NEW p \in Seq(Item), NEW q \in Seq(Item), Settled(p), Reopened(q),
         NEW i \in Commands(p), NEW k \in Commands(q), Covers(p[i], q[k])
  PROVE  Apart(p \o q, i, Len(p) + k)
<1> DEFINE r == p \o q
           L == Len(p)
           m == L + k
<1>0. /\ i \in 1 .. L /\ k \in 1 .. Len(q) /\ L \in Nat /\ Len(q) \in Nat
      /\ p[i] \in Command /\ q[k] \in Command
  BY CommandItems
<1>1. /\ \A n \in 1 .. L : r[n] = p[n]
      /\ \A n \in 1 .. Len(q) : r[L + n] = q[n]
  BY Joined
<1>3. r[i] = p[i] /\ r[m] = q[k] /\ m \in Nat /\ i \in Nat
  BY <1>0, <1>1
<1>4. \A n \in 1 .. L : i < n => n \in i .. m /\ n < m /\ n \in Nat
  BY <1>0
<1>5. \A n \in 1 .. Len(q) : n < k => L + n \in i .. m /\ L + n < m /\ \A x \in 1 .. L : x <= L + n
  BY <1>0
<1> HIDE DEF r, m
<1>6. ASSUME NEW b \in i .. m, NEW c \in i .. m, Linked(r, i, m, b, c),
             WriteAccess(r[i]) \in r[b].makes, ReadAccess(r[m]) \in r[c].shows, r[c].on = {},
             \A x \in r[i].writes : Concerns(r[b], x)
      PROVE  Apart(r, i, m)
  <2>1. Ordered(r, i, m)
    BY <1>6 DEF Ordered
  <2>2. ASSUME NEW x \in r[i].writes, NEW y, Clash(x, y)
        PROVE  Released(r, i, m, y) /\ Visible(r, i, m, y)
    <3>1. Concerns(r[b], y) /\ Concerns(r[c], y)
      BY <1>6, <2>2 DEF Concerns, Clash
    <3> QED
      BY <1>6, <3>1 DEF Released, Visible
  <2> QED
    BY <1>3, <2>1, <2>2 DEF Apart, Covers
<1>7. CASE p[i].stage = "C" /\ q[k].stage = "T"
  <2>1. PICK c \in 1 .. L : i < c /\ Opens(p[c])
    BY <1>7 DEF Settled
  <2>2. r[c] = p[c] /\ c \in i .. m /\ c < m /\ c \in Nat
    BY <1>1, <1>4, <2>1
  <2>3. Linked(r, i, m, c, c)
    BY <1>3, <1>7, <2>1, <2>2 DEF Linked, Opens, Begins
  <2>4. WriteAccess(r[i]) \in r[c].makes /\ ReadAccess(r[m]) \in r[c].shows /\ r[c].on = {}
    BY <1>3, <1>7, <2>1, <2>2 DEF Opens, WriteAccess, ReadAccess
  <2>5. \A x \in r[i].writes : Concerns(r[c], x)
    BY <2>4 DEF Concerns
  <2> QED
    BY <1>6, <2>2, <2>3, <2>4, <2>5 DEF r, m
<1>8. CASE p[i].stage = "T" /\ q[k].stage = "T"
  <2>1. PICK b \in 1 .. L, c \in 1 .. L : i < b /\ b <= c /\ Ends(p[b], p[i]) /\ Opens(p[c])
    BY <1>8 DEF Settled
  <2>2. /\ r[b] = p[b] /\ r[c] = p[c] /\ b \in i .. m /\ c \in i .. m /\ c < m /\ b <= c /\ i < b
    BY <1>0, <1>1, <1>4, <2>1
  <2>3. Linked(r, i, m, b, c)
    BY <1>3, <1>8, <2>1, <2>2 DEF Linked, Opens, Begins, Ends
  <2>4. WriteAccess(r[i]) \in r[b].makes /\ ReadAccess(r[m]) \in r[c].shows /\ r[c].on = {}
    BY <1>3, <1>8, <2>1, <2>2 DEF Opens, Ends, WriteAccess, ReadAccess
  <2>5. \A x \in r[i].writes : Concerns(r[b], x)
    BY <1>3, <2>1, <2>2 DEF Ends
  <2> QED
    BY <1>6, <2>2, <2>3, <2>4, <2>5 DEF r, m
<1>9. CASE p[i].stage = "C" /\ q[k].stage = "C"
  <2>1. PICK b \in 1 .. L : i < b /\ Opens(p[b])
    BY <1>9 DEF Settled
  <2>2. PICK c \in 1 .. Len(q) : c < k /\ Uploads(q[c])
    BY <1>9 DEF Reopened
  <2>3. /\ r[b] = p[b] /\ r[L + c] = q[c] /\ b \in i .. m /\ L + c \in i .. m
        /\ L + c < m /\ b <= L + c /\ i < b
    BY <1>0, <1>1, <1>4, <1>5, <2>1, <2>2
  <2>4. Linked(r, i, m, b, L + c)
    BY <1>3, <1>9, <2>1, <2>2, <2>3 DEF Linked, Opens, Begins, Uploads
  <2>5. WriteAccess(r[i]) \in r[b].makes /\ ReadAccess(r[m]) \in r[L + c].shows /\ r[L + c].on = {}
    BY <1>3, <1>9, <2>1, <2>2, <2>3 DEF Opens, Uploads, WriteAccess, ReadAccess
  <2>6. \A x \in r[i].writes : Concerns(r[b], x)
    BY <2>1, <2>3 DEF Opens, Concerns
  <2> QED
    BY <1>6, <2>3, <2>4, <2>5, <2>6 DEF r, m
<1>10. CASE p[i].stage = "T" /\ q[k].stage = "C"
  <2>1. PICK b \in 1 .. L : i < b /\ Ends(p[b], p[i]) /\ "CR" \in p[b].shows
    BY <1>10 DEF Settled
  <2>2. r[b] = p[b] /\ b \in i .. m /\ b < m /\ i < b /\ b <= b
    BY <1>0, <1>1, <1>4, <2>1
  <2>3. Linked(r, i, m, b, b)
    BY <1>3, <1>10, <2>1, <2>2 DEF Linked, Ends
  <2>4. Ordered(r, i, m)
    BY <2>2, <2>3 DEF Ordered
  <2>5. ASSUME NEW x \in r[i].writes, NEW y, Clash(x, y)
        PROVE  Released(r, i, m, y) /\ Visible(r, i, m, y)
    <3>1. Concerns(r[b], y)
      BY <1>3, <2>1, <2>2, <2>5 DEF Concerns, Clash, Ends
    <3>2. WriteAccess(r[i]) \in r[b].makes /\ ReadAccess(r[m]) \in r[b].shows
      BY <1>3, <1>10, <2>1, <2>2 DEF Ends, ReadAccess
    <3> QED
      BY <2>2, <2>3, <3>1, <3>2 DEF Released, Visible
  <2> QED
    BY <1>3, <2>4, <2>5 DEF Apart, Covers, r, m
<1> QED
  BY <1>0, <1>7, <1>8, <1>9, <1>10, StageOf DEF r, m

\* ResultDone settles kernels, and copies that a barrier has shown to them.
LEMMA ResultSettles ==
  ASSUME NEW s, NEW p, Started(p, s), ClosedCopies(p)
  PROVE  /\ Started(p \o <<ResultDone>>, s) /\ Settled(p \o <<ResultDone>>)
<1> DEFINE r == p \o <<ResultDone>>
<1>1. p \in Seq(Item) /\ \A i \in Commands(p) : p[i] \in Command
  BY CommandItems DEF Started
<1>2. \A i \in Commands(r) :
         /\ i \in Commands(p) /\ r[i] = p[i]
         /\ Len(p) + 1 \in 1 .. Len(r) /\ i < Len(p) + 1
         /\ r[Len(p) + 1] = ResultDone
         /\ \A c \in 1 .. Len(p) : c \in 1 .. Len(r) /\ r[c] = p[c]
  BY <1>1, UsualFences, LastFence
<1>3. Started(r, s)
  BY UsualFences, StartedFenced
<1>4. Len(p) \in Nat
  BY <1>1
<1> HIDE DEF r
<1>5. ASSUME NEW i \in Commands(r)
      PROVE  \/ r[i].stage = "C" /\ \E c \in 1 .. Len(r) : i < c /\ Opens(r[c])
             \/ /\ r[i].stage = "T"
                /\ \E b, c \in 1 .. Len(r) : /\ i < b /\ b <= c /\ Ends(r[b], r[i])
                                             /\ "CR" \in r[b].shows /\ Opens(r[c])
  <2>1. CASE r[i].stage = "C"
    BY <1>2, <2>1, ResultDoneOpens
  <2>2. CASE r[i].stage = "T"
    <3>1. PICK b \in 1 .. Len(p) : i < b /\ Ends(p[b], p[i]) /\ "CR" \in p[b].shows
      BY <1>2, <2>2 DEF ClosedCopies
    <3>2. b <= Len(p) + 1
      BY <1>4
    <3> QED
      BY <1>2, <2>2, <3>1, <3>2, ResultDoneOpens
  <2> QED
    BY <1>1, <1>2, <2>1, <2>2, StageOf
<1> QED
  BY <1>3, <1>5 DEF Settled, r

\* UploadDone reopens the way for the kernels behind it.
LEMMA AfterUpload ==
  ASSUME NEW p \in Seq(Item), NEW q \in Seq(Item), \A k \in Commands(p) : p[k].stage = "T"
  PROVE  Reopened((p \o <<UploadDone>>) \o q)
<1> DEFINE u == <<UploadDone>>
           a == p \o u
           r == a \o q
<1>1. u \in Seq(Item) /\ Len(u) = 1 /\ u[1] = UploadDone /\ Commands(u) = {}
  BY UsualFences, FenceAlone
<1>2. Uploads(UploadDone)
  BY BarrierIs DEF Uploads, UploadDone
<1> HIDE DEF u
<1>3. /\ a \in Seq(Item) /\ Len(a) = Len(p) + 1 /\ a[Len(p) + 1] = UploadDone
      /\ \A n \in Commands(a) : n \in Commands(p) /\ a[n] = p[n]
  <2>1. /\ a \in Seq(Item) /\ Len(a) = Len(p) + Len(u)
        /\ \A n \in 1 .. Len(u) : a[Len(p) + n] = u[n]
        /\ \A n \in Commands(a) : \/ n \in Commands(p) /\ a[n] = p[n]
                                  \/ \E k \in Commands(u) : n = Len(p) + k /\ a[n] = u[k]
    BY <1>1, Joined
  <2>2. 1 \in 1 .. Len(u)
    BY <1>1
  <2> HIDE DEF a
  <2> QED
    BY <1>1, <2>1, <2>2
<1> HIDE DEF a
<1>4. /\ r \in Seq(Item) /\ Len(r) = Len(a) + Len(q) /\ \A n \in 1 .. Len(a) : r[n] = a[n]
      /\ \A n \in Commands(r) : \/ n \in Commands(a) /\ r[n] = a[n]
                                \/ \E k \in Commands(q) : n = Len(a) + k /\ r[n] = q[k]
  BY <1>3, Joined
<1>5. Len(p) \in Nat /\ Len(q) \in Nat /\ Commands(q) \subseteq 1 .. Len(q)
  BY CommandItems
<1> HIDE DEF r
<1>6. ASSUME NEW n \in Commands(r), r[n].stage = "C"
      PROVE  \E b \in 1 .. Len(r) : b < n /\ Uploads(r[b])
  <2>1. CASE n \in Commands(a) /\ r[n] = a[n]
    BY <1>3, <1>6, <2>1
  <2>2. CASE \E k \in Commands(q) : n = Len(a) + k /\ r[n] = q[k]
    <3>1. PICK k \in Commands(q) : n = Len(a) + k
      BY <2>2
    <3>2. Len(a) \in 1 .. Len(r) /\ Len(a) < n /\ Len(a) \in 1 .. Len(a)
      BY <1>3, <1>4, <1>5, <3>1
    <3>3. r[Len(a)] = UploadDone
      BY <1>3, <1>4, <3>2
    <3> QED
      BY <1>2, <3>2, <3>3
  <2> QED
    BY <1>4, <2>1, <2>2
<1> QED
  BY <1>6 DEF Reopened, r, a, u

LEMMA ReopenedStays ==
  ASSUME NEW p \in Seq(Item), NEW q \in Seq(Item), Reopened(p), \A k \in Commands(q) : q[k].stage = "T"
  PROVE  Reopened(p \o q)
<1> DEFINE r == p \o q
<1>1. /\ r \in Seq(Item) /\ Len(r) = Len(p) + Len(q) /\ \A n \in 1 .. Len(p) : r[n] = p[n]
      /\ \A n \in Commands(r) : \/ n \in Commands(p) /\ r[n] = p[n]
                                \/ \E k \in Commands(q) : n = Len(p) + k /\ r[n] = q[k]
  BY Joined
<1>2. Len(p) \in Nat /\ Len(q) \in Nat
  OBVIOUS
<1> HIDE DEF r
<1>3. ASSUME NEW n \in Commands(r), r[n].stage = "C"
      PROVE  \E b \in 1 .. Len(r) : b < n /\ Uploads(r[b])
  <2>1. n \in Commands(p) /\ r[n] = p[n]
    BY <1>1, <1>3
  <2>2. PICK b \in 1 .. Len(p) : b < n /\ Uploads(p[b])
    BY <1>3, <2>1 DEF Reopened
  <2>3. b \in 1 .. Len(r)
    BY <1>1, <1>2
  <2> QED
    BY <1>1, <2>2, <2>3
<1> QED
  BY <1>3 DEF Reopened, r

\* A reopened program may follow a settled one.
LEMMA JoinSettled ==
  ASSUME NEW s, NEW p, NEW q, Started(p, s), Settled(p), Good(q, s), PlainReads(q), Reopened(q)
  PROVE  Good(p \o q, s)
<1>1. /\ p \in Seq(Item) /\ q \in Seq(Item) /\ Safe(p) /\ Safe(q) /\ Fits(p, s) /\ Fits(q, s)
      /\ Tame(p, s) /\ Final(q, DOMAIN s)
  BY DEF Started, Good
<1>2. ASSUME NEW i \in Commands(p), NEW k \in Commands(q)
      PROVE  Apart(p \o q, i, Len(p) + k)
  <2>1. Covers(p[i], q[k])
    BY <1>1, WholeCovers DEF Tame, PlainReads
  <2> QED
    BY <1>1, <2>1, CrossSettled
<1>3. Safe(p \o q)
  BY <1>1, <1>2, SafeJoin
<1>4. Fits(p \o q, s) /\ Final(p \o q, DOMAIN s) /\ p \o q \in Seq(Item)
  BY <1>1, FitsJoin, FinalJoin, Joined
<1> QED
  BY <1>3, <1>4 DEF Good

LEMMA FinalBoth ==
  ASSUME NEW p \in Seq(Item), NEW q \in Seq(Item), NEW hosts, Final(p, hosts), Final(q, hosts),
         \A i \in Commands(p) : \A k \in Commands(q) :
           \A x \in p[i].writes : \A y \in q[k].writes : ~ Clash(x, y)
  PROVE  Final(p \o q, hosts)
<1> DEFINE r == p \o q
<1>0. Commands(p) \subseteq 1 .. Len(p) /\ Commands(q) \subseteq 1 .. Len(q) /\ Len(p) \in Nat
  BY CommandItems
<1>1. \A n \in Commands(r) :
        \/ n \in Commands(p) /\ r[n] = p[n]
        \/ \E k \in Commands(q) : n = Len(p) + k /\ r[n] = q[k]
  BY Joined
<1> HIDE DEF r
<1> SUFFICES ASSUME NEW i \in Commands(r), NEW k \in Commands(r), i < k, r[i].stage = "T",
                    NEW x \in r[i].writes, NEW y \in r[k].writes, x[1] \in hosts
             PROVE  ~ Clash(x, y)
  BY DEF Final, r
<1>2. CASE /\ i \in Commands(p) /\ r[i] = p[i]
           /\ k \in Commands(p) /\ r[k] = p[k]
  BY <1>2 DEF Final
<1>3. CASE /\ i \in Commands(p) /\ r[i] = p[i]
           /\ \E l \in Commands(q) : k = Len(p) + l /\ r[k] = q[l]
  BY <1>3
<1>4. CASE /\ \E j \in Commands(q) : i = Len(p) + j /\ r[i] = q[j]
           /\ k \in Commands(p) /\ r[k] = p[k]
  BY <1>0, <1>4
<1>5. CASE /\ \E j \in Commands(q) : i = Len(p) + j /\ r[i] = q[j]
           /\ \E l \in Commands(q) : k = Len(p) + l /\ r[k] = q[l]
  <2>1. PICK j \in Commands(q), l \in Commands(q) :
           i = Len(p) + j /\ r[i] = q[j] /\ k = Len(p) + l /\ r[k] = q[l]
    BY <1>5
  <2>2. j < l
    BY <1>0, <2>1
  <2> QED
    BY <2>1, <2>2 DEF Final
<1> QED
  BY <1>1, <1>2, <1>3, <1>4, <1>5

\* What follows the copy of the first window's metrics.
Later(q) ==
  \A k \in Commands(q) :
    /\ \A x \in q[k].reads : x[1] # "trainingStaging"
    /\ \A x \in q[k].writes : /\ x[1] = "trainingStaging" => 8 <= x[2]
                              /\ x[1] = "metrics" => q[k].stage = "C"

\* Programs that leave the first eight bytes of the results alone.
LEMMA LaterJoin ==
  ASSUME NEW p \in Seq(Item), NEW q \in Seq(Item), Later(p), Later(q)
  PROVE  Later(p \o q)
<1> DEFINE r == p \o q
<1>1. \A n \in Commands(r) :
        \/ n \in Commands(p) /\ r[n] = p[n]
        \/ \E k \in Commands(q) : n = Len(p) + k /\ r[n] = q[k]
  BY Joined
<1> HIDE DEF r
<1> SUFFICES ASSUME NEW n \in Commands(r)
             PROVE  /\ \A x \in r[n].reads : x[1] # "trainingStaging"
                    /\ \A x \in r[n].writes : /\ x[1] = "trainingStaging" => 8 <= x[2]
                                              /\ x[1] = "metrics" => r[n].stage = "C"
  BY DEF Later, r
<1> QED
  BY <1>1 DEF Later

\* The metrics of a window stay where they are while the next window runs.
LEMMA StoreThen ==
  ASSUME NEW s, NEW p, NEW q, Saves(p, s, 0, 8), Touching(p, {"metrics"}, {"trainingStaging"}),
         Good(q, s), Reopened(q), Later(q)
  PROVE  Good(p \o q, s)
<1> DEFINE r == p \o q
           L == Len(p)
<1>1. /\ p \in Seq(Item) /\ q \in Seq(Item) /\ Good(p, s) /\ Safe(p) /\ Safe(q)
      /\ Fits(p, s) /\ Fits(q, s) /\ Final(p, DOMAIN s) /\ Final(q, DOMAIN s)
      /\ \A k \in Commands(p) : p[k].stage = "T"
  BY StoresGood DEF Saves, Good, Stores
<1>2. /\ Commands(p) \subseteq 1 .. L /\ Commands(q) \subseteq 1 .. Len(q)
      /\ L \in Nat /\ Len(q) \in Nat
      /\ \A k \in Commands(p) : p[k] \in Command
      /\ \A k \in Commands(q) : q[k] \in Command
  BY <1>1, CommandItems
<1>3. /\ \A n \in 1 .. L : r[n] = p[n]
      /\ \A n \in 1 .. Len(q) : r[L + n] = q[n]
  BY <1>1, Joined
<1> HIDE DEF r
<1>4. ASSUME NEW i \in Commands(p), NEW k \in Commands(q)
      PROVE  \A x \in p[i].writes : \A y \in q[k].writes : ~ Clash(x, y)
  <2> SUFFICES ASSUME NEW x \in p[i].writes, NEW y \in q[k].writes PROVE ~ Clash(x, y)
    OBVIOUS
  <2>1. x \in Place /\ y \in Place
    BY <1>2 DEF Command
  <2>2. x[3] \in Nat /\ y[2] \in Nat
    BY <2>1 DEF Place
  <2>3. x[1] = "trainingStaging" /\ x[3] <= 8
    BY DEF Saves
  <2>4. y[1] = "trainingStaging" => 8 <= y[2]
    BY DEF Later
  <2> QED
    BY <2>2, <2>3, <2>4 DEF Clash
<1>5. ASSUME NEW i \in Commands(p), NEW k \in Commands(q)
      PROVE  Apart(r, i, L + k)
  <2>1. r[i] = p[i] /\ r[L + k] = q[k]
    BY <1>2, <1>3
  <2>2. \A x \in p[i].writes : \A y \in q[k].reads : ~ Clash(x, y)
    BY DEF Saves, Later, Clash
  <2>3. ASSUME NEW x \in p[i].reads, NEW y \in q[k].writes, Clash(x, y)
        PROVE  Ordered(r, i, L + k)
    <3>1. q[k].stage = "C"
      BY <2>3 DEF Touching, Later, Clash
    <3>2. PICK b \in 1 .. Len(q) : b < k /\ Uploads(q[b])
      BY <3>1 DEF Reopened
    <3>3. /\ r[L + b] = q[b] /\ L + b \in i .. L + k /\ i < L + b /\ L + b <= L + b
          /\ L + b < L + k
      BY <1>2, <1>3, <3>2
    <3>4. Linked(r, i, L + k, L + b, L + b)
      BY <1>1, <2>1, <3>1, <3>2, <3>3 DEF Linked, Uploads
    <3> QED
      BY <3>3, <3>4 DEF Ordered
  <2> QED
    BY <1>4, <2>1, <2>2, <2>3 DEF Apart
<1>6. Safe(r)
  BY <1>1, <1>5, SafeJoin DEF r
<1>7. Fits(r, s) /\ Final(r, DOMAIN s) /\ r \in Seq(Item)
  BY <1>1, <1>4, FitsJoin, FinalBoth, Joined DEF r
<1> QED
  BY <1>6, <1>7 DEF Good, r

LEMMA FencesLater ==
  ASSUME NEW b \in Fence
  PROVE  Later(<<b>>) /\ \A R, W : Touching(<<b>>, R, W)
BY FenceAlone DEF Later, Touching

LEMMA SavesFenced ==
  ASSUME NEW s, NEW p, NEW lo \in Nat, NEW hi \in Nat, lo <= hi, Saves(p, s, lo, hi), NEW b \in Fence
  PROVE  Saves(p \o <<b>>, s, lo, hi) /\ Saves(<<b>> \o p, s, lo, hi)
<1> DEFINE f == <<b>>
<1>1. \A l, h \in Nat : Saves(f, s, l, h)
  BY FenceAlone DEF Saves
<1> HIDE DEF f
<1>2. Saves(p \o f, s, lo, hi)
  <2>1. Saves(f, s, hi, hi) /\ lo <= hi /\ hi <= hi
    BY <1>1
  <2> QED
    BY <2>1, SaveMore
<1>3. Saves(f \o p, s, lo, hi)
  <2>1. Saves(f, s, lo, lo) /\ lo <= lo
    BY <1>1
  <2> QED
    BY <2>1, SaveMore
<1> QED
  BY <1>2, <1>3 DEF f

\* The names that the kernels of a program use.
LEMMA RunTouching ==
  ASSUME NEW r \in Rank, NEW ks, Named(ks)
  PROVE  /\ Touching(Run(ks), GraphBuffer \cup {"readback"}, GraphBuffer \cup {"readback"})
         /\ Later(Run(ks))
<1> DEFINE f == [n \in DOMAIN ks |-> K[ks[n]]]
           p == Run(ks)
           l == Len(ks)
           B == GraphBuffer \cup {"readback"}
<1>1. l \in Nat \ {0} /\ DOMAIN ks = 1 .. l /\ \A n \in 1 .. l : ks[n] \in KernelName
  BY DEF Named
<1>2. Kernels(p, GraphSizes(r))
  BY RunKernels DEF Named
<1>3. p = Chain(f, KernelDone)
  BY DEF Run
<1>4. f = [n \in 1 .. l |-> K[ks[n]]]
  BY <1>1
<1> HIDE DEF f, p, l, B
<1>5. Len(f) = l /\ \A n \in 1 .. l : f[n] = K[ks[n]]
  BY <1>1, <1>4
<1>6. \A n \in DOMAIN p :
        \/ \E m \in 1 .. Len(f) : p[n] = Dispatch(f[m])
        \/ p[n] = KernelDone
  <2>1. Len(f) \in Nat
    BY <1>1, <1>5
  <2> QED
    BY <1>3, <2>1, ChainIs
<1>7. ASSUME NEW k \in Commands(p)
      PROVE  /\ p[k].stage = "C" /\ \A x \in p[k].reads \cup p[k].writes : x[1] \in B
  <2>1. k \in DOMAIN p /\ p[k].stage # "barrier" /\ p[k].stage = "C"
    BY <1>2 DEF Commands, Kernels
  <2>2. KernelDone.stage = "barrier"
    BY BarrierIs DEF KernelDone
  <2>3. PICK m \in 1 .. l : p[k] = Dispatch(K[ks[m]])
    BY <1>5, <1>6, <2>1, <2>2
  <2>4. K[ks[m]].reads \cup K[ks[m]].writes \subseteq B
    BY <1>1, KernelsAre DEF Bound, B
  <2>5. \A b : Whole(b)[1] = b
    BY DEF Whole
  <2>6. /\ p[k].reads = {Whole(b) : b \in K[ks[m]].reads}
        /\ p[k].writes = {Whole(b) : b \in K[ks[m]].writes}
    BY <2>3 DEF Dispatch
  <2> QED
    BY <2>1, <2>4, <2>5, <2>6
<1>8. "trainingStaging" \notin B
  BY DEF B, GraphBuffer
<1>9. Touching(p, B, B)
  BY <1>7 DEF Touching
<1>10. Later(p)
  BY <1>7, <1>8 DEF Later
<1> QED
  BY <1>9, <1>10 DEF p, B

LEMMA BufferLoad ==
  ASSUME NEW r \in Rank, NEW from \in GraphBuffer, NEW to \in GraphBuffer,
         NEW p, p = <<Copy(Whole(from), Whole(to))>>
  PROVE  Loads(p, GraphSizes(r)) /\ PlainReads(p) /\ Touching(p, {from}, {to})
<1> DEFINE f == Whole(from)
           t == Whole(to)
<1>0. "readback" \in DOMAIN GraphSizes(r)
  BY GraphSizesAre
<1>1. /\ f \in Place /\ f[1] = from /\ from \notin DOMAIN GraphSizes(r) /\ f = Whole(f[1])
      /\ t \in Place /\ t[1] = to /\ to \notin DOMAIN GraphSizes(r) /\ t = Whole(t[1])
  BY <1>0, GraphPlaces
<1>2. p = <<Copy(f, t)>>
  OBVIOUS
<1> HIDE DEF f, t
<1>3. CopyAt(p, f, t)
  BY <1>1, <1>2, OneCopy, Zenon
<1>4. Touching(p, {f[1]}, {t[1]}) /\ Parallel(p)
  BY <1>1, <1>3, CopyTouching
<1>5. Fits(p, GraphSizes(r)) /\ Tame(p, GraphSizes(r)) /\ PlainReads(p)
  BY <1>1, <1>3 DEF Fits, Tame, PlainReads, CopyAt
<1> QED
  BY <1>1, <1>3, <1>4, <1>5 DEF Loads, CopyAt

\* A window of a batch on the device to the buffers the kernels read.
BatchCopies == <<Copy(Whole("batchTokens"), Whole("tokens")),
                 Copy(Whole("batchTargets"), Whole("targets")),
                 Copy(Whole("batchMasks"), Whole("mask"))>>

\* The copies of a window that is already on the device.
LEMMA BatchLoads ==
  ASSUME NEW r \in Rank
  PROVE  /\ Loads(BatchCopies, GraphSizes(r)) /\ PlainReads(BatchCopies) /\ Later(BatchCopies)
         /\ CopyDatasetWindow = BatchCopies \o <<UploadDone>>
<1> DEFINE s == GraphSizes(r)
           x == Copy(Whole("batchTokens"), Whole("tokens"))
           y == Copy(Whole("batchTargets"), Whole("targets"))
           z == Copy(Whole("batchMasks"), Whole("mask"))
           a == <<x>>
           b == <<y>>
           c == <<z>>
           R1 == {"batchTokens"}
           R2 == {"batchTargets"}
           R3 == {"batchMasks"}
           Q1 == {"tokens"}
           Q2 == {"targets"}
           Q3 == {"mask"}
           d == a \o b
           e == d \o c
<1>1. /\ "tokens" \in GraphBuffer /\ "targets" \in GraphBuffer /\ "mask" \in GraphBuffer
      /\ "batchTokens" \in GraphBuffer /\ "batchTargets" \in GraphBuffer /\ "batchMasks" \in GraphBuffer
  BY DEF GraphBuffer
<1>2. /\ Loads(a, s) /\ PlainReads(a) /\ Touching(a, R1, Q1)
      /\ Loads(b, s) /\ PlainReads(b) /\ Touching(b, R2, Q2)
      /\ Loads(c, s) /\ PlainReads(c) /\ Touching(c, R3, Q3)
  BY <1>1, BufferLoad
<1>3. BatchCopies = <<x, y, z>> /\ CopyDatasetWindow = <<x, y, z, UploadDone>>
  BY DEF BatchCopies, CopyDatasetWindow
<1> HIDE DEF x, y, z
<1>4. BatchCopies = e /\ CopyDatasetWindow = BatchCopies \o <<UploadDone>>
  <2> DEFINE S == {x, y, z, UploadDone}
  <2>1. x \in S /\ y \in S /\ z \in S /\ UploadDone \in S
    OBVIOUS
  <2> HIDE DEF S
  <2>2. <<x, y, z>> = (<<x>> \o <<y>>) \o <<z>>
    BY <2>1, TripleJoined, SMT
  <2>3. <<x, y, z, UploadDone>> = <<x, y, z>> \o <<UploadDone>>
    BY <2>1, FourEnd, SMT
  <2> QED
    BY <1>3, <2>2, <2>3, Zenon
<1>5. /\ Q1 \cap (R2 \cup Q2) = {} /\ R1 \cap Q2 = {}
      /\ (Q1 \cup Q2) \cap (R3 \cup Q3) = {} /\ (R1 \cup R2) \cap Q3 = {}
      /\ "trainingStaging" \notin (R1 \cup R2) \cup R3
      /\ "trainingStaging" \notin (Q1 \cup Q2) \cup Q3
      /\ "metrics" \notin (Q1 \cup Q2) \cup Q3
  OBVIOUS
<1> HIDE DEF a, b, c, s, R1, R2, R3, Q1, Q2, Q3
<1>6. Loads(d, s) /\ Touching(d, R1 \cup R2, Q1 \cup Q2)
  BY <1>2, <1>5, GraphLoads
<1>7. PlainReads(d)
  BY <1>2, PlainJoin DEF Loads
<1> HIDE DEF d
<1>8. Loads(e, s) /\ Touching(e, (R1 \cup R2) \cup R3, (Q1 \cup Q2) \cup Q3)
  BY <1>2, <1>5, <1>6, GraphLoads
<1>9. PlainReads(e)
  BY <1>2, <1>6, <1>7, PlainJoin DEF Loads
<1> HIDE DEF e
<1>10. Later(e)
  BY <1>5, <1>8 DEF Later, Touching
<1> QED
  BY <1>4, <1>8, <1>9, <1>10 DEF s

LEMMA ReopenedBehind ==
  ASSUME NEW p \in Seq(Item), NEW q \in Seq(Item), Reopened(q), \A k \in Commands(p) : p[k].stage = "T"
  PROVE  Reopened(p \o q)
<1> DEFINE r == p \o q
           L == Len(p)
<1>1. /\ r \in Seq(Item) /\ Len(r) = L + Len(q) /\ \A n \in 1 .. Len(q) : r[L + n] = q[n]
      /\ \A n \in Commands(r) : \/ n \in Commands(p) /\ r[n] = p[n]
                                \/ \E k \in Commands(q) : n = L + k /\ r[n] = q[k]
  BY Joined
<1>2. L \in Nat /\ Len(q) \in Nat /\ Commands(q) \subseteq 1 .. Len(q)
  BY CommandItems
<1> HIDE DEF r, L
<1>3. ASSUME NEW n \in Commands(r), r[n].stage = "C"
      PROVE  \E b \in 1 .. Len(r) : b < n /\ Uploads(r[b])
  <2>1. PICK k \in Commands(q) : n = L + k /\ r[n] = q[k]
    BY <1>1, <1>3
  <2>2. PICK b \in 1 .. Len(q) : b < k /\ Uploads(q[b])
    BY <1>3, <2>1 DEF Reopened
  <2>3. L + b \in 1 .. Len(r) /\ L + b < n /\ r[L + b] = q[b]
    BY <1>1, <1>2, <2>1, <2>2
  <2> QED
    BY <2>2, <2>3
<1> QED
  BY <1>3 DEF Reopened, r

LEMMA RegroupSame ==
  ASSUME NEW p \in Seq(Item), NEW q \in Seq(Item), NEW r \in Seq(Item)
  PROVE  Same((p \o q) \o r, p \o (q \o r)) /\ p \o q \in Seq(Item)
<1>1. (p \o q) \o r = p \o (q \o r)
  BY Regroup
<1>2. p \o q \in Seq(Item)
  BY Joined
<1> QED
  BY <1>1, <1>2 DEF Same

\* Two windows with a barrier before them, regrouped around the first's results.
LEMMA RegroupWindows ==
  ASSUME NEW m \in Seq(Item), NEW a \in Seq(Item), NEW b \in Seq(Item), NEW c \in Seq(Item),
         NEW d \in Seq(Item), NEW e \in Seq(Item), NEW f \in Seq(Item), NEW g \in Seq(Item)
  PROVE  Same((m \o (((((a \o b) \o c) \o d) \o e) \o f)) \o (((((a \o b) \o c) \o d) \o g) \o f),
              (((m \o a) \o b) \o c) \o (((d \o e) \o f) \o ((((a \o b) \o c) \o d) \o (g \o f))))
<1> DEFINE x1 == a \o b
           x2 == x1 \o c
           x3 == x2 \o d
           x4 == x3 \o e
           y0 == m \o a
           y1 == y0 \o b
           y2 == y1 \o c
           de == d \o e
           s0 == de \o f
           w1 == x3 \o (g \o f)
<1>1. x1 \in Seq(Item) /\ y0 \in Seq(Item) /\ de \in Seq(Item) /\ g \o f \in Seq(Item)
  BY RegroupSame, Zenon
<1>2. x2 \in Seq(Item) /\ y1 \in Seq(Item) /\ s0 \in Seq(Item)
  BY <1>1, RegroupSame, Zenon
<1>3. x3 \in Seq(Item) /\ y2 \in Seq(Item)
  BY <1>2, RegroupSame, Zenon
<1>4. x4 \in Seq(Item) /\ w1 \in Seq(Item)
  BY <1>1, <1>3, RegroupSame, Zenon
<1>5. Same(y0 \o b, m \o x1)
  BY RegroupSame, Zenon
<1>6. Same((m \o x1) \o c, m \o x2)
  BY <1>1, RegroupSame, Zenon
<1>7. Same((m \o x2) \o d, m \o x3)
  BY <1>2, RegroupSame, Zenon
<1>8. Same((m \o x3) \o e, m \o x4)
  BY <1>3, RegroupSame, Zenon
<1>9. Same((m \o x4) \o f, m \o (x4 \o f))
  BY <1>4, RegroupSame, Zenon
<1>10. Same((y2 \o d) \o e, y2 \o de)
  BY <1>3, RegroupSame, Zenon
<1>11. Same((y2 \o de) \o f, y2 \o s0)
  BY <1>1, <1>3, RegroupSame, Zenon
<1>12. Same((x3 \o g) \o f, w1)
  BY <1>3, RegroupSame, Zenon
<1>13. Same((y2 \o s0) \o w1, y2 \o (s0 \o w1))
  BY <1>2, <1>3, <1>4, RegroupSame, Zenon
<1>14. y1 = m \o x1
  BY <1>5, Zenon DEF Same
<1>15. y2 = m \o x2
  BY <1>6, <1>14, Zenon DEF Same
<1>16. y2 \o d = m \o x3
  BY <1>7, <1>15, Zenon DEF Same
<1>17. m \o x4 = (y2 \o d) \o e
  BY <1>8, <1>16, Zenon DEF Same
<1>18. m \o (x4 \o f) = y2 \o s0
  BY <1>9, <1>10, <1>11, <1>17, Zenon DEF Same
<1>19. (m \o (x4 \o f)) \o ((x3 \o g) \o f) = y2 \o (s0 \o w1)
  BY <1>12, <1>13, <1>18, Zenon DEF Same
<1> QED
  BY <1>19, Zenon DEF Same

\* The copies of the two results.
LEMMA MetricsSaved ==
  ASSUME NEW r \in Rank, NEW lo \in {0, 8}, NEW o \in Fence, NEW w \in Fence,
         NEW p, p = Save("metrics", lo, 8)
  PROVE  /\ p \in Seq(Item)
         /\ Saves((<<o>> \o p) \o <<w>>, GraphSizes(r), lo, lo + 8)
         /\ Saves(p \o <<w>>, GraphSizes(r), lo, lo + 8)
         /\ Touching((<<o>> \o p) \o <<w>>, {"metrics"}, {"trainingStaging"})
<1> DEFINE b == "metrics"
           hi == lo + 8
           s == GraphSizes(r)
           a == <<o>> \o p
           M == {"metrics"}
           T == {"trainingStaging"}
<1>1. lo \in Nat /\ hi \in Nat /\ lo <= hi /\ 8 \in Nat /\ lo + 8 <= StagingRoom
  BY SMT DEF StagingRoom, Floats, Tcap, Vp
<1>2. b \in GraphBuffer
  BY DEF GraphBuffer
<1>3. Saves(p, s, lo, hi)
  <2> HIDE DEF b
  <2>1. Saves(Save(b, lo, 8), GraphSizes(r), lo, lo + 8)
    BY <1>1, <1>2, SaveOne
  <2> QED
    BY <2>1 DEF b
<1>4. p = <<Copy(Whole(b), Staging(lo, 8))>>
  BY DEF Save
<1> HIDE DEF hi, s
<1>5. Saves(p \o <<w>>, s, lo, hi)
  BY <1>1, <1>3, SavesFenced
<1>6. Saves(a, s, lo, hi)
  BY <1>1, <1>3, SavesFenced
<1> HIDE DEF a
<1>7. Saves(a \o <<w>>, s, lo, hi)
  BY <1>1, <1>6, SavesFenced
<1>8. Touching(p, M, T)
  <2>1. \A k \in Commands(p) : p[k].reads = {Whole(b)} /\ \A q \in p[k].writes : q[1] = "trainingStaging"
    <3>1. \A k \in Commands(p) : k \in DOMAIN p
      BY DEF Commands
    <3>2. \A k \in DOMAIN p : p[k] = Copy(Whole(b), Staging(lo, 8))
      BY <1>4
    <3> QED
      BY <1>3, <3>1, <3>2 DEF Saves, Copy
  <2> QED
    BY <2>1 DEF Touching, Whole
<1>9. p \in Seq(Item)
  BY <1>3 DEF Saves, Stores
<1> HIDE DEF M, T, b
<1>10. Touching(a, M, T)
  <2>1. Touching(a, {} \cup M, {} \cup T)
    BY <1>8, <1>9, FenceAlone, FencesLater, TouchingJoin DEF a
  <2> QED
    BY <2>1
<1>11. Touching(a \o <<w>>, M, T)
  <2>1. a \in Seq(Item)
    BY <1>6 DEF Saves, Stores
  <2>2. Touching(a \o <<w>>, M \cup {}, T \cup {})
    BY <1>10, <2>1, FenceAlone, FencesLater, TouchingJoin
  <2> QED
    BY <2>2
<1> QED
  BY <1>5, <1>7, <1>9, <1>11 DEF hi, s, a, M, T

\* One window, after the window before it has been settled.
LEMMA WindowRuns ==
  ASSUME NEW r \in Rank, NEW ks, Named(ks)
  PROVE  LET v == CopyDatasetWindow \o Run(ks)
         IN  /\ Started(v, GraphSizes(r)) /\ Drained(v) /\ PlainReads(v) /\ Reopened(v) /\ Later(v)
             /\ CopyDatasetWindow \in Seq(Item) /\ Run(ks) \in Seq(Item)
<1> DEFINE s == GraphSizes(r)
           k == Run(ks)
           u == <<UploadDone>>
           v == CopyDatasetWindow \o k
<1>1. /\ Loads(BatchCopies, s) /\ PlainReads(BatchCopies) /\ Later(BatchCopies)
      /\ CopyDatasetWindow = BatchCopies \o u
  BY BatchLoads
<1>2. Started(CopyDatasetWindow, s) /\ Closed(CopyDatasetWindow)
  BY <1>1, UploadDoneCloses
<1>3. Started(v, s) /\ Drained(v)
  BY <1>2, RunEnds
<1>4. Kernels(k, s)
  BY RunKernels DEF Named
<1>5. k \in Seq(Item) /\ PlainReads(k)
  BY <1>4 DEF Kernels, Started
<1>6. Later(k)
  BY RunTouching
<1>7. u \in Seq(Item) /\ PlainReads(u) /\ Later(u)
  BY FenceAlone, UsualFences, FencesLater
<1>8. BatchCopies \in Seq(Item) /\ \A n \in Commands(BatchCopies) : BatchCopies[n].stage = "T"
  BY <1>1 DEF Loads
<1>9. CopyDatasetWindow \in Seq(Item)
  BY <1>2 DEF Started
<1> HIDE DEF k
<1>10. Reopened(v)
  BY <1>1, <1>5, <1>8, AfterUpload
<1> HIDE DEF u
<1>11. PlainReads(CopyDatasetWindow) /\ Later(CopyDatasetWindow)
  BY <1>1, <1>7, <1>8, PlainJoin, LaterJoin
<1>12. PlainReads(v) /\ Later(v)
  BY <1>5, <1>6, <1>9, <1>11, PlainJoin, LaterJoin
<1> QED
  BY <1>3, <1>5, <1>9, <1>10, <1>12 DEF k

\* The second window: reopened by its upload, its results behind the first's.
LEMMA SecondWindow ==
  ASSUME NEW s, NEW v, Started(v, s), Drained(v), PlainReads(v), Reopened(v), Later(v),
         NEW o \in Fence, NEW q, Saves(q, s, 8, 16)
  PROVE  LET w == ((v \o <<ResultDone>>) \o <<o>>) \o q
         IN  Good(w, s) /\ PlainReads(w) /\ Reopened(w) /\ Later(w) /\ w \in Seq(Item)
<1> DEFINE a == v \o <<ResultDone>>
           b == a \o <<o>>
           w == b \o q
<1>1. Stores(q, s) /\ q \in Seq(Item) /\ PlainReads(q) /\ \A k \in Commands(q) : q[k].stage = "T"
  BY DEF Saves, Stores
<1>2. Good(w, s)
  BY <1>1, SavedBehind
<1>3. Later(q)
  <2>1. \A x \in GraphBuffer : x # "trainingStaging"
    BY GraphBufferIs, GraphSizesAre DEF GraphBuffer
  <2>2. \A k \in Commands(q) : /\ \A x \in q[k].reads : x[1] \in GraphBuffer
                               /\ \A x \in q[k].writes : x[1] = "trainingStaging" /\ 8 <= x[2]
    BY DEF Saves
  <2> QED
    BY <2>1, <2>2 DEF Later
<1>4. v \in Seq(Item)
  BY DEF Started
<1>5. \A f \in Fence : <<f>> \in Seq(Item) /\ PlainReads(<<f>>) /\ Later(<<f>>)
                       /\ \A k \in Commands(<<f>>) : <<f>>[k].stage = "T"
  BY FenceAlone, FencesLater
<1>6. a \in Seq(Item) /\ PlainReads(a) /\ Later(a) /\ Reopened(a)
  BY <1>4, <1>5, UsualFences, PlainJoin, LaterJoin, ReopenedStays, Joined
<1> HIDE DEF a
<1>7. b \in Seq(Item) /\ PlainReads(b) /\ Later(b) /\ Reopened(b)
  BY <1>5, <1>6, PlainJoin, LaterJoin, ReopenedStays, Joined
<1> HIDE DEF b
<1>8. w \in Seq(Item) /\ PlainReads(w) /\ Later(w) /\ Reopened(w)
  BY <1>1, <1>3, <1>7, PlainJoin, LaterJoin, ReopenedStays, Joined
<1> QED
  BY <1>2, <1>8 DEF a, b

\* evaluate_dataset_batch: the metrics of its windows lie next to each other, and
\* each window's copies wait for the kernels of the window before.
LEMMA EvaluateGood ==
  ASSUME NEW r \in Rank
  PROVE  Good(evaluate_dataset_batch, GraphSizes(r))
<1> DEFINE s == GraphSizes(r)
           ks == <<"forward", "loss", "metrics">>
           k == Run(ks)
           m == StagingBarrier(Transfers, {"TR"})
           o == StagingBarrier(Transfers, {"TW"})
           w == StagingBarrier({"TW"}, Transfers)
           c0 == Save("metrics", 8 * 0, 8)
           c1 == Save("metrics", 8 * 1, 8)
           rd == <<ResultDone>>
           C == CopyDatasetWindow
           v == C \o k
           x == ((m \o C) \o k) \o rd
           t0 == (o \o c0) \o w
           t1 == ((v \o rd) \o o) \o (c1 \o w)
<1>1. PICK f \in Fence : m = <<f>>
  BY StagingFence DEF Transfers, AnyAccess
<1>2. PICK g \in Fence : w = <<g>>
  BY StagingFence DEF Transfers, AnyAccess
<1>3. PICK h \in Fence : o = <<h>>
  BY StagingFence DEF Transfers, AnyAccess
<1>4. Named(ks)
  <2>1. "forward" \in KernelName /\ "loss" \in KernelName /\ "metrics" \in KernelName
    BY DEF KernelName
  <2> QED
    BY <2>1, ThreeNamed
<1>5. evaluate_dataset_batch
        = (m \o (((((C \o k) \o rd) \o o) \o c0) \o w)) \o (((((C \o k) \o rd) \o o) \o c1) \o w)
  BY DEF evaluate_dataset_batch, Save
<1>6. /\ Saves(t0, s, 0, 8) /\ Touching(t0, {"metrics"}, {"trainingStaging"})
      /\ Saves(c1 \o w, s, 8, 16)
      /\ c0 \in Seq(Item) /\ c1 \in Seq(Item)
  <2> DEFINE z == 8 * 0
             e == 8 * 1
  <2>1. z = 0 /\ e = 8 /\ 0 + 8 = 8 /\ 8 + 8 = 16
    OBVIOUS
  <2>2. c0 = Save("metrics", 0, 8) /\ c1 = Save("metrics", 8, 8)
    BY <2>1
  <2>3. Saves(t0, s, 0, 8) /\ Touching(t0, {"metrics"}, {"trainingStaging"})
    BY <1>2, <1>3, <2>1, <2>2, MetricsSaved
  <2>4. Saves(c1 \o w, s, 8, 16)
    BY <1>2, <1>3, <2>1, <2>2, MetricsSaved
  <2>6. c0 \in Seq(Item) /\ c1 \in Seq(Item)
    BY <1>2, <1>3, <2>1, <2>2, MetricsSaved
  <2> QED
    BY <2>3, <2>4, <2>6
<1> HIDE DEF m, o, w, c0, c1, ks
<1>7. /\ Started(v, s) /\ Drained(v) /\ PlainReads(v) /\ Reopened(v) /\ Later(v)
      /\ C \in Seq(Item) /\ k \in Seq(Item)
  BY <1>4, WindowRuns
<1>8. Good(t1, s) /\ PlainReads(t1) /\ Reopened(t1) /\ Later(t1) /\ t1 \in Seq(Item)
  <2> DEFINE q == c1 \o w
  <2> HIDE DEF q, v
  <2>1. Saves(q, s, 8, 16)
    BY <1>6 DEF q
  <2>2. LET u == ((v \o <<ResultDone>>) \o <<h>>) \o q
        IN  Good(u, s) /\ PlainReads(u) /\ Reopened(u) /\ Later(u) /\ u \in Seq(Item)
    BY <1>7, <2>1, SecondWindow
  <2> QED
    BY <1>3, <2>2 DEF q
<1>9. Started(x, s) /\ Settled(x)
  <2> DEFINE p == m \o BatchCopies
             u == <<UploadDone>>
             y == (p \o u) \o k
  <2>1. Loads(BatchCopies, s) /\ C = BatchCopies \o u
    BY BatchLoads
  <2>2. Loads(p, s)
    BY <1>1, <2>1, LoadsFenced
  <2>3. m \in Seq(Item) /\ BatchCopies \in Seq(Item) /\ u \in Seq(Item)
    BY <1>1, <2>1, FenceAlone, UsualFences DEF Loads
  <2>4. Same((m \o BatchCopies) \o u, m \o (BatchCopies \o u))
    BY <2>3, RegroupSame, Zenon
  <2>5. p \o u = m \o C
    BY <2>1, <2>4, Zenon DEF Same
  <2> HIDE DEF p
  <2>6. Started(p \o u, s) /\ Closed(p \o u)
    BY <2>2, UploadDoneCloses
  <2>7. Started(y, s) /\ ClosedCopies(y)
    BY <1>4, <2>6, NextRun DEF Named
  <2> HIDE DEF y
  <2>8. Started(y \o rd, s) /\ Settled(y \o rd)
    BY <2>7, ResultSettles
  <2> QED
    BY <2>5, <2>8 DEF y
<1>10. t0 \in Seq(Item) /\ PlainReads(t0) /\ \A n \in Commands(t0) : t0[n].stage = "T"
  BY <1>6 DEF Saves, Stores
<1>11. m \in Seq(Item) /\ o \in Seq(Item) /\ w \in Seq(Item) /\ rd \in Seq(Item)
  BY <1>1, <1>2, <1>3, FenceAlone, UsualFences
<1>12. Same((m \o (((((C \o k) \o rd) \o o) \o c0) \o w)) \o (((((C \o k) \o rd) \o o) \o c1) \o w),
            x \o (t0 \o t1))
  BY <1>6, <1>7, <1>11, RegroupWindows, Zenon
<1> HIDE DEF x, t0, t1
<1>13. Good(t0 \o t1, s) /\ PlainReads(t0 \o t1) /\ Reopened(t0 \o t1)
  BY <1>6, <1>8, <1>10, StoreThen, PlainJoin, ReopenedBehind
<1>14. Good(x \o (t0 \o t1), s)
  BY <1>9, <1>13, JoinSettled
<1> QED
  BY <1>5, <1>12, <1>14, Zenon DEF Same

\* A table of programs.
TableGood(f, s) == \A o \in DOMAIN f : o \in KnownRaces \/ Good(f[o], s)

\* The tables of NativePrograms, entry by entry: each operation is good or one of
\* KnownRaces.
LEMMA TrainingTableGood ==
  ASSUME NEW r \in Rank
  PROVE  TableGood(Training(r), GraphSizes(r))
<1> DEFINE f == Training(r)
           s == GraphSizes(r)
<1>1. DOMAIN f = {"train_lm_head_sgd", "train_output_sgd", "train_qkv_sgd",
                  "train_embeddings_sgd", "train_positions_sgd", "train_lm_head_adamw",
                  "train_output_adamw", "train_positions_adamw",
                  "train_qkv_adamw_from_gradients", "run_ffn_adamw_all",
                  "run_ffn_w1_adamw", "run_rmsnorm_gamma_adamw_staged",
                  "begin_lora_accumulation", "finalize_lora_adamw", "finalize_lora_sgd",
                  "train_dataset_batch", "token_step_training", "lora_backward",
                  "lora_backward_more"}
  BY DEF Training
<1>2. /\ f["train_lm_head_sgd"] = train_lm_head_sgd
      /\ f["train_output_sgd"] = train_output_sgd
      /\ f["train_qkv_sgd"] = train_qkv_sgd
      /\ f["train_embeddings_sgd"] = train_embeddings_sgd
      /\ f["train_positions_sgd"] = train_positions_sgd
      /\ f["train_lm_head_adamw"] = train_lm_head_adamw
      /\ f["train_output_adamw"] = train_output_adamw
      /\ f["train_positions_adamw"] = train_positions_adamw
      /\ f["train_qkv_adamw_from_gradients"] = train_qkv_adamw_from_gradients
      /\ f["run_ffn_adamw_all"] = run_ffn_adamw_all
      /\ f["run_ffn_w1_adamw"] = run_ffn_w1_adamw
      /\ f["run_rmsnorm_gamma_adamw_staged"] = run_rmsnorm_gamma_adamw_staged
      /\ f["begin_lora_accumulation"] = begin_lora_accumulation
      /\ f["finalize_lora_adamw"] = finalize_lora_adamw
      /\ f["finalize_lora_sgd"] = finalize_lora_sgd
      /\ f["token_step_training"] = token_step_training
  BY DEF Training
<1> HIDE DEF f
<1>3. /\ Good(f["train_lm_head_sgd"], s)
      /\ Good(f["train_output_sgd"], s)
      /\ Good(f["train_qkv_sgd"], s)
      /\ Good(f["train_embeddings_sgd"], s)
      /\ Good(f["train_positions_sgd"], s)
      /\ Good(f["train_lm_head_adamw"], s)
      /\ Good(f["train_output_adamw"], s)
      /\ Good(f["train_positions_adamw"], s)
      /\ Good(f["train_qkv_adamw_from_gradients"], s)
      /\ Good(f["run_ffn_adamw_all"], s)
      /\ Good(f["run_ffn_w1_adamw"], s)
      /\ Good(f["run_rmsnorm_gamma_adamw_staged"], s)
      /\ Good(f["begin_lora_accumulation"], s)
      /\ Good(f["finalize_lora_adamw"], s)
      /\ Good(f["finalize_lora_sgd"], s)
      /\ Good(f["token_step_training"], s)
  BY <1>2, WindowOperationsGood, SingleKernelsGood,
     PositionsSgdGood, PositionsAdamwGood, FfnAdamwAllGood, TokenStepGood
<1>4. {"train_dataset_batch", "lora_backward", "lora_backward_more"} \subseteq KnownRaces
  BY DEF KnownRaces
<1> QED
  BY <1>1, <1>3, <1>4 DEF TableGood, f, s

LEMMA InferenceTableGood ==
  ASSUME NEW r \in Rank
  PROVE  TableGood(Inference, GraphSizes(r))
<1> DEFINE f == Inference
           s == GraphSizes(r)
<1>1. DOMAIN f = {"evaluate_dataset_batch", "forward_fixed_retained",
                  "forward_loss_fixed_retained", "forward_loss_fixed_metrics", "forward",
                  "readback_projected", "train_ffn_forward_loss",
                  "readback_graph_dstate", "run_rmsnorm_forward_staged",
                  "run_rmsnorm_state_only_staged", "run_rmsnorm_backward_staged",
                  "run_rmsnorm_dgamma_staged", "run_rmsnorm_gamma_gradient",
                  "run_ffn_forward", "run_ffn_backward", "run_ffn_parameter_gradients"}
  BY DEF Inference
<1>2. /\ f["evaluate_dataset_batch"] = evaluate_dataset_batch
      /\ f["forward_fixed_retained"] = forward_fixed_retained
      /\ f["forward_loss_fixed_retained"] = forward_loss_fixed_retained
      /\ f["forward"] = forward
      /\ f["readback_projected"] = readback_projected
      /\ f["train_ffn_forward_loss"] = train_ffn_forward_loss
      /\ f["run_rmsnorm_forward_staged"] = run_rmsnorm_forward_staged
      /\ f["run_rmsnorm_state_only_staged"] = run_rmsnorm_state_only_staged
      /\ f["run_rmsnorm_backward_staged"] = run_rmsnorm_backward_staged
      /\ f["run_rmsnorm_dgamma_staged"] = run_rmsnorm_dgamma_staged
      /\ f["run_rmsnorm_gamma_gradient"] = run_rmsnorm_gamma_gradient
      /\ f["run_ffn_forward"] = run_ffn_forward
      /\ f["run_ffn_backward"] = run_ffn_backward
      /\ f["run_ffn_parameter_gradients"] = run_ffn_parameter_gradients
  BY DEF Inference
<1> HIDE DEF f
<1>3. /\ Good(f["evaluate_dataset_batch"], s)
      /\ Good(f["forward_fixed_retained"], s)
      /\ Good(f["forward_loss_fixed_retained"], s)
      /\ Good(f["forward"], s)
      /\ Good(f["readback_projected"], s)
      /\ Good(f["train_ffn_forward_loss"], s)
      /\ Good(f["run_rmsnorm_forward_staged"], s)
      /\ Good(f["run_rmsnorm_state_only_staged"], s)
      /\ Good(f["run_rmsnorm_backward_staged"], s)
      /\ Good(f["run_rmsnorm_dgamma_staged"], s)
      /\ Good(f["run_rmsnorm_gamma_gradient"], s)
      /\ Good(f["run_ffn_forward"], s)
      /\ Good(f["run_ffn_backward"], s)
      /\ Good(f["run_ffn_parameter_gradients"], s)
  BY <1>2, EvaluateGood, FixedForwardGood, FixedLossGood, ForwardGood, ReadOutsGood, WindowOperationsGood, SingleKernelsGood
<1>4. {"forward_loss_fixed_metrics", "readback_graph_dstate"} \subseteq KnownRaces
  BY DEF KnownRaces
<1> QED
  BY <1>1, <1>3, <1>4 DEF TableGood, f, s

LEMMA StateTableGood ==
  ASSUME NEW r \in Rank
  PROVE  TableGood(State(r), GraphSizes(r))
<1> DEFINE f == State(r)
           s == GraphSizes(r)
<1>1. DOMAIN f = {"readback_base_train_output", "readback_base_train_qkv",
                  "readback_base_train_embeddings", "readback_positions", "upload",
                  "readback_base_train_lm_head", "readback_base_train_qkv_gradients",
                  "output_adamw_moments", "qkv_adamw_moments", "positions_adamw_moments",
                  "lm_head_adamw_moments", "readback_gamma_state", "readback_ffn_state",
                  "readback_lora_adamw_state", "update_lora_adamw_state",
                  "update_qkv_adamw_moments", "readback_lora_adapters",
                  "update_lora_adapters", "readback_rmsnorm_state",
                  "readback_ffn_gradients", "readback_rmsnorm_states",
                  "readback_rmsnorm_dx", "readback_rmsnorm_dgamma", "readback_ffn_dx",
                  "readback_ffn_output", "readback_position_gradient",
                  "readback_combined_gradients"}
  BY DEF State
<1>2. /\ f["readback_base_train_output"] = readback_base_train_output
      /\ f["readback_base_train_qkv"] = readback_base_train_qkv("query")
      /\ f["readback_base_train_embeddings"] = readback_base_train_embeddings
      /\ f["readback_positions"] = readback_positions
      /\ f["upload"] = upload("loraA", lora_bytes(r))
      /\ f["readback_base_train_lm_head"] = readback_base_train_lm_head
      /\ f["readback_base_train_qkv_gradients"] = readback_base_train_qkv_gradients("qkvGradientQ")
      /\ f["output_adamw_moments"] = output_adamw_moments(r)
      /\ f["qkv_adamw_moments"] = qkv_adamw_moments
      /\ f["positions_adamw_moments"] = positions_adamw_moments(r)
      /\ f["lm_head_adamw_moments"] = lm_head_adamw_moments(r)
      /\ f["readback_gamma_state"] = readback_gamma_state(r)
      /\ f["readback_ffn_state"] = readback_ffn_state
      /\ f["readback_lora_adamw_state"] = readback_lora_adamw_state(r)
      /\ f["update_lora_adamw_state"] = update_lora_adamw_state(r)
      /\ f["update_qkv_adamw_moments"] = update_qkv_adamw_moments
      /\ f["readback_lora_adapters"] = readback_lora_adapters(r)
      /\ f["update_lora_adapters"] = update_lora_adapters(r)
      /\ f["readback_rmsnorm_state"] = readback_rmsnorm_state_staged(r)
      /\ f["readback_ffn_gradients"] = readback_ffn_gradients_staged(r)
      /\ f["readback_rmsnorm_states"] = readback_rmsnorm_states_staged(r)
      /\ f["readback_rmsnorm_dx"] = readback_rmsnorm_dx_staged(r)
      /\ f["readback_rmsnorm_dgamma"] = readback_rmsnorm_dgamma_staged(r)
      /\ f["readback_ffn_dx"] = readback_ffn_dx_staged(r)
      /\ f["readback_ffn_output"] = readback_ffn_output_staged(r)
      /\ f["readback_position_gradient"] = readback_position_gradient(r)
      /\ f["readback_combined_gradients"] = readback_combined_gradients(r)
  BY DEF State
<1>a. Good(upload("loraA", lora_bytes(r)), GraphSizes(r))
  <2> DEFINE b == "loraA"
             n == lora_bytes(r)
  <2>1. b \in GraphBuffer
    BY DEF GraphBuffer
  <2>2. n \in Nat /\ n <= GraphSizes(r)["hostStaging"]
    BY GraphSizesAre
  <2> HIDE DEF b, n
  <2>3. Good(upload(b, n), GraphSizes(r))
    BY <2>1, <2>2, UploadGood
  <2> QED
    BY <2>3 DEF b, n
<1> HIDE DEF f
<1>3. /\ Good(f["readback_base_train_output"], s)
      /\ Good(f["readback_base_train_qkv"], s)
      /\ Good(f["readback_base_train_embeddings"], s)
      /\ Good(f["readback_positions"], s)
      /\ Good(f["upload"], s)
      /\ Good(f["readback_base_train_lm_head"], s)
      /\ Good(f["readback_base_train_qkv_gradients"], s)
      /\ Good(f["output_adamw_moments"], s)
      /\ Good(f["qkv_adamw_moments"], s)
      /\ Good(f["positions_adamw_moments"], s)
      /\ Good(f["lm_head_adamw_moments"], s)
      /\ Good(f["readback_gamma_state"], s)
      /\ Good(f["readback_ffn_state"], s)
      /\ Good(f["readback_lora_adamw_state"], s)
      /\ Good(f["update_lora_adamw_state"], s)
      /\ Good(f["update_qkv_adamw_moments"], s)
      /\ Good(f["readback_lora_adapters"], s)
      /\ Good(f["update_lora_adapters"], s)
      /\ Good(f["readback_rmsnorm_state"], s)
      /\ Good(f["readback_ffn_gradients"], s)
      /\ Good(f["readback_rmsnorm_states"], s)
      /\ Good(f["readback_rmsnorm_dx"], s)
      /\ Good(f["readback_rmsnorm_dgamma"], s)
      /\ Good(f["readback_ffn_dx"], s)
      /\ Good(f["readback_ffn_output"], s)
      /\ Good(f["readback_position_gradient"], s)
      /\ Good(f["readback_combined_gradients"], s)
  BY <1>2, <1>a, ReadOutsGood, TwoBuffersGood, StagedBuffersGood,
     GammaStateGood, FfnStateGood, LoraStateGood, UpdateMomentsGood, AdaptersGood, GradientReadsGood
<1> QED
  BY <1>1, <1>3 DEF TableGood, f, s

\* The calls around the graph that the table lists.
LEMMA OneShotsGood ==
  ASSUME NEW r \in Rank
  PROVE  \A o \in DOMAIN OneShots(r) : ApiGood(OneShots(r)[o])
<1> DEFINE f == OneShots(r)
<1>1. DOMAIN f = {"attention", "attention_causal", "attention_backward",
                  "lm_head_backward", "projection_backward", "causal_loss",
                  "causal_loss_small", "sgemm", "vector_add", "lora_delta",
                  "lora_gradients", "lora_sgd", "lora_gradients_multi", "lora_sgd_multi",
                  "immutable_prototype"}
  BY DEF OneShots
<1>2. /\ f["attention"] = spaceslug_attention
      /\ f["attention_causal"] = spaceslug_attention_causal
      /\ f["attention_backward"] = spaceslug_attention_causal_backward(128)
      /\ f["lm_head_backward"] = spaceslug_lm_head_backward(128, 320, 64)
      /\ f["projection_backward"] = spaceslug_projection_backward(128, 64, 64)
      /\ f["causal_loss"] = spaceslug_causal_loss(128, 320)
      /\ f["causal_loss_small"] = spaceslug_causal_loss(1, 1)
      /\ f["sgemm"] = spaceslug_sgemm(128, 64, 32)
      /\ f["vector_add"] = spaceslug_vector_add
      /\ f["lora_delta"] = spaceslug_lora_delta(128, r)
      /\ f["lora_gradients"] = spaceslug_lora_gradients(128, r)
      /\ f["lora_sgd"] = spaceslug_lora_sgd(r)
      /\ f["lora_gradients_multi"] = spaceslug_lora_gradients_multi(128, r)
      /\ f["lora_sgd_multi"] = spaceslug_lora_sgd_multi(r)
      /\ f["immutable_prototype"] = ImmutableCommandPrototype
  BY DEF OneShots
<1> HIDE DEF f
<1>3. r \in Nat
  BY DEF Rank
<1>4. /\ ApiGood(f["attention"])
      /\ ApiGood(f["attention_causal"])
      /\ ApiGood(f["attention_backward"])
  BY <1>2, AttentionGood
<1>5. /\ ApiGood(f["lm_head_backward"])
      /\ ApiGood(f["projection_backward"])
      /\ ApiGood(f["sgemm"])
      /\ ApiGood(f["vector_add"])
  BY <1>2, MatrixCallsGood
<1>6. /\ ApiGood(f["causal_loss"])
      /\ ApiGood(f["causal_loss_small"])
  BY <1>2, LossGood
<1>7. /\ ApiGood(f["lora_delta"])
      /\ ApiGood(f["lora_gradients"])
      /\ ApiGood(f["lora_gradients_multi"])
  BY <1>2, <1>3, LoraCallsGood
<1>8. /\ ApiGood(f["lora_sgd"])
      /\ ApiGood(f["lora_sgd_multi"])
  BY <1>2, <1>3, UpdatesGood
<1>9. ApiGood(f["immutable_prototype"])
  BY <1>2, PrototypeGood
<1> QED
  BY <1>1, <1>4, <1>5, <1>6, <1>7, <1>8, <1>9 DEF f

LEMMA SessionsGood ==
  ASSUME NEW r \in Rank
  PROVE  \A o \in DOMAIN Sessions(r) :
           IF o \in KnownOverruns THEN OverrunCall(Sessions(r)[o]) ELSE ApiGood(Sessions(r)[o])
<1> DEFINE f == Sessions(r)
<1>1. DOMAIN f = {"session_create", "session_step", "session_step_delta",
                  "session_step_small_delta", "session_readback", "batch_upload", "batch_readback", "batch_process",
                  "lm_head_step", "lm_head_adamw", "lm_head_update", "lm_head_moments",
                  "lm_head_state", "outproj_adamw", "outproj_moments", "outproj_state",
                  "embedding_step", "outproj_update", "embedding_update",
                  "embedding_read", "qkv_step"}
  BY DEF Sessions
<1>2. /\ f["session_create"] = spaceslug_lora_session_create(128, r)
      /\ f["session_step"] = spaceslug_lora_session_step(128, r, FALSE)
      /\ f["session_step_delta"] = spaceslug_lora_session_step(128, r, TRUE)
      /\ f["session_step_small_delta"] = spaceslug_lora_session_step(4 * r, r, TRUE)
      /\ f["session_readback"] = spaceslug_lora_session_readback(128, r)
      /\ f["batch_upload"] = BatchBuffer_upload(32, 128)
      /\ f["batch_readback"] = BatchBuffer_process_readback(32, 128)
      /\ f["batch_process"] = BatchBuffer_process(2, 1)
      /\ f["lm_head_step"] = tiny_base_step(64, 320, 128, {})
      /\ f["lm_head_adamw"] = tiny_base_step(64, 320, 128, {"m", "v"})
      /\ f["lm_head_update"] = tiny_base_update(64, 320, 128)
      /\ f["lm_head_moments"] = tiny_base_moments(64, 320, 128)
      /\ f["lm_head_state"] = tiny_base_update_adamw_state(64, 320, 128)
      /\ f["outproj_adamw"] = outproj_step(64, 128, {"m", "v"})
      /\ f["outproj_moments"] = outproj_moments(64, 128)
      /\ f["outproj_state"] = outproj_update_state(64, 128)
      /\ f["embedding_step"] = embedding_step(259, 64)
      /\ f["outproj_update"] = outproj_update(64, 128)
      /\ f["embedding_update"] = embedding_update(259, 64)
      /\ f["embedding_read"] = embedding_read(259, 64)
      /\ f["qkv_step"] = qkv_step(64, 128)
  BY DEF Sessions
<1> HIDE DEF f
<1>3. r \in Nat /\ 4 * r \in Nat
  BY DEF Rank
<1>a. /\ ApiGood(spaceslug_lora_session_create(128, r))
      /\ ApiGood(spaceslug_lora_session_step(128, r, FALSE))
      /\ ApiGood(spaceslug_lora_session_step(4 * r, r, TRUE))
      /\ ApiGood(spaceslug_lora_session_readback(128, r))
  <2> DEFINE m == 4 * r
  <2>1. m \in Nat /\ m <= 4 * r
    BY <1>3
  <2> HIDE DEF m
  <2>2. ApiGood(spaceslug_lora_session_step(m, r, TRUE))
    BY <1>3, <2>1, SessionCallsGood
  <2>3. /\ ApiGood(spaceslug_lora_session_create(128, r))
        /\ ApiGood(spaceslug_lora_session_step(128, r, FALSE))
        /\ ApiGood(spaceslug_lora_session_readback(128, r))
    BY <1>3, SessionCallsGood
  <2> QED
    BY <2>2, <2>3 DEF m
<1>4. /\ ApiGood(f["session_create"])
      /\ ApiGood(f["session_step"])
      /\ ApiGood(f["session_step_small_delta"])
      /\ ApiGood(f["session_readback"])
  BY <1>2, <1>a, ZenonT(60)
<1>5. /\ ApiGood(f["batch_upload"])
      /\ ApiGood(f["batch_readback"])
      /\ ApiGood(f["batch_process"])
  BY <1>2, BatchCallsGood
<1>6. /\ ApiGood(f["lm_head_step"])
      /\ ApiGood(f["lm_head_adamw"])
      /\ ApiGood(f["lm_head_update"])
      /\ ApiGood(f["lm_head_moments"])
      /\ ApiGood(f["lm_head_state"])
      /\ ApiGood(f["outproj_adamw"])
      /\ ApiGood(f["outproj_moments"])
      /\ ApiGood(f["outproj_state"])
      /\ ApiGood(f["outproj_update"])
  BY <1>2, TrainersGood
<1>7. /\ ApiGood(f["embedding_step"])
      /\ ApiGood(f["embedding_update"])
      /\ ApiGood(f["embedding_read"])
  BY <1>2, EmbeddingGood
<1>8. ApiGood(f["qkv_step"])
  BY <1>2, QkvGood
<1>9. OverrunCall(f["session_step_delta"])
  <2>1. 128 \in Row /\ 128 > 4 * r
    BY DEF Row, Rank
  <2> QED
    BY <1>2, <2>1 DEF OverrunCall
<1>10. /\ "session_step_delta" \in KnownOverruns
       /\ \A o \in DOMAIN f \ {"session_step_delta"} : o \notin KnownOverruns
  BY DEF KnownOverruns
<1> HIDE DEF f
<1>11. \A o \in DOMAIN f \ {"session_step_delta"} : ApiGood(f[o])
  BY <1>1, <1>4, <1>5, <1>6, <1>7, <1>8
<1> QED
  BY <1>9, <1>10, <1>11 DEF f

\* What the argument checks of the native calls around the graph let through.
LegalApi(c) == OneShotCall(c) \/ SessionCall(c) \/ TrainerCall(c)

\* What a client of the native API may submit: an operation of the graph whose
\* barriers order it, with any rank, or a legal call around it, ...
NativeSubmission(s) ==
  \/ s \in OrderedCalls
  \/ \E c : LegalApi(c) /\ s[2] = ApiCall(c)

\* ... of which those that leave their staging buffer are the steps of a session
\* that return the delta of more than 4 * r rows.
Overruns(s) == \E c : OverrunCall(c) /\ s[2] = ApiCall(c)

LEMMA EveryMerged ==
  ASSUME NEW f, NEW g
  PROVE  \A o \in DOMAIN (f ++ g) :
           \/ o \in DOMAIN f /\ (f ++ g)[o] = f[o]
           \/ o \in DOMAIN g /\ (f ++ g)[o] = g[o]
<1> DEFINE h == f ++ g
<1>1. /\ DOMAIN h = DOMAIN f \cup DOMAIN g
      /\ \A x \in DOMAIN f : h[x] = f[x]
      /\ \A x \in DOMAIN g : x \notin DOMAIN f => h[x] = g[x]
  BY Merged
<1> HIDE DEF h
<1>2. \A o \in DOMAIN h : \/ o \in DOMAIN f /\ h[o] = f[o]
                          \/ o \in DOMAIN g /\ h[o] = g[o]
  BY <1>1
<1> QED
  BY <1>2 DEF h

LEMMA TablesMerged ==
  ASSUME NEW f, NEW g, NEW s, TableGood(f, s), TableGood(g, s)
  PROVE  TableGood(f ++ g, s)
BY EveryMerged DEF TableGood

\* Every operation of the graph with every rank, except for KnownRaces, ...
LEMMA GraphCallsGood ==
  ASSUME NEW r \in Rank, NEW o \in DOMAIN (Training(r) ++ Inference ++ State(r)), o \notin KnownRaces
  PROVE  Good((Training(r) ++ Inference ++ State(r))[o], GraphSizes(r))
<1> DEFINE s == GraphSizes(r)
           f == Training(r)
           g == State(r)
           h == f ++ Inference
<1>1. TableGood(f, s) /\ TableGood(Inference, s) /\ TableGood(g, s)
  BY TrainingTableGood, InferenceTableGood, StateTableGood
<1> HIDE DEF f, g, s
<1>2. TableGood(h, s)
  BY <1>1, TablesMerged
<1> HIDE DEF h
<1>3. TableGood(h ++ g, s)
  BY <1>1, <1>2, TablesMerged
<1> QED
  BY <1>3 DEF TableGood, h, f, g, s

\* No one-shot call is among the overruns.
LEMMA OneShotNames ==
  ASSUME NEW r \in Rank
  PROVE  \A o \in DOMAIN OneShots(r) : o \notin KnownOverruns
BY DEF OneShots, KnownOverruns

\* ... and every call around it that the table lists.
LEMMA ApiTablesGood ==
  ASSUME NEW r \in Rank, NEW o \in DOMAIN (OneShots(r) ++ Sessions(r))
  PROVE  LET c == (OneShots(r) ++ Sessions(r))[o]
         IN  IF o \in KnownOverruns THEN OverrunCall(c) ELSE ApiGood(c)
<1> DEFINE f == OneShots(r)
           g == Sessions(r)
<1>1. /\ \A x \in DOMAIN f : x \notin KnownOverruns /\ ApiGood(f[x])
      /\ \A x \in DOMAIN g : IF x \in KnownOverruns THEN OverrunCall(g[x]) ELSE ApiGood(g[x])
  BY OneShotsGood, OneShotNames, SessionsGood
<1> HIDE DEF f, g
<1>2. \A x \in DOMAIN (f ++ g) :
        IF x \in KnownOverruns THEN OverrunCall((f ++ g)[x]) ELSE ApiGood((f ++ g)[x])
  BY <1>1, EveryMerged
<1> QED
  BY <1>2 DEF f, g

LEMMA ApiCallIs ==
  ASSUME NEW c, ApiGood(c)
  PROVE  Good(ApiCall(c).program, ApiCall(c).sizes)
BY DEF ApiGood, ApiCall, Alone

LEMMA TinyCallIs ==
  ASSUME NEW r, NEW p, Good(p, GraphSizes(r))
  PROVE  Good(TinyCall(r, p).program, TinyCall(r, p).sizes)
BY DEF TinyCall, GraphSizes

\* Whatever a client may submit is good, unless it is one of the overruns, ...
LEMMA NativeSubmissionsGood ==
  ASSUME NEW s, NativeSubmission(s)
  PROVE  Good(s[2].program, s[2].sizes) \/ Overruns(s)
<1>1. CASE s \in OrderedCalls
  <2>1. s \in NativeCalls /\ s[1][1] \notin KnownRaces
    BY <1>1 DEF OrderedCalls
  <2>2. PICK r \in Ranks :
          \/ \E o \in DOMAIN (Training(r) ++ Inference ++ State(r)) :
               s = <<<<o, r>>, TinyCall(r, (Training(r) ++ Inference ++ State(r))[o])>>
          \/ \E o \in DOMAIN (OneShots(r) ++ Sessions(r)) :
               s = <<<<o, r>>, ApiCall((OneShots(r) ++ Sessions(r))[o])>>
    BY <2>1 DEF NativeCalls
  <2>3. r \in Rank
    BY RanksAssumption DEF Rank
  <2> DEFINE f == Training(r) ++ Inference ++ State(r)
             g == OneShots(r) ++ Sessions(r)
  <2>4. /\ \A o \in DOMAIN f : o \notin KnownRaces => Good(f[o], GraphSizes(r))
        /\ \A o \in DOMAIN g : ApiGood(g[o]) \/ OverrunCall(g[o])
    BY <2>3, GraphCallsGood, ApiTablesGood
  <2> HIDE DEF f, g
  <2>5. CASE \E o \in DOMAIN f : s = <<<<o, r>>, TinyCall(r, f[o])>>
    <3>1. PICK o \in DOMAIN f : s = <<<<o, r>>, TinyCall(r, f[o])>>
      BY <2>5
    <3>2. s[1][1] = o /\ s[2] = TinyCall(r, f[o])
      BY <3>1
    <3> QED
      BY <2>1, <2>4, <3>2, TinyCallIs
  <2>6. CASE \E o \in DOMAIN g : s = <<<<o, r>>, ApiCall(g[o])>>
    <3>1. PICK o \in DOMAIN g : s = <<<<o, r>>, ApiCall(g[o])>>
      BY <2>6
    <3>2. s[2] = ApiCall(g[o])
      BY <3>1
    <3> QED
      BY <2>4, <3>2, ApiCallIs DEF Overruns
  <2> QED
    BY <2>2, <2>5, <2>6 DEF f, g
<1>2. CASE \E c : LegalApi(c) /\ s[2] = ApiCall(c)
  <2>1. PICK c : LegalApi(c) /\ s[2] = ApiCall(c)
    BY <1>2
  <2>2. ApiGood(c) \/ OverrunCall(c)
    BY <2>1, OneShotCallsGood, SessionApisGood, TrainerCallsGood DEF LegalApi
  <2> QED
    BY <2>1, <2>2, ApiCallIs DEF Overruns
<1> QED
  BY <1>1, <1>2 DEF NativeSubmission

\* ... and the barriers order these too.
LEMMA NativeSubmissionsOrderly ==
  ASSUME NEW s, NativeSubmission(s)
  PROVE  Orderly(s[2].program, DOMAIN s[2].sizes)
<1>1. CASE Good(s[2].program, s[2].sizes)
  BY <1>1 DEF Good, Orderly
<1>2. CASE Overruns(s)
  <2>1. PICK c : OverrunCall(c) /\ s[2] = ApiCall(c)
    BY <1>2 DEF Overruns
  <2>2. s[2].program = c.program /\ DOMAIN s[2].sizes = {"staging"}
    BY <2>1 DEF ApiCall
  <2>3. Orderly(c.program, {"staging"})
    BY <2>1, OverrunsOrderly
  <2> QED
    BY <2>2, <2>3
<1> QED
  BY <1>1, <1>2, NativeSubmissionsGood

LEMMA NativeIsOrderly ==
  ASSUME \A s \in Submissions : NativeSubmission(s)
  PROVE  Spec => []OrderlyInv
<1>1. \A s \in Submissions : Orderly(s[2].program, DOMAIN s[2].sizes)
  BY NativeSubmissionsOrderly
<1> QED
  BY <1>1, OrderlyPrograms

(***************************************************************************)
(* The barriers of every native program that a client may submit, for every *)
(* rank and every shape that the calls around the graph accept, are enough: *)
(* each read has the last command recorded before it that writes there      *)
(* finished and visible, earlier writers out of its way and later ones      *)
(* behind it.  Left out are the five programs of KnownRaces.                *)
(***************************************************************************)
THEOREM NativeProgramsFenced ==
  ASSUME \A s \in Submissions : NativeSubmission(s)
  PROVE  Spec => []ProgramsFenced
<1>1. Spec => []OrderlyInv
  BY NativeIsOrderly
<1> QED
  BY <1>1, OrderlyIsFenced, PTL

(***************************************************************************)
(* In every order the device may execute such a program, each kernel and    *)
(* each copy reads what the last command recorded before it wrote there.    *)
(***************************************************************************)
THEOREM NativeReadsRecorded ==
  ASSUME \A s \in Submissions : NativeSubmission(s)
  PROVE  Spec => []ReadsRecordedWriter
<1>1. \A s \in Submissions : Fenced(s[2].program)
  BY NativeSubmissionsOrderly, SafeFenced DEF Orderly
<1> QED
  BY <1>1, FencedProgramsRead

(***************************************************************************)
(* What such a program copies out for the host is not overwritten by        *)
(* another command of it before the host reads it.                          *)
(***************************************************************************)
THEOREM NativeResultsSurvive ==
  ASSUME \A s \in Submissions : NativeSubmission(s)
  PROVE  Spec => []ResultsSurvive
<1>1. Spec => []OrderlyInv
  BY NativeIsOrderly
<1> QED
  BY <1>1, OrderlySurvives, PTL

(***************************************************************************)
(* No copy of such a program reaches past the end of the staging or         *)
(* readback buffer it reads or fills, whose sizes the sources compute apart *)
(* from the offsets, with one exception: a step of a LoRA session that      *)
(* returns the delta of more than four rows per unit of rank.  A session    *)
(* accepts it, and SessionDeltaFits has its copy leave the buffer.          *)
(***************************************************************************)
THEOREM NativeStagingInBounds ==
  ASSUME \A s \in Submissions : NativeSubmission(s) /\ ~ Overruns(s)
  PROVE  Spec => []StagingInBounds
<1>1. \A s \in Submissions : Good(s[2].program, s[2].sizes)
  BY NativeSubmissionsGood
<1>2. Spec => []SoundInv
  BY <1>1, SoundPrograms
<1> QED
  BY <1>2, SoundInBounds, PTL

=============================================================================
