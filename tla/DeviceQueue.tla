------------------------------ MODULE DeviceQueue ------------------------------
(***************************************************************************)
(* The device executing the command buffers of the native API.  A client   *)
(* calls one operation after the other; each submits its program and waits *)
(* for it, so that what one program wrote is complete and visible when the *)
(* next one starts.  Within a program the device starts any command whose  *)
(* barriers allow it: this module explores all the orders and all the      *)
(* values a read may find, and asks whether the barriers and the layout of *)
(* the staging buffers leave only what the source wrote down.              *)
(***************************************************************************)
EXTENDS CommandStream

\* What a client may submit: <<<<operation, rank>>, call>>, where a call is a
\* program and the sizes of the host buffers it uses.
CONSTANT Submissions

ASSUME SubmissionsAssumption ==
    \A s \in Submissions :
        /\ s[1] # <<>> /\ s[2].program # <<>>
        /\ DOMAIN s[2].program \subseteq Nat \ {0}
        /\ \A b \in DOMAIN s[2].sizes : s[2].sizes[b] \in Nat

VARIABLES
    call,     \* <<operation, rank>> on the device, or <<>>
    batch,    \* what it submitted, and what its commands wait for
    done,     \* commands of its program that have executed
    seen      \* <<k, place, j>>: command k may have read at place what j wrote

vars == <<call, batch, done, seen>>

Idle == [program |-> <<>>, sizes |-> <<>>, waits |-> <<>>]

program == batch.program
sizes   == batch.sizes

TypeOK ==
    /\ (call = <<>>) = (batch = Idle)
    /\ DOMAIN batch.waits = Commands(program)
    /\ done \subseteq Commands(program)
    /\ \A s \in seen : s[1] \in done /\ s[3] \in done \cup {0}

Writes(j, place) == \E q \in program[j].writes : Clash(q, place)

\* Command m's write reaches every byte of place and is what k finds there.
Hides(m, k, place) ==
    /\ \E q \in program[m].writes : Within(place, q)
    /\ Visible(program, m, k, place)

\* What command k may find at place; 0 is what was there before the program.
Observable(k, place) ==
    LET writers == {j \in done : Writes(j, place)}
        hidden(j) == \E m \in writers \ {j} :
                        Hides(m, k, place) /\ (j = 0 \/ Released(program, j, m, place))
    IN  {j \in writers \cup {0} : ~ hidden(j)}

-----------------------------------------------------------------------------

Init == call = <<>> /\ batch = Idle /\ done = {} /\ seen = {}

\* The commands each command of program p waits for.
Waits(p) == [k \in Commands(p) |-> {i \in Commands(p) : i < k /\ Ordered(p, i, k)}]

\* ExecEngine::submit by one of the operations.
Submit ==
    /\ call = <<>>
    /\ \E c \in Submissions :
          /\ call' = c[1]
          /\ batch' = [program |-> c[2].program, sizes |-> c[2].sizes,
                       waits |-> Waits(c[2].program)]
    /\ UNCHANGED <<done, seen>>

\* Any command that waits for nothing any more.
Execute(k) ==
    /\ k \notin done
    /\ batch.waits[k] \subseteq done
    /\ done' = done \cup {k}
    /\ seen' = seen \cup UNION {{<<k, q, j>> : j \in Observable(k, q)} : q \in program[k].reads}
    /\ UNCHANGED <<call, batch>>

Finished == call # <<>> /\ done = Commands(program)

\* Mutant: what the program executed is not forgotten.
RetireKeepsDone ==
    /\ Finished
    /\ call' = <<>> /\ batch' = Idle /\ seen' = {} /\ UNCHANGED done

\* ExecEngine::wait returns.
Retire ==
    /\ Finished
    /\ call' = <<>> /\ batch' = Idle /\ done' = {} /\ seen' = {}

Next ==
    \/ Submit
    \/ \E k \in Commands(program) : Execute(k)
    \/ Retire

Spec == Init /\ [][Next]_vars

-----------------------------------------------------------------------------

\* What the barriers of a program must achieve for each read: the last command
\* recorded before it that writes there is finished and visible and covers the
\* place, what earlier commands wrote there is out of its way, and later ones
\* wait for the read.
Fenced(p) ==
    \A k \in Commands(p) : \A q \in p[k].reads :
        LET writers == {j \in Commands(p) : \E r \in p[j].writes : Clash(r, q)}
            w == RecordedWriter(p, k, q)
        IN  /\ \A j \in writers : j > k => Ordered(p, k, j)
            /\ w # 0 => /\ \E r \in p[w].writes : Within(q, r)
                        /\ Ordered(p, w, k) /\ Visible(p, w, k, q)
                        /\ \A j \in writers : j < w => Released(p, j, w, q)

\* Every program that is submitted is fenced, which decides without an execution
\* that its reads find what they should.
ProgramsFenced == Fenced(program)

\* Whatever the device overlaps, every kernel and every copy reads what the last
\* command recorded before it wrote there: no barrier of a program is missing,
\* and none names the wrong stages, accesses or buffers.
ReadsRecordedWriter ==
    \A s \in seen : s[3] = RecordedWriter(program, s[1], s[2])

HostPlaces(k) == {q \in program[k].reads \cup program[k].writes : q[1] \in DOMAIN sizes}

\* What a program copies out for the host is still there when the host reads it:
\* no other command writes into its place, unless its write is made to come first.
ResultsSurvive ==
    Finished =>
        \A k \in done : \A q \in program[k].writes \cap HostPlaces(k) :
            program[k].stage = "T" =>
                \A j \in done \ {k} : Writes(j, q) => Released(program, j, k, q)

\* No copy reaches past the end of the host buffer it reads or fills: the offsets
\* and the sizes are computed apart from each other, mostly from the LoRA rank.
\* Of the native programs, those of KnownOverruns (NativePrograms) do.
StagingInBounds ==
    \A k \in done : \A q \in HostPlaces(k) : q[2] >= 0 /\ q[3] <= sizes[q[1]]

=============================================================================
