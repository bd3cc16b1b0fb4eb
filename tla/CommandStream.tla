---------------------------- MODULE CommandStream ----------------------------
(***************************************************************************)
(* What a Vulkan command buffer promises about the order of its commands.  *)
(* A program is the sequence of commands a lambda records between begin    *)
(* and end: dispatches and copies, which the device may overlap and        *)
(* reorder, and barriers, which are the only thing that keeps them apart.  *)
(* The modules of the programs (TinyPrograms, ApiPrograms) record them as  *)
(* the source does and DeviceQueue executes them.                          *)
(*                                                                         *)
(* A place is <<buffer, first byte, past the last byte>>; a buffer that is *)
(* always used as a whole is one unit long.  Two commands touch the same   *)
(* memory when their places clash.                                         *)
(***************************************************************************)
EXTENDS Naturals, Sequences

Whole(buffer) == <<buffer, 0, 1>>

Clash(p, q) == p[1] = q[1] /\ p[2] < q[3] /\ q[2] < p[3]

Within(p, q) == p[1] = q[1] /\ q[2] <= p[2] /\ p[3] <= q[3]

Floats(n) == 4 * n

\* Consecutive places of a host buffer from "base" on, one for each part; a
\* part is <<buffer, bytes>>.
Packed(host, parts, base) ==
    LET at[n \in 1 .. Len(parts)] ==
            IF n = 1 THEN base ELSE at[n - 1] + parts[n - 1][2]
    IN  [n \in 1 .. Len(parts) |-> <<host, at[n], at[n] + parts[n][2]>>]

Names(parts) == {parts[n][1] : n \in DOMAIN parts}

-----------------------------------------------------------------------------
(* Commands.  Shader accesses happen in the compute stage, those of copies *)
(* and fills in the transfer stage.                                        *)

Dispatch(kernel) ==
    [stage |-> "C", reads |-> {Whole(b) : b \in kernel.reads},
                    writes |-> {Whole(b) : b \in kernel.writes}]

Copy(from, to) == [stage |-> "T", reads |-> {from}, writes |-> {to}]

Fill(to) == [stage |-> "T", reads |-> {}, writes |-> {to}]

\* pipelineBarrier(from, to) with one memory barrier (on = {}) or with buffer
\* barriers on the named buffers: the writes of kind "makes" done before it in
\* the stages "from" are made available, and visible to the accesses "shows"
\* of later commands in the stages "to".
Barrier(from, to, makes, shows, on) ==
    [stage |-> "barrier", from |-> from, to |-> to,
     makes |-> makes, shows |-> shows, on |-> on]

\* The four barriers nearly all programs are made of.
UploadDone   == Barrier({"T"}, {"C"}, {"TW"}, {"CR"}, {})
KernelDone   == Barrier({"C"}, {"C"}, {"CW"}, {"CR"}, {})
ResultDone   == Barrier({"C"}, {"T"}, {"CW"}, {"TR"}, {})
KernelWrites == Barrier({"C"}, {"C"}, {"CW"}, {"CW"}, {})

\* Whole buffers from and to consecutive places of a host buffer.
CopyIn(host, parts, base) ==
    [n \in DOMAIN parts |-> Copy(Packed(host, parts, base)[n], Whole(parts[n][1]))]

CopyOut(host, parts, base) ==
    [n \in DOMAIN parts |-> Copy(Whole(parts[n][1]), Packed(host, parts, base)[n])]

\* Dispatches of the kernels in the given order, the barrier between any two.
Chain(kernels, between) ==
    [n \in 1 .. 2 * Len(kernels) - 1 |->
        IF n % 2 = 1 THEN Dispatch(kernels[(n + 1) \div 2]) ELSE between]

-----------------------------------------------------------------------------
(* Synchronisation.                                                         *)

Commands(p) == {i \in DOMAIN p : p[i].stage # "barrier"}

ReadAccess(c)  == IF c.stage = "C" THEN "CR" ELSE "TR"
WriteAccess(c) == IF c.stage = "C" THEN "CW" ELSE "TW"

Concerns(b, place) == b.on = {} \/ place[1] \in b.on

\* Barriers b and c, possibly the same one, that make command k wait for
\* command i.  There are two stages, so that a chain of three barriers orders
\* nothing that a chain of two does not.
Linked(p, i, k, b, c) ==
    /\ i < b /\ b <= c /\ c < k
    /\ p[b].stage = "barrier" /\ p[c].stage = "barrier"
    /\ p[i].stage \in p[b].from
    /\ p[k].stage \in p[c].to
    /\ b = c \/ p[b].to \cap p[c].from # {}

\* Command k starts only when command i has finished.
Ordered(p, i, k) == \E b, c \in i .. k : Linked(p, i, k, b, c)

\* ... and what i wrote at place has left i's caches before: k's writes there
\* replace it.
Released(p, i, k, place) ==
    \E b, c \in i .. k :
        /\ Linked(p, i, k, b, c)
        /\ WriteAccess(p[i]) \in p[b].makes /\ Concerns(p[b], place)

\* ... and what i wrote at place is what k finds there when it reads it.
Visible(p, i, k, place) ==
    \E b, c \in i .. k :
        /\ Linked(p, i, k, b, c)
        /\ WriteAccess(p[i]) \in p[b].makes /\ Concerns(p[b], place)
        /\ ReadAccess(p[k]) \in p[c].shows /\ Concerns(p[c], place)

\* The last command before k that writes into place as the program is read
\* from top to bottom; 0 stands for what was there before the program.
RecordedWriter(p, k, place) ==
    LET writers == {j \in Commands(p) :
                       j < k /\ \E q \in p[j].writes : Clash(q, place)}
    IN  IF writers = {} THEN 0
        ELSE CHOOSE j \in writers : \A m \in writers : m <= j

=============================================================================
