------------------------------- MODULE Inflate -------------------------------
(***************************************************************************)
(* The payload of one state-history entry as shiplog.rs inflates it: a     *)
(* zlib stream read in windows, by read_inline (the whole payload into one *)
(* buffer), verify_count (no output kept) and next_chunk (the caller's     *)
(* chunks).                                                                *)
(*                                                                         *)
(* An entry is [len, zin, zout, declared, breaks, late]: the bytes of      *)
(* payload in the file, the compressed and inflated bytes of the stream in *)
(* it, the size a Type A header declares (None for Type B), the input byte *)
(* the decoder fails at (0: none), and whether the decoder consumes input  *)
(* before its output fits and reports the end only with room to spare.     *)
(***************************************************************************)
EXTENDS Integers, Sequences, FiniteSets, SequencesExt

CONSTANTS
    Entries,        \* the entries read
    Limits,         \* the limits callers set
    INPUT_WINDOW,
    INLINE_STEP_MIN, INLINE_STEP_MAX,
    COUNT_SCRATCH,
    ChunkSizes,         \* the chunk sizes a streaming caller asks for
    None

VARIABLES
    entry, limit, use, \* what is read, and how: "inline", "count" or "stream"
    z,              \* InflateStream: [next, in, out, done, failed]
    call,           \* the call to inflate under way: [to, probe], or None
    from,           \* the bytes out when the caller's turn began
    step,           \* the most a turn of the caller asks for
    short,          \* observer: a chunk said to have more after it was not full
    calls,          \* observer: the turns of the caller
    result          \* None while reading; "ok" or "error"

vars == <<entry, limit, use, z, call, from, step, short, calls, result>>
-----------------------------------------------------------------------------
Least(a, b) == Min({a, b})

(* zlib (external): all output of the stream is available once all of its  *)
(* input is in, and one byte of it for each byte of input before that.     *)
OutUpTo(e, i) == IF i >= e.zin THEN e.zout ELSE Least(i, e.zout)

(* Decompress (external): one call with the input up to byte `avail` and   *)
(* room for the output up to byte `to`.                                    *)
Decompress(e, s, avail, to) ==
    LET in == Least(avail, e.zin)
        upTo == Least(OutUpTo(e, in), to)
        used == IF ~e.late /\ upTo < OutUpTo(e, in) THEN Max({s.in, in - 1}) ELSE in
    IN  [in |-> used, out |-> upTo,
         bad |-> e.breaks # 0 /\ in >= e.breaks,
         end |-> used = e.zin /\ upTo = e.zout /\ (e.late => upTo < to)]

(* check_limit, and the first step of read_inline. *)
OverLimit(e, l) == e.declared # None /\ e.declared > l
FirstStep(e) ==
    IF e.declared # None THEN e.declared
    ELSE Min({INLINE_STEP_MAX, Max({INLINE_STEP_MIN, e.len * 4})})

(* The scratch of verify_count is never empty. *)
Scratch(e, l) ==
    Max({1, Min({COUNT_SCRATCH, l + 1} \cup (IF e.declared = None THEN {} ELSE {e.declared + 1}))})

Init ==
    /\ entry \in Entries /\ limit \in Limits /\ use \in {"inline", "count", "stream"}
    /\ z = [next |-> 0, in |-> 0, out |-> 0, done |-> FALSE, failed |-> FALSE]
    /\ call = None /\ from = 0 /\ short = FALSE /\ calls = 0
    /\ step \in (CASE use = "inline" -> {FirstStep(entry)}
                   [] use = "count" -> {Scratch(entry, limit)}
                   [] OTHER -> ChunkSizes)
    /\ result = IF use # "stream" /\ OverLimit(entry, limit) THEN "error" ELSE None

-----------------------------------------------------------------------------
(* A turn of the caller: next_chunk of a step (read_inline asks at most    *)
(* one byte past the limit), or inflate into the scratch of verify_count.  *)
(* next_chunk asks no more than the declared bytes that are left.          *)
Asked ==
    LET left == IF entry.declared > z.out THEN entry.declared - z.out ELSE 0
        most == IF use = "inline" THEN Least(step, (IF limit > z.out THEN limit - z.out ELSE 0) + 1) ELSE step
    IN  IF use = "count" \/ entry.declared = None THEN most ELSE Least(most, left)

Begin ==
    /\ result = None /\ call = None
    /\ call' = IF use # "count" /\ Asked = 0 THEN [to |-> z.out + 1, probe |-> TRUE]
               ELSE [to |-> z.out + Asked, probe |-> FALSE]
    /\ from' = z.out /\ calls' = calls + 1
    /\ UNCHANGED <<entry, limit, use, z, step, short, result>>

(* Mutant: bytes after the stream are accepted. *)
FinishAnyLength(s) ==
    IF entry.declared # None /\ s.out # entry.declared
    THEN [s EXCEPT !.failed = TRUE] ELSE [s EXCEPT !.done = TRUE]

(* finish: the stream used the payload, and has the declared size. *)
Finish(s) ==
    IF s.in # entry.len \/ (entry.declared # None /\ s.out # entry.declared)
    THEN [s EXCEPT !.failed = TRUE] ELSE [s EXCEPT !.done = TRUE]

(* One turn of the loop of pump: a window is read when the last is used    *)
(* up; no progress with room left is an error.                             *)
Pump ==
    LET next == IF z.in = z.next THEN Least(entry.len, z.next + INPUT_WINDOW) ELSE z.next
        d == Decompress(entry, z, next, call.to)
        t == [z EXCEPT !.next = next, !.in = d.in, !.out = d.out]
        stuck == d.in = z.in /\ d.out = z.out
    IN  /\ call # None /\ ~z.done /\ ~z.failed
        /\ \/ d.end /\ ~d.bad /\ z' = Finish(t)
           \/ ~d.end /\ ~d.bad /\ ~stuck
              /\ z' = [t EXCEPT !.failed = entry.declared # None /\ d.out > entry.declared]
           \/ (d.bad \/ (~d.end /\ stuck /\ d.out < call.to)) /\ z' = [t EXCEPT !.failed = TRUE]
        /\ UNCHANGED <<entry, limit, use, call, from, step, short, calls, result>>

(* The loop is over: the stream ended or failed, or the buffer is full and *)
(* the decoder has nothing more to take.                                   *)
Full ==
    LET next == IF z.in = z.next THEN Least(entry.len, z.next + INPUT_WINDOW) ELSE z.next
        d == Decompress(entry, z, next, call.to)
    IN  z.out = call.to /\ d.in = z.in /\ d.out = z.out /\ ~d.end /\ ~d.bad

Over == call # None /\ (z.done \/ z.failed \/ Full)

(* next_chunk: every declared byte is out, so the stream must end without  *)
(* another one.                                                            *)
Probes == use # "count" /\ ~z.failed /\ ~z.done /\ ~call.probe /\ entry.declared = z.out

Probe ==
    /\ Over /\ Probes
    /\ call' = [to |-> z.out + 1, probe |-> TRUE]
    /\ UNCHANGED <<entry, limit, use, z, from, step, short, calls, result>>

(* The turn returns to its caller. *)
Return ==
    /\ Over /\ ~Probes
    /\ call' = None
    /\ result' = IF z.failed \/ (use # "stream" /\ z.out > limit) THEN "error"
                 ELSE IF z.done THEN "ok" ELSE None
    /\ short' = (short \/ (use = "stream" /\ ~z.failed /\ ~z.done /\ z.out # from + step))
    /\ step' = IF use = "inline" THEN Least(step * 2, INLINE_STEP_MAX) ELSE step
    /\ UNCHANGED <<entry, limit, use, z, from, calls>>

Next == Begin \/ Pump \/ Probe \/ Return
Spec == Init /\ [][Next]_vars

-----------------------------------------------------------------------------
(* The stream is the whole payload and inflates to what the header says. *)
Intact(e) ==
    /\ e.len = e.zin /\ e.breaks = 0
    /\ e.declared # None => e.declared = e.zout

(* However the payload is cut into windows, steps and chunks, all three    *)
(* ways to read it accept exactly the intact payloads within the limit,    *)
(* with the right length; a chunk said to have more after it is full; and  *)
(* no call spins: each but the last two brings a byte.                     *)
AcceptsIntact ==
    /\ ~short
    /\ calls <= entry.zout + 2
    /\ result = "ok" => Intact(entry) /\ z.out = entry.zout
    /\ result = "ok" /\ use # "stream" => entry.zout <= limit
    /\ result = "error" => ~Intact(entry) \/ (use # "stream" /\ entry.zout > limit)
=============================================================================
