----------------------------- MODULE ByteStream -----------------------------
(* What a pipe promises: the bytes come out in the order in which they     *)
(* went in, each once.  The bytes are numbered, modulo Modulus.            *)
EXTENDS Naturals, Sequences

CONSTANTS Capacity, Modulus

VARIABLES
    queue,      \* the bytes in the pipe
    sent,       \* the number of the next byte to go in
    received    \* the byte that came out last

Init == queue = <<>> /\ sent = 0 /\ received = Modulus - 1

Put ==
    /\ Len(queue) < Capacity
    /\ queue' = Append(queue, sent)
    /\ sent' = (sent + 1) % Modulus
    /\ UNCHANGED received

Get ==
    /\ queue # <<>>
    /\ received' = Head(queue)
    /\ queue' = Tail(queue)
    /\ UNCHANGED sent

Spec == Init /\ [][Put \/ Get]_<<queue, sent, received>>
=============================================================================
