----------------------------- MODULE FlatBuffer -----------------------------
(***************************************************************************)
(* What bytearray.h promises: one array of bytes with a position, as a     *)
(* file has it, and a size up to which there is data. The array grows when *)
(* it is written past its end; new bytes have any value.                   *)
(*                                                                         *)
(* io is the last call as its caller sees it: the operation, its argument  *)
(* (the bytes written, or numbers), whether it threw, and the bytes (or,   *)
(* for "reserve", the places in the array) it returned. Two calls do not   *)
(* keep the promise and end the program: SeekEnds and ReadEnds.            *)
(***************************************************************************)
EXTENDS Integers, Sequences

VARIABLES
    flat,        \* the array; its length is the capacity
    position, size, io,
    ended        \* the program has ended in the last call

flatVars == <<flat, position, size, io, ended>>

Call(op, arg, bytes) ==
    io' = [op |-> op, arg |-> arg, thrown |-> FALSE, bytes |-> bytes]

Slice(from, n) == [i \in 1..n |-> flat[from + i]]

Init == position = 0 /\ size = 0 /\ io.op = "new" /\ ~ended

\* The bytes replace what is at the position, the position is behind them.
Write ==
    /\ io'.op = "write" /\ ~io'.thrown /\ io'.bytes = <<>>
    /\ position' = position + Len(io'.arg)
    /\ size' = IF position' > size THEN position' ELSE size
    /\ Len(flat') >= Len(flat) /\ Len(flat') >= position'
    /\ \A i \in 1..Len(io'.arg) : flat'[position + i] = io'.arg[i]
    /\ \A i \in 1..Len(flat) : i <= position \/ i > position' => flat'[i] = flat[i]

\* The bytes before the new position.
Read ==
    /\ position' \in position..size
    /\ Call("read", <<position' - position>>, Slice(position, position' - position))
    /\ UNCHANGED <<flat, size>>

\* A read of more bytes than there are throws; what a number or a string with a
\* length has read before is consumed.
ReadThrows ==
    /\ position' \in position..size
    /\ io'.op = "read" /\ io'.thrown /\ io'.bytes = <<>>
    /\ io'.arg[1] > size - position'
    /\ UNCHANGED <<flat, size>>

\* getWriteBuffers(): the places behind the position.
Reserve ==
    /\ io'.op = "reserve"
    /\ Len(flat') >= Len(flat) /\ \A i \in 1..Len(flat) : flat'[i] = flat[i]
    /\ Len(flat') >= position + io'.arg[1]
    /\ Call("reserve", io'.arg, [i \in 1..io'.arg[1] |-> position + i - 1])
    /\ UNCHANGED <<position, size>>

Seek ==
    /\ position' \in 0..(Len(flat) - 1)
    /\ size' = IF position' > size THEN position' ELSE size
    /\ Call("seek", <<position'>>, <<>>)
    /\ UNCHANGED flat

SeekThrows ==
    /\ io'.op = "seek" /\ io'.thrown /\ io'.arg[1] > Len(flat)
    /\ UNCHANGED <<flat, position, size>>

\* The position and the size start again; a part of the array may be given back.
Clear ==
    /\ position' = 0 /\ size' = 0
    /\ Call("clear", <<>>, <<>>)
    /\ Len(flat') <= Len(flat) /\ \A i \in 1..Len(flat') : flat'[i] = flat[i]

\* setPosition() to the end of the array.
SeekEnds ==
    /\ position' = Len(flat) /\ size' = Len(flat)
    /\ Call("seek", <<position'>>, <<>>)
    /\ UNCHANGED flat

\* A string of no bytes whose length field ends with the data of a full array.
ReadEnds ==
    /\ position < Len(flat) /\ position' = size /\ size = Len(flat)
    /\ Call("read", <<position' - position>>, <<>>)
    /\ UNCHANGED <<flat, size>>

Next ==
    /\ ~ended
    /\ \/ /\ Write \/ Read \/ ReadThrows \/ Reserve \/ Seek \/ SeekThrows \/ Clear
          /\ UNCHANGED ended
       \/ (SeekEnds \/ ReadEnds) /\ ended' = TRUE

Spec == Init /\ [][Next]_flatVars
=============================================================================
