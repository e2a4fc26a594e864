------------------------------- MODULE Buffer -------------------------------
(***************************************************************************)
(* The byte buffer of a connection: room to prepend, what can be read, and *)
(* room to write.  Only the readable bytes of _data are kept, as a         *)
(* function from their indices.  The sizes are parameters: the real ones   *)
(* are 8 and 1024.                                                         *)
(***************************************************************************)
EXTENDS Integers, Sequences, SequencesExt, FiniteSets

CONSTANTS PrependSize, InitialSize,
          Prependables,   \* what the constructor is called with
          Chunks,         \* the byte strings appended, prepended and received
          ExtraSize,      \* the size of readFd's array on the stack
          MostReadable,   \* bound: readable bytes
          BufferAvoids    \* calls the callers do not make, see BufferRetrieve

VARIABLES buffer,   \* [r, w: the indices, size, data, prependable, ok]
          unread    \* the bytes put in and not retrieved

bufferVars == <<buffer, unread>>

ReadableBytes(b) == b.w - b.r
WritableBytes(b) == b.size - b.w
PrependableBytes(b) == b.r

Construct(prependable) ==
    [r |-> prependable, w |-> prependable, size |-> prependable + InitialSize,
     data |-> <<>>, prependable |-> prependable, ok |-> TRUE]

Junk == 0
ByteAt(b, i) == IF i \in DOMAIN b.data THEN b.data[i] ELSE Junk
\* Indices r and w, and the bytes between them.
Hold(b, r, w, byte(_)) ==
    [b EXCEPT !.r = r, !.w = w, !.data = [i \in r .. w - 1 |-> byte(i)], !.ok = @ /\ w =< b.size]

Reset(b) == LET p == b.prependable IN Hold(b, p, p, LAMBDA i : Junk)

\* More than is readable resets the buffer and still moves the index.
Retrieve(b, n) ==
    LET moved == Hold(b, b.r + n, b.w, LAMBDA i : ByteAt(b, i))
    IN CASE n > ReadableBytes(b) -> [Reset(b) EXCEPT !.r = @ + n]
         [] n = ReadableBytes(b) -> Reset(b)
         [] OTHER -> moved
RetrieveAll(b) == Retrieve(b, ReadableBytes(b))
Peek(b, n) == [i \in 1 .. n |-> ByteAt(b, b.r + i - 1)]

\* Mutant of ExtendIfNeeded: what is to stay free in front does not count.
ExtendIgnoresPrepend(b, n) ==
    LET down == b.r - PrependSize
    IN CASE n =< WritableBytes(b) -> b
         [] n > WritableBytes(b) /\ PrependableBytes(b) + WritableBytes(b) < n ->
              [b EXCEPT !.size = b.w + n]
         [] OTHER -> Hold(b, PrependSize, PrependSize + ReadableBytes(b), LAMBDA i : ByteAt(b, i + down))

\* Resized only when moving the readable bytes down would not leave
\* prependSize in front of them.
ExtendIfNeeded(b, n) ==
    LET down == b.r - PrependSize
    IN CASE n =< WritableBytes(b) -> b
         [] n > WritableBytes(b) /\ PrependableBytes(b) + WritableBytes(b) < n + PrependSize ->
              [b EXCEPT !.size = b.w + n]
         [] OTHER -> Hold(b, PrependSize, PrependSize + ReadableBytes(b), LAMBDA i : ByteAt(b, i + down))

AppendBytes(b, bytes) ==
    LET e == ExtendIfNeeded(b, Len(bytes))
    IN Hold(e, e.r, e.w + Len(bytes), LAMBDA i : IF i < e.w THEN ByteAt(e, i) ELSE bytes[i - e.w + 1])

\* The assertion: what is prepended fits in front.
Prepend(b, bytes) ==
    LET r == b.r - Len(bytes)
    IN IF Len(bytes) > PrependableBytes(b) THEN [b EXCEPT !.ok = FALSE]
       ELSE Hold(b, r, b.w, LAMBDA i : IF i < b.r THEN bytes[i - r + 1] ELSE ByteAt(b, i))

\* readv fills the writable bytes first and then an array on the stack.
ReadFd(b, bytes) ==
    LET room == WritableBytes(b)
        fits == SubSeq(bytes, 1, room)
        filled == Hold(b, b.r, b.size, LAMBDA i : IF i < b.w THEN ByteAt(b, i) ELSE fits[i - b.w + 1])
    IN IF Len(bytes) < room THEN AppendBytes(b, bytes)
       ELSE AppendBytes(filled, SubSeq(bytes, room + 1, Len(bytes)))

\* _prependable is not swapped.
Swap(b, other) == [other EXCEPT !.prependable = b.prependable]

-----------------------------------------------------------------------------
(* The operations *)

Fits(bytes) == Len(unread) + Len(bytes) =< MostReadable

BufferInit ==
    /\ \E p \in Prependables : buffer = Construct(p)
    /\ unread = <<>>

BufferAppend(bytes) ==
    /\ Fits(bytes)
    /\ buffer' = AppendBytes(buffer, bytes)
    /\ unread' = unread \o bytes

BufferPrepend(bytes) ==
    /\ Fits(bytes)
    /\ Len(bytes) =< PrependableBytes(buffer)
    /\ buffer' = Prepend(buffer, bytes)
    /\ unread' = bytes \o unread

\* retrieve and retrieveAsString.
BufferRetrieve(n) ==
    /\ "too much" \in BufferAvoids => n =< ReadableBytes(buffer)
    /\ buffer' = Retrieve(buffer, n)
    /\ unread' = SubSeq(unread, n + 1, Len(unread))

BufferRetrieveAll ==
    /\ buffer' = RetrieveAll(buffer)
    /\ unread' = <<>>

\* readv returns at most what fits in both of its arrays, and fails with
\* nothing changed.
BufferReadFd(bytes) ==
    /\ Fits(bytes)
    /\ Len(bytes) =< WritableBytes(buffer) + (IF WritableBytes(buffer) < ExtraSize THEN ExtraSize ELSE 0)
    /\ buffer' = ReadFd(buffer, bytes)
    /\ unread' = unread \o bytes

BufferSwap(prependable) ==
    /\ buffer' = Swap(buffer, Construct(prependable))
    /\ unread' = <<>>

BufferNext ==
    /\ buffer.ok
    /\ \/ \E bytes \in Chunks : \/ BufferAppend(bytes)
                                \/ BufferPrepend(bytes)
                                \/ BufferReadFd(bytes)
       \/ \E n \in 0 .. MostReadable + 1 : BufferRetrieve(n)
       \/ BufferRetrieveAll
       \/ \E p \in Prependables : BufferSwap(p)

-----------------------------------------------------------------------------
(* Properties *)

\* Whatever was appended, received, prepended and retrieved, with the bytes
\* moved down or the vector resized in between: the readable bytes are those
\* not yet retrieved, in order, the indices stay in the vector and no
\* assertion fails.
BufferAgrees ==
    /\ buffer.ok
    /\ 0 =< buffer.r /\ buffer.r =< buffer.w /\ buffer.w =< buffer.size
    /\ Peek(buffer, ReadableBytes(buffer)) = unread

=============================================================================
