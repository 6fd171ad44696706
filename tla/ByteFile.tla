------------------------------ MODULE ByteFile ------------------------------
(***************************************************************************)
(* What ByteArray promises: a sequence of bytes with one position, where a *)
(* read hands out the bytes behind the position and a write replaces them, *)
(* growing the sequence as needed.                                         *)
(***************************************************************************)
EXTENDS Integers, Sequences

CONSTANT Byte

VARIABLES content, pos, out

fileVars == <<content, pos, out>>

FileInit == content = <<>> /\ pos = 0 /\ out = <<>>

\* The content once bs has been written at the position.
Overlay(bs) ==
    [k \in 1..(IF pos + Len(bs) > Len(content) THEN pos + Len(bs) ELSE Len(content)) |->
        IF k > pos /\ k <= pos + Len(bs) THEN bs[k - pos] ELSE content[k]]

\* Any bytes are written from the position on, which moves behind them; nothing
\* else of the content changes.  That they are the bytes of the call is not said
\* here: ReadsBack of ByteArray is about the values.
FileWrite ==
    /\ pos' >= pos /\ Len(content') >= pos'
    /\ content' = Overlay(SubSeq(content', pos + 1, pos'))
    /\ out' = <<>>

\* The next bytes are handed out.
FileRead ==
    /\ pos' >= pos /\ pos' <= Len(content)
    /\ out' = SubSeq(content, pos + 1, pos')
    /\ UNCHANGED content

\* Bytes from the position on are handed out and the position stays; the call may
\* hand out fewer than there are.
FilePeek ==
    /\ \E n \in 0..(Len(content) - pos) : out' = SubSeq(content, pos + 1, pos + n)
    /\ UNCHANGED <<content, pos>>

\* The position moves; behind the end, the new bytes are arbitrary.
FileSeek ==
    /\ IF pos' <= Len(content) THEN content' = content
       ELSE Len(content') = pos' /\ SubSeq(content', 1, Len(content)) = content
    /\ out' = <<>>

FileClear == content' = <<>> /\ pos' = 0 /\ out' = <<>>

FileNext == FileWrite \/ FileRead \/ FilePeek \/ FileSeek \/ FileClear

FileSpec == FileInit /\ [][FileNext]_fileVars
=============================================================================
