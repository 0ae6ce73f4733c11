----------------------------- MODULE PreloadFile -----------------------------
(***************************************************************************)
(* A File object (src/src/generic/preload_file.ts): the whole file in a    *)
(* buffer, which is written back when it is synced or closed.  A file is a *)
(* record; what a method leaves of it is an operator.  Where the code      *)
(* allocates a new buffer instead of changing the one it has, those who    *)
(* hold the old one keep what was in it: KeepsBuffer.                      *)
(***************************************************************************)
EXTENDS Integers, Sequences

CONSTANTS
  Bytes,   \* what a byte may be
  Zero     \* the byte of Buffer.alloc

ASSUME ByteAssumption == Zero \in Bytes

----------------------------------------------------------------------------
(* FileFlag *)
FlagStrs == {"r", "r+", "rs", "rs+", "w", "wx", "w+", "wx+", "a", "ax", "a+", "ax+"}
Plus == {"r+", "rs+", "w+", "wx+", "a+", "ax+"}
Truncating == {"w", "wx", "w+", "wx+"}
Appendable == {"a", "ax", "a+", "ax+"}
Exclusive == {"wx", "wx+", "ax", "ax+"}
Synchronous == {"rs", "rs+"}
Readable == {"r", "rs"} \union Plus
Writeable == Truncating \union Appendable \union Plus
(* pathNotExistsAction is CREATE_FILE; so it is for "rs+". *)
Creating == Writeable \ {"r+"}

----------------------------------------------------------------------------
(* unsaved is history: changed since it was stored or read *)
NewFile(p, flag, node) ==
  [path |-> p, flag |-> flag, buffer |-> node.data, size |-> node.size, pos |-> 0, dirty |-> FALSE,
   unsaved |-> FALSE]

Zeros(n) == [i \in 1 .. n |-> Zero]
AtLeast(n, m) == IF n < m THEN m ELSE n

GetPos(f) == IF f.flag \in Appendable THEN f.size ELSE f.pos

(* The buffer that writeSync copies into: extended only when the size is. *)
Room(f, end) ==
  IF end > f.size /\ end > Len(f.buffer) THEN f.buffer \o Zeros(end - Len(f.buffer)) ELSE f.buffer
Copied(buffer, bytes, at) ==
  [i \in 1 .. Len(buffer) |-> IF i \in at + 1 .. at + Len(bytes) THEN bytes[i - at] ELSE buffer[i]]

(* writeSync, as far as the file system lets it: a file opened with "s" is
   synced at once, and its position stays. *)
WriteBuffer(f, bytes, at) ==
  LET end == at + Len(bytes)
  IN [f EXCEPT !.dirty = TRUE,
               !.size = AtLeast(f.size, end),
               !.buffer = Copied(Room(f, end), bytes, at),
               !.pos = IF f.flag \in Synchronous THEN f.pos ELSE end]
(* "EPERM, 'File not opened with a writeable mode.'" comes after _dirty. *)
WriteSync(f, bytes, at) ==
  IF f.flag \in Writeable THEN WriteBuffer(f, bytes, at) ELSE [f EXCEPT !.dirty = TRUE]

(* mutant: the buffer stays as it is *)
TruncateSizeOnly(f, len) ==
  IF f.flag \in Writeable /\ len <= Len(f.buffer) THEN [f EXCEPT !.dirty = TRUE, !.size = len] ELSE f
TruncateSync(f, len) ==
  CASE f.flag \notin Writeable -> [f EXCEPT !.dirty = TRUE]
    [] f.flag \in Writeable /\ len > Len(f.buffer) ->
         WriteSync(f, Zeros(len - Len(f.buffer)), Len(f.buffer))
    [] OTHER -> [f EXCEPT !.dirty = TRUE, !.size = len, !.buffer = SubSeq(f.buffer, 1, len)]

(* readSync moves the position also when it is given one, and to the end of
   the file when that is nearer. *)
ReadSync(f, len, at) ==
  IF f.flag \in Readable
  THEN [f EXCEPT !.pos = IF at + len > f.size THEN f.size ELSE at + len]
  ELSE f

(* The file writes to the buffer it had. *)
WriteKeepsBuffer(f, bytes, at) ==
  f.flag \in Writeable => Room(f, at + Len(bytes)) = f.buffer
TruncateKeepsBuffer(f, len) == f.flag \notin Writeable

NodeOf(f) == [data |-> f.buffer, size |-> f.size]
Sized(node) == Len(node.data) = node.size
=============================================================================
