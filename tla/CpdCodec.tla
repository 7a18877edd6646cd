------------------------------ MODULE CpdCodec ------------------------------
(***************************************************************************)
(* How CPD tokens are stored in the cache: CpdSerializer writes two byte   *)
(* arrays, the data and the table of strings, CpdDeserializer reads them   *)
(* back.  What is stored may come back shorter.                            *)
(*                                                                         *)
(* An int is the set of its bits, Width of them (32 in Java), and is       *)
(* written Chunk bits (7) at a time; a byte has Chunk + 1 bits.  A string  *)
(* is the sequence of its bytes.                                           *)
(***************************************************************************)
EXTENDS Integers, Sequences

CONSTANTS
  Width,      \* bits of an int
  Chunk,      \* bits of it in a byte
  Bits,       \* the bits of a number that is not negative
  Locations,  \* locations of tokens: four ints
  Images,     \* strings
  END,        \* the string that ends both arrays
  Null,       \* no string
  MaxTokens   \* bound on the number of tokens

JavaInt == SUBSET (0 .. Width - 1)
Byte == SUBSET (0 .. Chunk)
Numbers == DOMAIN Bits

(* Different numbers have different bits, not the sign bit.  Sizes are     *)
(* numbers.                                                                *)
ASSUME CodecAssumption ==
  /\ Width \in Nat /\ Chunk \in 1 .. Width - 1
  /\ Numbers \subseteq Nat /\ \A n \in Numbers : 0 .. n \subseteq Numbers
  /\ \A n \in Numbers : Bits[n] \subseteq 0 .. Width - 2
  /\ \A m, n \in Numbers : Bits[m] = Bits[n] => m = n
  /\ \A l \in Locations : l \in [1 .. 4 -> JavaInt]
  /\ \A s \in Images \cup {END} : s \in Seq(Byte) /\ Len(s) \in Numbers
  /\ Null \notin Images \cup {END}
  /\ MaxTokens \in Numbers

Tokens == [location: Locations, image: Images \cup {Null}]

VARIABLES
  tokens,     \* what is written
  pc,         \* where writing and reading are, or the exception
  data,       \* the bytes of the data
  table,      \* the bytes of the string table
  byIndex,    \* stringTable of the serializer
  count,      \* how many tokens, then strings, it has written
  kept,       \* how many bytes of the data and of the table come back
  at,         \* position of the reader
  size,       \* number of items it expects
  strings,    \* strings it has read
  cpdTokens   \* tokens it has read

writeVars == <<data, table, byIndex, count>>
readVars == <<at, size, strings, cpdTokens>>
codecVars == <<tokens, pc, writeVars, kept, readVars>>

-----------------------------------------------------------------------------
(* What is left of the value after k turns of the loop of writeInt(), and  *)
(* whether another byte is required.                                       *)
Rest(int, k) == {b \in 0 .. Width - 1 : b + k * Chunk \in int}
NextByte(rest) == rest # {}

Turns(int) ==
  CHOOSE n \in 1 .. Width :
    ~ NextByte(Rest(int, n)) /\ \A m \in 1 .. n - 1 : NextByte(Rest(int, m))

WriteInt(int) ==
  [k \in 1 .. Turns(int) |->
     (Rest(int, k - 1) \cap (0 .. Chunk - 1))
       \cup (IF NextByte(Rest(int, k)) THEN {Chunk} ELSE {})]

(* writeUTF(): no string is written as the empty one.                      *)
Utf(string) == IF string = Null THEN <<>> ELSE string
WriteUTF(string) == WriteInt(Bits[Len(Utf(string))]) \o Utf(string)

(* StringTable.getIndex(): the strings so far, this one appended if new.   *)
WithString(list, s) ==
  IF \E i \in DOMAIN list : list[i] = s THEN list ELSE Append(list, s)

(* Mutant: the size of the list, taken after the string was added. *)
IndexAfter(list, s) == CHOOSE i \in DOMAIN list : list[i] = s

IndexOf(list, s) == (CHOOSE i \in DOMAIN list : list[i] = s) - 1

(* CpdSerializer.write()                                                   *)
TokenBytes(location, index) ==
  WriteInt(location[1]) \o WriteInt(location[2]) \o WriteInt(location[3])
    \o WriteInt(location[4]) \o WriteInt(Bits[index])

-----------------------------------------------------------------------------
(* A read: what it gives, and how many bytes are read then; or the         *)
(* exception.                                                              *)
Gives(value, next) == [error |-> "none", value |-> value, next |-> next]
Throws(exception) == [error |-> exception, value |-> {}, next |-> 0]
Failed(read) == read.error # "none"

(* Java takes a shift modulo the width.                                    *)
ShiftLeft(bits, shift) == {b + (shift % Width) : b \in bits} \cap (0 .. Width - 1)

(* readInt() after p bytes: it ends at the first byte that says so.        *)
LastBytes(bytes, p) == {q \in DOMAIN bytes : q > p /\ Chunk \notin bytes[q]}
IntUpTo(bytes, p, q) ==
  UNION {ShiftLeft(bytes[p + k] \cap (0 .. Chunk - 1), (k - 1) * Chunk) : k \in 1 .. q - p}

ReadInt(bytes, p) ==
  LET last == LastBytes(bytes, p)
  IN  IF last = {} THEN Throws("io")
      ELSE LET q == CHOOSE q \in last : \A r \in last : q <= r
           IN  Gives(IntUpTo(bytes, p, q), q)

Negative(int) == Width - 1 \in int
Number(int) == CHOOSE n \in Numbers : Bits[n] = int

(* A size: the array or the list is not allocated if it is negative.       *)
ReadSize(bytes, p) ==
  LET int == ReadInt(bytes, p)
  IN  IF Failed(int) THEN int
      ELSE IF Negative(int.value) THEN Throws("runtime")
      ELSE Gives(Number(int.value), int.next)

ReadUTF(bytes, p) ==
  LET length == ReadSize(bytes, p)
      end == length.next + length.value
  IN  IF Failed(length) THEN length
      ELSE IF end > Len(bytes) THEN Throws("io")
      ELSE Gives(SubSeq(bytes, length.next + 1, end), end)

(* readCpdToken(), with the strings of the table.                          *)
ReadCpdToken(bytes, p) ==
  LET startLine == ReadInt(bytes, p)
      startCol == ReadInt(bytes, startLine.next)
      endLine == ReadInt(bytes, startCol.next)
      endCol == ReadInt(bytes, endLine.next)
      index == ReadInt(bytes, endCol.next)
  IN  IF \E read \in {startLine, startCol, endLine, endCol, index} : Failed(read)
      THEN Throws("io")
      ELSE IF Negative(index.value) \/ Number(index.value) >= Len(strings)
      THEN Throws("runtime")
      ELSE Gives([location |-> <<startLine.value, startCol.value, endLine.value, endCol.value>>,
                  image |-> strings[Number(index.value) + 1]],
                 index.next)

-----------------------------------------------------------------------------
CodecInit ==
  /\ tokens \in UNION {[1 .. n -> Tokens] : n \in 0 .. MaxTokens}
  /\ pc = "new"
  /\ data = <<>> /\ table = <<>> /\ byIndex = <<>> /\ count = 0
  /\ kept = [data |-> 0, table |-> 0]
  /\ at = 0 /\ size = 0 /\ strings = <<>> /\ cpdTokens = <<>>

WriteTokenCount ==
  /\ pc = "new"
  /\ data' = WriteInt(Bits[Len(tokens)])
  /\ pc' = "tokens"
  /\ UNCHANGED <<tokens, table, byIndex, count, kept, readVars>>

WriteToken ==
  LET token == tokens[count + 1]
  IN  /\ pc = "tokens" /\ count < Len(tokens)
      /\ byIndex' = WithString(byIndex, token.image)
      /\ data' = data \o TokenBytes(token.location, IndexOf(byIndex', token.image))
      /\ count' = count + 1
      /\ UNCHANGED <<tokens, pc, table, kept, readVars>>

(* The data ends; writeStringTable() begins.                               *)
EndData ==
  /\ pc = "tokens" /\ count = Len(tokens)
  /\ data' = data \o WriteUTF(END)
  /\ table' = WriteInt(Bits[Len(byIndex)])
  /\ count' = 0
  /\ pc' = "strings"
  /\ UNCHANGED <<tokens, byIndex, kept, readVars>>

WriteString ==
  /\ pc = "strings" /\ count < Len(byIndex)
  /\ table' = table \o WriteUTF(byIndex[count + 1])
  /\ count' = count + 1
  /\ UNCHANGED <<tokens, pc, data, byIndex, kept, readVars>>

EndTable ==
  /\ pc = "strings" /\ count = Len(byIndex)
  /\ table' = table \o WriteUTF(END)
  /\ pc' = "stored"
  /\ UNCHANGED <<tokens, data, byIndex, count, kept, readVars>>

(* What comes back: each entry may have lost bytes at its end.             *)
Fetch ==
  /\ pc = "stored"
  /\ kept' \in [data: 0 .. Len(data), table: 0 .. Len(table)]
  /\ pc' = "table"
  /\ UNCHANGED <<tokens, writeVars, readVars>>

DataRead == SubSeq(data, 1, kept.data)
TableRead == SubSeq(table, 1, kept.table)

(* readStringTable() and then convert(): first the number of items.        *)
Open(bytes, next) ==
  LET read == ReadSize(bytes, 0)
  IN  /\ IF Failed(read) THEN pc' = read.error /\ UNCHANGED <<at, size>>
         ELSE pc' = next /\ size' = read.value /\ at' = read.next
      /\ UNCHANGED <<tokens, writeVars, kept, strings, cpdTokens>>

OpenTable == pc = "table" /\ Open(TableRead, "read strings")
OpenData == pc = "data" /\ Open(DataRead, "read tokens")

ReadString ==
  LET read == ReadUTF(TableRead, at)
  IN  /\ pc = "read strings" /\ Len(strings) < size
      /\ IF Failed(read) THEN pc' = read.error /\ UNCHANGED <<at, strings>>
         ELSE strings' = Append(strings, read.value) /\ at' = read.next /\ UNCHANGED pc
      /\ UNCHANGED <<tokens, writeVars, kept, size, cpdTokens>>

ReadToken ==
  LET read == ReadCpdToken(DataRead, at)
  IN  /\ pc = "read tokens" /\ Len(cpdTokens) < size
      /\ IF Failed(read) THEN pc' = read.error /\ UNCHANGED <<at, cpdTokens>>
         ELSE cpdTokens' = Append(cpdTokens, read.value) /\ at' = read.next /\ UNCHANGED pc
      /\ UNCHANGED <<tokens, writeVars, kept, size, strings>>

(* END comes last.                                                         *)
Close(bytes, next) ==
  LET read == ReadUTF(bytes, at)
  IN  /\ pc' = IF Failed(read) THEN read.error ELSE IF read.value = END THEN next ELSE "io"
      /\ UNCHANGED <<tokens, writeVars, kept, readVars>>

CloseTable == pc = "read strings" /\ Len(strings) >= size /\ Close(TableRead, "data")
CloseData == pc = "read tokens" /\ Len(cpdTokens) >= size /\ Close(DataRead, "read")

CodecNext ==
  \/ WriteTokenCount \/ WriteToken \/ EndData \/ WriteString \/ EndTable \/ Fetch
  \/ OpenTable \/ ReadString \/ CloseTable \/ OpenData \/ ReadToken \/ CloseData

CodecSpec == CodecInit /\ [][CodecNext]_codecVars

-----------------------------------------------------------------------------
Lost == kept.data < Len(data) \/ kept.table < Len(table)

(* What was stored reads back, with the empty string for no string; what   *)
(* lost bytes at its end, however many, is refused as corrupted: it never  *)
(* reads as other tokens, nor with an exception nobody handles.            *)
Faithful ==
  /\ pc # "runtime"
  /\ pc = "io" => Lost
  /\ pc = "read" =>
       /\ ~ Lost
       /\ cpdTokens = [i \in DOMAIN tokens |->
            [location |-> tokens[i].location, image |-> Utf(tokens[i].image)]]

(* Every int reads back, whatever stands around it, and takes no more      *)
(* bytes than its chunks.                                                  *)
IntsReadBack ==
  pc = "stored" =>
    \A int \in JavaInt :
      LET bytes == WriteInt(int)
      IN  /\ ReadInt(data \o bytes \o table, Len(data)) = Gives(int, Len(data) + Len(bytes))
          /\ Chunk * (Len(bytes) - 1) < Width

(* Tokens, and the ints they are made of, survive the cache or are refused. *)
CodecFaithful == Faithful /\ IntsReadBack
=============================================================================
