---------------------------- MODULE UcfgSequence ----------------------------
(***************************************************************************)
(* How the UCFG files of a source file are stored in the cache: one stream *)
(* with all their bytes, one after the other, and a manifest with their    *)
(* names and sizes; and how they are extracted again into the work         *)
(* directory.  The stream may come back shorter or longer.                 *)
(***************************************************************************)
EXTENDS Naturals, Sequences, SequencesExt

CONSTANTS
  Names,     \* names of UCFG files, relative to the work directory
  Bytes,     \* what a byte may be
  Absent,    \* no file of that name
  Buffer,    \* DEFAULT_BUFFER_SIZE
  MaxSize,   \* bound on the size of a file
  MaxPaths   \* bound on the number of paths

ASSUME SequenceAssumption ==
  /\ {Buffer, MaxSize, MaxPaths} \subseteq Nat
  /\ Buffer > 0

VARIABLES
  files,     \* the UCFG files the analysis has written
  paths,     \* ucfgPaths of the response: which of them, in which order
  stage,     \* where the two analyses are
  opened,    \* how many of the paths FileIterator has opened
  stream,    \* the entry of the stream
  manifest,  \* the entry of the manifest
  starts,    \* history: the sum of the sizes listed before each, and of all
  cut,       \* has the stream been changed?
  ucfgDir,   \* the files of the second analysis
  left,      \* sizes still to be extracted
  input,     \* bytes of the stream not read yet
  written    \* bytes written to the file that is open

stored == <<files, paths, opened, stream, manifest, starts, cut>>
reading == <<ucfgDir, left, input, written>>
seqVars == <<stored, reading, stage>>

UcfgContents == BoundedSeq(Bytes, MaxSize)

SeqInit ==
  /\ files \in [Names -> UcfgContents]
  /\ paths \in BoundedSeq(Names, MaxPaths)
  /\ stage = "write" /\ opened = 0
  /\ stream = <<>> /\ manifest = <<>> /\ starts = <<0>> /\ cut = FALSE
  /\ ucfgDir = [n \in Names |-> Absent]
  /\ left = <<>> /\ input = <<>> /\ written = <<>>

-----------------------------------------------------------------------------
(* SequenceInputStream takes the files one after the other.  fileSizes is  *)
(* a LinkedHashMap: a path that comes twice is listed once, where it came  *)
(* first.                                                                  *)
NextFile ==
  LET n == paths[opened + 1]
      size == Len(files[n])
  IN  /\ stage = "write"
      /\ opened < Len(paths)
      /\ opened' = opened + 1
      /\ stream' = stream \o files[n]
      /\ IF \E i \in DOMAIN manifest : manifest[i].name = n
         THEN UNCHANGED <<manifest, starts>>
         ELSE /\ manifest' = Append(manifest, [name |-> n, size |-> size])
              /\ starts' = Append(starts, starts[Len(starts)] + size)
      /\ UNCHANGED <<files, paths, stage, cut, reading>>

(* The stream is at its end; createManifest().                             *)
WriteToCache ==
  /\ stage = "write"
  /\ opened = Len(paths)
  /\ stage' = "stored"
  /\ UNCHANGED <<stored, reading>>

(* The stream comes back with fewer bytes, or with more.                   *)
Tamper ==
  /\ stage = "stored"
  /\ ~ cut
  /\ \/ \E n \in 0 .. Len(stream) - 1 : stream' = SubSeq(stream, 1, n)
     \/ \E b \in Bytes : stream' = Append(stream, b)
  /\ cut' = TRUE
  /\ UNCHANGED <<files, paths, opened, stage, manifest, starts, reading>>

(* readFromCache() opens the stream; with an empty manifest it is done.    *)
OpenStream ==
  /\ stage = "stored"
  /\ input' = stream
  /\ left' = manifest
  /\ stage' = IF manifest = <<>> THEN "extracted" ELSE "next"
  /\ UNCHANGED <<stored, ucfgDir, written>>

-----------------------------------------------------------------------------
(* writeFile(): the file is created,                                       *)
OpenFile ==
  /\ stage = "next"
  /\ ucfgDir' = [ucfgDir EXCEPT ![Head(left).name] = <<>>]
  /\ written' = <<>>
  /\ stage' = "copy"
  /\ UNCHANGED <<stored, left, input>>

Limit == Head(left).size
Smallest(S) == CHOOSE n \in S : \A m \in S : n <= m

(* Mutant: every read asks for a whole buffer. *)
WholeBuffer == Buffer

ToRead == Smallest({Buffer, Limit - Len(written)})

(* ... its bytes are copied, a buffer or less at a time,                   *)
CopyBytes ==
  /\ stage = "copy"
  /\ Len(written) < Limit
  /\ input # <<>>
  /\ \E n \in 1 .. Smallest({ToRead, Len(input)}) :
       /\ written' = written \o SubSeq(input, 1, n)
       /\ input' = SubSeq(input, n + 1, Len(input))
       /\ ucfgDir' = [ucfgDir EXCEPT ![Head(left).name] = written']
  /\ UNCHANGED <<stored, stage, left>>

Copied == stage = "copy" /\ (Len(written) >= Limit \/ input = <<>>)

(* Mutant: the end of the stream is not checked. *)
NeverTooBig == FALSE

(* The stream is too big if bytes are left after the last file.            *)
TooBig == Len(left) = 1 /\ input # <<>>

(* ... and the number of bytes is checked.                                 *)
StreamInvalid ==
  /\ Copied
  /\ Len(written) < Limit \/ TooBig
  /\ stage' = "failed"
  /\ UNCHANGED <<stored, reading>>

CloseFile ==
  /\ Copied
  /\ ~ (Len(written) < Limit \/ TooBig)
  /\ left' = Tail(left)
  /\ stage' = IF Len(left) = 1 THEN "extracted" ELSE "next"
  /\ UNCHANGED <<stored, ucfgDir, input, written>>

SeqNext ==
  \/ NextFile \/ WriteToCache \/ Tamper
  \/ OpenStream \/ OpenFile \/ CopyBytes \/ StreamInvalid \/ CloseFile

SeqSpec == SeqInit /\ [][SeqNext]_seqVars

-----------------------------------------------------------------------------
Twice == \E i, j \in DOMAIN paths : i # j /\ paths[i] = paths[j] /\ files[paths[i]] # <<>>

(* What is extracted is what was written, file by file, however the reads  *)
(* are split; and so is every file that is complete when it fails.  Only   *)
(* a stream with the bytes of a path twice may be cut to a length at which *)
(* other bytes pass for those of the files after it.                       *)
ExtractedRight ==
  /\ stage = "extracted" /\ ~ (Twice /\ cut) =>
       \A n \in Names : ucfgDir[n] = IF \E i \in DOMAIN paths : paths[i] = n
                                     THEN files[n] ELSE Absent
  /\ ~ Twice => \A n \in Names : ucfgDir[n] # Absent => IsPrefix(ucfgDir[n], files[n])

(* A stream is refused if and only if it has lost or gained bytes.  There  *)
(* are two exceptions: a stream without files is not looked at, and a path *)
(* with bytes that came twice is in the stream twice and in the manifest   *)
(* once.                                                                   *)
RefusedIffCut ==
  ~ Twice =>
    /\ stage = "extracted" /\ paths # <<>> => ~ cut
    /\ stage = "failed" => cut
=============================================================================
