------------------------------ MODULE WalFile ------------------------------
(***************************************************************************)
(* One WAL file built up the ways the disk can leave it, checked against   *)
(* WalReader::recover_from_file.  Records are appended whole               *)
(* (WalWriter::append_durable writes serialize_entry's bytes with one      *)
(* write_all); the last one may be torn by a crash (a strict prefix of its *)
(* cells reached the disk) and later records may follow it; any cell may   *)
(* later be damaged on the media, a header also behind an intact magic.    *)
(* Recovery is compared with the history of the file: every complete,     *)
(* undamaged record, in order, as far as the code's torn-tail test lets it *)
(* go (see RecoveryLosesOnlyAfterOverrun).                                 *)
(***************************************************************************)
EXTENDS WalFormat

CONSTANTS
  MaxRecs,   \* bound on records appended whole to the file
  MaxTorn    \* bound on partial records left in it

VARIABLES
  file,       \* the file's cells, as recovery reads them
  written,    \* records whose encoding was appended completely
  at,         \* at[j]: the 0-based offset written[j] was appended at
  damaged,    \* indices (into written) of records with a damaged cell
  nTorn       \* partial records in the file

vars == <<file, written, at, damaged, nTorn>>

Junk == [t |-> "junk"]   \* a cell whose bytes no longer match what was written

TypeOK ==
  /\ file \in Seq(CellT \cup {Junk})
  /\ written \in Seq(Rec) /\ Len(written) <= MaxRecs
  /\ at \in Seq(Nat) /\ Len(at) = Len(written)
  /\ damaged \subseteq 1..Len(written)
  /\ nTorn \in 0..MaxTorn

Init ==
  /\ file = <<>>
  /\ written = <<>>
  /\ at = <<>>
  /\ damaged = {}
  /\ nTorn = 0

\* append_durable: the whole encoding lands after the current end.  This
\* includes the end left by a partial record: the file is opened in append
\* mode, a failed write_all does not stop the writer, and WalWriter::new
\* reopens the highest-numbered file after a crash.
AppendRecord(r) ==
  /\ Len(written) < MaxRecs
  /\ file' = file \o Encode(r)
  /\ written' = Append(written, r)
  /\ at' = Append(at, Len(file))
  /\ UNCHANGED <<damaged, nTorn>>

\* write_all fails or the process crashes part-way: a strict, non-empty
\* prefix of the encoding reached the file.
Tear(r) ==
  /\ nTorn < MaxTorn
  /\ \E p \in 1..(EntryCells(r) - 1) : file' = file \o SubSeq(Encode(r), 1, p)
  /\ nTorn' = nTorn + 1
  /\ UNCHANGED <<written, at, damaged>>

\* Bit rot in cell c of the j-th complete record: its bytes become junk
\* (a damaged header cell loses its magic).
Corrupt(j) ==
  /\ j \notin damaged
  /\ \E c \in 1..EntryCells(written[j]) : file' = [file EXCEPT ![at[j] + c] = Junk]
  /\ damaged' = damaged \cup {j}
  /\ UNCHANGED <<written, at, nTorn>>

\* Bit rot in the j-th record's header behind an intact magic: its length,
\* CRC or kind field now describes another record h.
DamageHeader(j) ==
  /\ j \notin damaged
  /\ \E h \in Rec \ {written[j]} : file' = [file EXCEPT ![at[j] + 1] = Hdr(h)]
  /\ damaged' = damaged \cup {j}
  /\ UNCHANGED <<written, at, nTorn>>

Next ==
  \/ \E r \in Rec : AppendRecord(r) \/ Tear(r)
  \/ \E j \in 1..Len(written) : Corrupt(j) \/ DamageHeader(j)

Spec == Init /\ [][Next]_vars

\* The undamaged records appended before offset p, in file order.
IntactBefore(p) ==
  LET js == SelectSeq([i \in 1..Len(written) |-> i], LAMBDA j : j \notin damaged /\ at[j] < p)
  IN  [i \in 1..Len(js) |-> written[js[i]]]

Undamaged == IntactBefore(Len(file))

\* s is t with some elements left out, order kept.
RECURSIVE IsSubSeqOf(_, _)
IsSubSeqOf(s, t) ==
  \/ s = <<>>
  \/ /\ t # <<>>
     /\ IF Head(s) = Head(t) THEN IsSubSeqOf(Tail(s), Tail(t)) ELSE IsSubSeqOf(s, Tail(t))

\* The first header (a cell with the magic) whose claimed length runs past
\* the end of the file, or the end when there is none.
FirstOverrun ==
  LET os == {o \in 0..(Len(file) - 1) :
               At(file, o).t = "hdr" /\ o + EntryCells(At(file, o).rec) > Len(file)}
  IN  IF os = {} THEN Len(file) ELSE Min(os)

(***************************************************************************)
(* Recovery of a file (recover_from_file's magic, length and CRC branches) *)
(* returns only records that were appended whole and not damaged since, in *)
(* file order, and loses none of them before the first header that claims  *)
(* to run past the end of the file: a junk cell, a partial record that     *)
(* later records follow, or a damaged length that stays inside the file is *)
(* skipped by resyncing on the next magic.  Records behind an overrunning  *)
(* header may be lost, and are: the code takes any such header for the     *)
(* torn tail and stops the file (wal.rs:310), also in the middle of it.    *)
(***************************************************************************)
RecoveryLosesOnlyAfterOverrun ==
  LET got == RecoverFile(file)
  IN  /\ IsSubSeqOf(got, Undamaged)
      /\ IsPrefix(IntactBefore(FirstOverrun), got)
=============================================================================
