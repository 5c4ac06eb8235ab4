------------------------------ MODULE ListFormat ------------------------------
(***************************************************************************)
(* The text of a filter-list file and what its reader makes of it.         *)
(*                                                                         *)
(* A list file holds one domain per line.  lists-updater writes it with    *)
(* fmt.Fprintln, doh-server reads it with parseList.  A byte of a file is  *)
(* a Cell <<d, i>>: the i-th byte of the line of domain d, the last one    *)
(* being the newline.  A name that was read is the sequence of its bytes:  *)
(* those of a domain, a piece of one, or a mixture of several.  Domains    *)
(* are normalised names (lower case, fully qualified): both parseList and  *)
(* isRestricted normalise before they store or look up.                    *)
(***************************************************************************)
EXTENDS Integers, SequencesExt

CONSTANTS
    Domain,   \* the (normalised) domain names
    Width,    \* Width[d]: bytes in the line of d, its newline included
    BufSize   \* size of the buffer of bufio.Reader (4096 in the build)

ASSUME FormatAssumption ==
    /\ Width \in [Domain -> Nat \ {0, 1}]
    /\ BufSize \in Nat \ {0}

Cell == Domain \X Nat

Name == Seq(Cell)

(* What one fmt.Fprintln(file, d) writes. *)
Line(d) == [i \in 1..Width[d] |-> <<d, i>>]

(* What is read back from a line of d: its bytes but the newline. *)
NameOf(d) == [i \in 1..Width[d] - 1 |-> <<d, i>>]

(* The bytes written for a sequence of domains. *)
Text(ds) == FlattenSeq([i \in 1..Len(ds) |-> Line(ds[i])])

(***************************************************************************)
(* Writing from offset 0 into a file opened with O_WRONLY|O_CREATE and no  *)
(* O_TRUNC: bytes past the end of what is written stay.                    *)
(***************************************************************************)
Overwrite(old, new) == new \o SubSeq(old, Len(new) + 1, Len(old))

Newline(c) == c[2] = Width[c[1]]

(* A line starts at the first byte and after every newline. *)
LineStart(f, i) == i = 1 \/ Newline(f[i - 1])

(* Bytes i to j are a line: it ends before the next newline or with the file. *)
IsLine(f, i, j) ==
    /\ LineStart(f, i)
    /\ \A b \in i..j : ~Newline(f[b])
    /\ j = Len(f) \/ Newline(f[j + 1])

(***************************************************************************)
(* The bytes of a line that parseList keeps.  reader.ReadLine returns a    *)
(* line that does not fit in the buffer in chunks, and the loop's post     *)
(* statement empties "line" after every chunk, the isPrefix ones included: *)
(* only the last, possibly empty, chunk counts.                            *)
(***************************************************************************)
LastChunk(line) == SubSeq(line, Len(line) - (Len(line) % BufSize) + 1, Len(line))

(* The nonempty lines of a file, as pairs of their first and last byte. *)
TextLine(f) ==
    {p \in (1..Len(f)) \X (1..Len(f)) : p[1] <= p[2] /\ IsLine(f, p[1], p[2])}

(* The names in the map that parseList returns for a file; empty lines are skipped. *)
parseList(f) == {LastChunk(SubSeq(f, p[1], p[2])) : p \in TextLine(f)} \ {<<>>}
===============================================================================
