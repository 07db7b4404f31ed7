------------------------------ MODULE ByteDeque ------------------------------
(***************************************************************************)
(* What a net/buffer.h Buffer promises its users: a sequence of bytes that *)
(* is written and read at both ends, integers with the most significant    *)
(* byte first, and searches for line ends.  io is the last call: its name, *)
(* its arguments and what it returned, as sequences of numbers.            *)
(***************************************************************************)
EXTENDS Integers, Sequences

CONSTANTS Base,    \* number of values of a byte (256 in the code)
          Widths,  \* sizes of the integer types, in bytes
          MaxArg,  \* bound: longest string a call passes
          CR, LF   \* the two bytes of a line end

VARIABLES content, io

Byte == 0 .. Base - 1
Strings == UNION {[1 .. n -> Byte] : n \in 0 .. MaxArg}

\* An integer of w bytes is its digits, most significant first.
Ints(w) == [1 .. w -> Byte]

\* Where line ends are, counted from the front.
CRLFs == {i \in 0 .. Len(content) - 2 : content[i + 1] = CR /\ content[i + 2] = LF}
EOLs == {i \in 0 .. Len(content) - 1 : content[i + 1] = LF}

Call(op, arg, ret) == [op |-> op, arg |-> arg, ret |-> ret]
Is(op, arg, ret) == io'.op = op /\ io' = Call(op, arg, ret)
Front(n) == SubSeq(content, 1, n)
Writes(op, arg, c) == Is(op, arg, <<>>) /\ content' = c
Drops(op, n, ret) ==
  /\ n <= Len(content)
  /\ Is(op, <<n>>, ret)
  /\ content' = SubSeq(content, n + 1, Len(content))
\* The first position of S that is not before n; nothing when there is none.
Finds(op, n, S) ==
  /\ \/ Is(op, <<n>>, <<>>) /\ S \cap (n .. Len(content)) = {}
     \/ \E i \in n .. Len(content) :
          /\ Is(op, <<n>>, <<i>>)
          /\ i \in S /\ \A j \in S : n <= j => i <= j
  /\ content' = content
Reads(op, n, ret) == Is(op, <<n>>, ret) /\ content' = content

Init == content = <<>> /\ io = Call("new", <<>>, <<>>)

Next ==
  \/ \E s \in Strings :
       \/ Writes("Append", s, content \o s)
       \/ Writes("Prepend", s, s \o content)
       \/ Is("ReadFd", s, <<Len(s)>>) /\ content' = content \o s
  \/ Is("ReadFd", <<>>, <<-1>>) /\ content' = content
  \/ \E w \in Widths :
       \/ \E x \in Ints(w) :
            \/ Writes("AppendInt", x, content \o x)
            \/ Writes("PrependInt", x, x \o content)
       \/ Drops("ReadInt", w, Front(w))
       \/ w <= Len(content) /\ Reads("PeekInt", w, Front(w))
  \/ \E n \in 0 .. Len(content) :
       \/ Drops("Retrieve", n, <<>>)
       \/ Drops("RetrieveAsString", n, Front(n))
       \/ Writes("Unwrite", <<n>>, Front(Len(content) - n))
       \/ Finds("FindCRLF", n, CRLFs)
       \/ Finds("FindEOL", n, EOLs)
  \/ Writes("Reserve", <<>>, content)

Spec == Init /\ [][Next]_<<content, io>>
=============================================================================
