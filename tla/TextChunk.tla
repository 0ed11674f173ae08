------------------------------ MODULE TextChunk ------------------------------
(***************************************************************************)
(* The text of a document as inf-text-chunk.c keeps it: a sequence of      *)
(* segments, one for every run of text by the same author.  Positions and  *)
(* lengths of a chunk count characters, those within a segment count       *)
(* bytes, of which a character may take several.  inf-text-default-buffer.c*)
(* holds a chunk; inf-text-session.c sends one to who synchronizes.        *)
(***************************************************************************)
EXTENDS Integers, Sequences, FiniteSets, SequencesExt

CONSTANTS Authors, Chars,
          Code,        \* [Chars -> sequences of bytes], <<first, continued ...>>
          PieceBytes,  \* what a synchronization sends at once (1024 bytes)
          MaxLength, MaxInserted

VARIABLES chunk,     \* the chunk of the buffer
          modified,  \* the flag of the buffer
          content    \* what it stands for: <<author, character>> one by one

TextChunkAssumption ==
  /\ \A c \in Chars : Code[c] # <<>> /\ Len(Code[c]) <= PieceBytes
  /\ \A c, d \in Chars : \A i \in DOMAIN Code[d] : c # d => Code[c][1] # Code[d][i]

Segment(author, text, offset) == [author |-> author, text |-> text, offset |-> offset]
Empty == [segments |-> <<>>, length |-> 0]

\* Conversion of characters to bytes and back.
Encoded(chars) == FlattenSeq([i \in DOMAIN chars |-> Code[chars[i]]])
IsFirst(byte) == \E c \in Chars : Code[c][1] = byte
Decoded(text) ==
  LET firsts == SelectSeq(text, IsFirst)
  IN  [i \in DOMAIN firsts |-> CHOOSE c \in Chars : Code[c][1] = firsts[i]]

------------------------------------------------------------------------------
(* Chunks *)

NextOffset(c, i) == IF i = Len(c.segments) THEN c.length ELSE c.segments[i + 1].offset

\* How many bytes the first n characters of a text take.
BytesOf(text, n) == Len(Encoded(SubSeq(Decoded(text), 1, n)))

\* The last segment that does not start after pos, and the byte of pos in it.
GetSegment(c, pos) ==
  LET found == CHOOSE i \in DOMAIN c.segments :
                 /\ c.segments[i].offset <= pos
                 /\ \A j \in DOMAIN c.segments : j > i => c.segments[j].offset > pos
      s == c.segments[found]
  IN  [at |-> found,
       index |-> IF pos = NextOffset(c, found) THEN Len(s.text)
                 ELSE BytesOf(s.text, pos - s.offset)]

Truncated(s, index) == [s EXCEPT !.text = SubSeq(@, 1, index)]
From(s, index) == SubSeq(s.text, index + 1, Len(s.text))
Shifted(segments, by) == [i \in DOMAIN segments |-> [segments[i] EXCEPT !.offset = @ + by]]
UpTo(c, i) == SubSeq(c.segments, 1, i)
Beyond(c, i) == SubSeq(c.segments, i + 1, Len(c.segments))

\* Text between two segments is for the one before it, unless the other has its author.
InsertPlace(c, offset, author) ==
  LET found == GetSegment(c, offset)
  IN  IF c.segments[found.at].author # author /\ offset > 0 /\ found.index = 0
      THEN [at |-> found.at - 1, index |-> Len(c.segments[found.at - 1].text)]
      ELSE found

InsertText(c, offset, text, length, author) ==
  LET place == InsertPlace(c, offset, author)
      s == c.segments[place.at]
      new == Segment(author, text, offset)
      before == UpTo(c, place.at - 1)
      after == Shifted(Beyond(c, place.at), length)
      changed ==
        CASE s.author = author ->
               <<[s EXCEPT !.text = SubSeq(@, 1, place.index) \o text \o From(s, place.index)]>>
          [] s.author # author /\ place.index = Len(s.text) -> <<s, new>>
          [] s.author # author /\ place.index = 0 -> <<new>> \o Shifted(<<s>>, length)
          [] OTHER -> <<Truncated(s, place.index), new>> \o
                      Shifted(<<Segment(s.author, From(s, place.index), offset)>>, length)
  IN  IF c.length = 0
      THEN [segments |-> Append(c.segments, Segment(author, text, 0)), length |-> length]
      ELSE [segments |-> before \o changed \o after, length |-> c.length + length]

\* Between two segments, or at an end: the first and the last of the inserted
\* segments may each be merged with its neighbour.
InsertBetween(c, offset, t, found) ==
  LET left == IF found.index = 0 THEN found.at - 1 ELSE found.at
      right == IF offset = c.length THEN left + 1 ELSE found.at
      first == Head(t.segments)
      last == t.segments[Len(t.segments)]
      mergeFirst == offset > 0 /\ c.segments[left].author = first.author
      mergeLast == offset < c.length /\ c.segments[right].author = last.author
      before == IF mergeFirst
                THEN [UpTo(c, left) EXCEPT ![left].text = @ \o first.text] ELSE UpTo(c, left)
      new == Shifted(SubSeq(t.segments, IF mergeFirst THEN 2 ELSE 1,
                            Len(t.segments) - IF mergeLast THEN 1 ELSE 0), offset)
      after == IF mergeLast
               THEN <<Segment(last.author, last.text \o c.segments[right].text, offset + last.offset)>>
                    \o Shifted(Beyond(c, right), t.length)
               ELSE Shifted(Beyond(c, left), t.length)
  IN  before \o new \o after

\* Within a segment, which is split.
InsertWithin(c, offset, t, found) ==
  LET s == c.segments[found.at]
      first == Head(t.segments)
      last == t.segments[Len(t.segments)]
      mergeFirst == s.author = first.author
      mergeLast == s.author = last.author
      cut == Truncated(s, found.index)
      rest == IF mergeLast
              THEN Segment(s.author, last.text \o From(s, found.index), offset + last.offset)
              ELSE Segment(s.author, From(s, found.index), offset + t.length)
      new == Shifted(SubSeq(t.segments, IF mergeFirst THEN 2 ELSE 1,
                            Len(t.segments) - IF mergeLast THEN 1 ELSE 0), offset)
  IN  UpTo(c, found.at - 1)
      \o <<IF mergeFirst THEN [cut EXCEPT !.text = @ \o first.text] ELSE cut>>
      \o new \o <<rest>> \o Shifted(Beyond(c, found.at), t.length)

InsertChunk(c, offset, t) ==
  LET found == GetSegment(c, offset)
      first == Head(t.segments)
      between == found.index = 0 \/ offset = c.length
  IN  IF c.length = 0 \/ t.length = 0
      THEN [segments |-> c.segments \o t.segments, length |-> c.length + t.length]
      ELSE IF Len(t.segments) = 1
      THEN InsertText(c, offset, first.text, t.length, first.author)
      ELSE [segments |-> IF between THEN InsertBetween(c, offset, t, found)
                         ELSE InsertWithin(c, offset, t, found),
            length |-> c.length + t.length]

\* In the middle: what is left at both ends of the gap is merged when it is one author's.
EraseMiddle(c, begin, length, first, last) ==
  LET one == IF first.index = 0
             THEN [at |-> first.at - 1, index |-> Len(c.segments[first.at - 1].text)] ELSE first
      s == Truncated(c.segments[one.at], one.index)
      t == c.segments[last.at]
  IN  UpTo(c, one.at - 1) \o
      (IF s.author = t.author
       THEN <<[s EXCEPT !.text = @ \o From(t, last.index)]>>
       ELSE <<s, Segment(t.author, From(t, last.index), begin)>>)
      \o Shifted(Beyond(c, last.at), -length)

\* Up to the end, or all; from the beginning.
EraseEnd(c, first) ==
  IF first.index > 0
  THEN Append(UpTo(c, first.at - 1), Truncated(c.segments[first.at], first.index))
  ELSE UpTo(c, first.at - 1)
EraseBeginning(c, length, last) ==
  LET t == c.segments[last.at]
  IN  IF last.index > 0
      THEN <<Segment(t.author, From(t, last.index), 0)>> \o Shifted(Beyond(c, last.at), -length)
      ELSE Shifted(Beyond(c, last.at - 1), -length)

Erase(c, begin, length) ==
  LET first == GetSegment(c, begin)
      last == GetSegment(c, begin + length)
  IN  IF c.length = 0 \/ length = 0 THEN c
      ELSE [segments |-> CASE begin > 0 /\ begin + length < c.length ->
                                EraseMiddle(c, begin, length, first, last)
                           [] begin + length = c.length -> EraseEnd(c, first)
                           [] OTHER -> EraseBeginning(c, length, last),
            length |-> c.length - length]

Substring(c, begin, length) ==
  LET first == GetSegment(c, begin)
      found == GetSegment(c, begin + length)
      last == IF found.index = 0
              THEN [at |-> found.at - 1, index |-> Len(c.segments[found.at - 1].text)] ELSE found
      Cut(i) ==
        LET s == c.segments[i]
            from == IF i = first.at THEN first.index ELSE 0
            to == IF i = last.at THEN last.index ELSE Len(s.text)
        IN  Segment(s.author, SubSeq(s.text, from + 1, to),
                    IF i = first.at THEN 0 ELSE s.offset - begin)
  IN  IF c.length = 0 \/ length = 0 THEN Empty
      ELSE [segments |-> [k \in 1 .. last.at - first.at + 1 |-> Cut(first.at + k - 1)],
            length |-> length]

TextOf(c) == FlattenSeq([i \in DOMAIN c.segments |-> c.segments[i].text])

\* Authors are not compared.
Equal(c, d) ==
  /\ Len(c.segments) = Len(d.segments)
  /\ \A i \in DOMAIN c.segments : c.segments[i].text = d.segments[i].text

\* The number of characters of a segment, for who iterates over them.
IterLength(c, i) == NextOffset(c, i) - c.segments[i].offset

------------------------------------------------------------------------------
(* Synchronization: segments are sent in pieces of whole characters *)

Pieces(s) ==
  LET fits(text) ==
        LET n == CHOOSE n \in 1 .. Len(text) :
                   /\ n <= Len(Decoded(text)) /\ BytesOf(text, n) <= PieceBytes
                   /\ n = Len(Decoded(text)) \/ BytesOf(text, n + 1) > PieceBytes
        IN  BytesOf(text, n)
      split[left \in 0 .. Len(s.text)] ==
        IF left = 0 THEN <<>>
        ELSE LET text == From(s, Len(s.text) - left)
                 bytes == fits(text)
             IN  <<[author |-> s.author, text |-> SubSeq(text, 1, bytes)]>> \o split[left - bytes]
  IN  split[Len(s.text)]
ToSync(c) == FlattenSeq([i \in DOMAIN c.segments |-> Pieces(c.segments[i])])

\* Every piece is inserted at the end of the buffer.
ProcessSync(c, piece) ==
  LET length == Len(Decoded(piece.text))
  IN  InsertChunk(c, c.length, InsertText(Empty, 0, piece.text, length, piece.author))
Synchronized(c) == FoldLeft(ProcessSync, Empty, ToSync(c))

------------------------------------------------------------------------------
(* What a chunk stands for *)

Flat(c) ==
  FlattenSeq([i \in DOMAIN c.segments |->
    LET chars == Decoded(c.segments[i].text)
    IN  [k \in DOMAIN chars |-> <<c.segments[i].author, chars[k]>>]])

\* The chunk of a content, put together character by character.
Made(flat) ==
  LET made[n \in 0 .. Len(flat)] ==
        IF n = 0 THEN Empty
        ELSE InsertText(made[n - 1], n - 1, Code[flat[n][2]], 1, flat[n][1])
  IN  made[Len(flat)]

Contents(n) == UNION {[1 .. k -> Authors \X Chars] : k \in 1 .. n}

------------------------------------------------------------------------------
(* The default buffer *)

ChunkInit == chunk = Empty /\ modified = FALSE /\ content = <<>>

BufferInsertChunk == \E new \in Contents(MaxInserted), pos \in 0 .. Len(content) :
  /\ Len(content) + Len(new) <= MaxLength
  /\ chunk' = InsertChunk(chunk, pos, Made(new))
  /\ modified' = TRUE
  /\ content' = SubSeq(content, 1, pos) \o new \o SubSeq(content, pos + 1, Len(content))

BufferEraseText == \E pos \in 0 .. Len(content) - 1 : \E len \in 1 .. Len(content) - pos :
  /\ chunk' = Erase(chunk, pos, len)
  /\ modified' = TRUE
  /\ content' = SubSeq(content, 1, pos) \o SubSeq(content, pos + len + 1, Len(content))

BufferSetModified == \E value \in BOOLEAN :
  value # modified /\ modified' = value /\ UNCHANGED <<chunk, content>>

ChunkNext == BufferInsertChunk \/ BufferEraseText \/ BufferSetModified

------------------------------------------------------------------------------
(* Properties *)

\* One segment for every run, with the offset at which it is.
Canonical(c) ==
  /\ \A i \in DOMAIN c.segments :
       /\ c.segments[i].text # <<>>
       /\ i > 1 => c.segments[i].author # c.segments[i - 1].author
       /\ IterLength(c, i) = Len(Decoded(c.segments[i].text))
  /\ c.segments # <<>> => c.segments[1].offset = 0
  /\ c.length = Len(Flat(c))

\* Whatever is inserted and erased where: the segments are exactly the runs of
\* the text, for every part of it, too, and for who is sent it in pieces.
ChunkExact ==
  /\ Canonical(chunk) /\ Flat(chunk) = content
  /\ Decoded(TextOf(chunk)) = [i \in DOMAIN content |-> content[i][2]]
  /\ Synchronized(chunk) = chunk
  /\ \A begin \in 0 .. Len(content) : \A len \in 0 .. Len(content) - begin :
       LET part == Substring(chunk, begin, len)
       IN  Canonical(part) /\ Flat(part) = SubSeq(content, begin + 1, begin + len)

\* Chunks that are equal have "the same text and the same segments were written by
\* the same authors", inf_text_chunk_equal promises.
EqualAuthors == \A n \in 1 .. Len(content), a \in Authors :
  LET other == Made([i \in DOMAIN content |-> IF i <= n THEN <<a, content[i][2]>> ELSE content[i]])
  IN  Equal(chunk, other) => Flat(other) = content
==============================================================================
