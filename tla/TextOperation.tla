---------------------------- MODULE TextOperation ----------------------------
(***************************************************************************)
(* The operations on a text buffer and their transformation:               *)
(* InfAdoptedOperation and its implementations in libinftext.              *)
(*                                                                         *)
(* A text is a sequence of characters.  An operation is a record:          *)
(*   insert   pos, text                                                    *)
(*   delete   pos, text            (default delete: knows what it erases)  *)
(*   rdelete  pos, len, recon, offset  (remote delete: knows the length,   *)
(*            and in recon the pieces concurrent deletes already erased,   *)
(*            each with its position in the text the request was made for) *)
(*   split    first, second        (both relative to the same state)       *)
(*   noop                                                                  *)
(*   abort    stands for an assertion that failed                          *)
(***************************************************************************)
EXTENDS Integers, Sequences, SequencesExt

Insert(pos, text) == [kind |-> "insert", pos |-> pos, text |-> text]
Delete(pos, text) == [kind |-> "delete", pos |-> pos, text |-> text]
RemoteDelete(pos, len, recon, offset) ==
  [kind |-> "rdelete", pos |-> pos, len |-> len, recon |-> recon, offset |-> offset]
Noop  == [kind |-> "noop"]
Abort == [kind |-> "abort"]

Split(first, second) ==
  IF "abort" \in {first.kind, second.kind} THEN Abort
  ELSE [kind |-> "split", first |-> first, second |-> second]

IsDelete(op) == op.kind \in {"delete", "rdelete"}

Length(op) == IF op.kind = "rdelete" THEN op.len ELSE Len(op.text)

MovedTo(op, pos) == [op EXCEPT !.pos = pos]

\* length characters of text that follow the first begin ones
Substring(text, begin, length) == SubSeq(text, begin + 1, begin + length)

Erased(text, begin, length) ==
  SubSeq(text, 1, begin) \o SubSeq(text, begin + length + 1, Len(text))

------------------------------------------------------------------------------
(* Flags *)

RECURSIVE AffectsBuffer(_), IsReversible(_)

AffectsBuffer(op) ==
  IF op.kind = "split" THEN AffectsBuffer(op.first) \/ AffectsBuffer(op.second)
  ELSE op.kind # "noop"

IsReversible(op) ==
  IF op.kind = "split" THEN IsReversible(op.first) /\ IsReversible(op.second)
  ELSE op.kind # "rdelete"

------------------------------------------------------------------------------
(* Concurrency ids: which of two inserts at one position moves *)

NoId  == "NONE"
Self  == "SELF"     \* this operation moves behind the other one
Other == "OTHER"    \* the other operation moves

Opposite(cid) == CASE cid = Self -> Other [] cid = Other -> Self [] OTHER -> NoId

RECURSIVE NeedConcurrencyId(_, _), GetConcurrencyId(_, _)

\* An insert only looks at an insert, not into the parts of a split.
NeedConcurrencyId(op, against) ==
  IF op.kind = "split"
  THEN NeedConcurrencyId(op.first, against) \/ NeedConcurrencyId(op.second, against)
  ELSE op.kind = "insert" /\ against.kind = "insert" /\ op.pos = against.pos

GetConcurrencyId(op, against) ==
  CASE op.kind = "split" ->
         LET ids == {GetConcurrencyId(op.first, against),
                     GetConcurrencyId(op.second, against)} \ {NoId}
         IN  IF ids \in {{Self}, {Other}} THEN CHOOSE id \in ids : TRUE ELSE NoId
    [] op.kind # "split" /\ against.kind = "split" ->
         Opposite(GetConcurrencyId(against, op))
    [] op.kind = "insert" /\ against.kind = "insert" ->
         IF op.pos < against.pos THEN Other
         ELSE IF op.pos > against.pos THEN Self ELSE NoId
    [] OTHER -> NoId

------------------------------------------------------------------------------
(* The pieces of text a remote delete has lost to concurrent deletes *)

\* recon_feed: merges text into the pieces.  position counts in what the
\* delete still covers; text is cut wherever a known piece comes in between.
Feed(recon, position, text) ==
  LET start(s) == position + s.fed + s.len
      Take(s, length) ==
        [s EXCEPT !.out = Append(@, [pos |-> start(s),
                                     text |-> Substring(text, s.fed, length)]),
                  !.fed = @ + length]
      Gap(s, piece) == Min({piece.pos - start(s), Len(text) - s.fed})
      Step(s, piece) ==
        LET t == IF start(s) < piece.pos /\ s.fed < Len(text)
                 THEN Take(s, Gap(s, piece)) ELSE s
        IN  [t EXCEPT !.out = Append(@, piece), !.len = @ + Len(piece.text)]
      fed[i \in 0 .. Len(recon)] == IF i = 0 THEN [out |-> <<>>, fed |-> 0, len |-> 0]
                                    ELSE Step(fed[i - 1], recon[i])
      end == fed[Len(recon)]
  IN  IF end.fed < Len(text) THEN Take(end, Len(text) - end.fed).out ELSE end.out

------------------------------------------------------------------------------
(* Transformation: the effect of op once against has been applied *)

TransformInsertInsert(op, against, cid) ==
  CASE op.pos < against.pos \/ (op.pos = against.pos /\ cid = Other) -> op
    [] op.pos > against.pos \/ (op.pos = against.pos /\ cid = Self) ->
         MovedTo(op, op.pos + Length(against))
    [] OTHER -> Abort

TransformInsertDelete(op, against) ==
  CASE op.pos >= against.pos + Length(against) -> MovedTo(op, op.pos - Length(against))
    [] op.pos < against.pos -> op
    [] OTHER -> MovedTo(op, against.pos)

\* Mutant: the second part forgets the pieces that the first part has lost.
SplitDelete_Offset(op, at, len) ==
  IF op.kind = "delete"
  THEN Split(Delete(op.pos, Substring(op.text, 0, at)),
             Delete(op.pos + at + len, Substring(op.text, at, Len(op.text) - at)))
  ELSE Split(RemoteDelete(op.pos, at, op.recon, op.offset),
             RemoteDelete(op.pos + at + len, op.len - at, <<>>, op.offset))

\* transform_split: text of length len was inserted inside, at offset at.
\* A remote delete deals its known pieces out to the two parts.
SplitDelete(op, at, len) ==
  LET behind == op.pos + at + len
      Deal(s, piece) ==
        IF piece.pos - s.len <= at
        THEN [s EXCEPT !.first = Append(@, piece), !.len = @ + Len(piece.text)]
        ELSE [s EXCEPT !.second = Append(@, [piece EXCEPT !.pos = @ - (at + s.len)])]
      deal[i \in 0 .. Len(op.recon)] ==
        IF i = 0 THEN [first |-> <<>>, second |-> <<>>, len |-> 0]
        ELSE Deal(deal[i - 1], op.recon[i])
      dealt == deal[Len(op.recon)]
  IN  IF op.kind = "delete"
      THEN Split(Delete(op.pos, Substring(op.text, 0, at)),
                 Delete(behind, Substring(op.text, at, Len(op.text) - at)))
      ELSE Split(RemoteDelete(op.pos, at, dealt.first, op.offset),
                 RemoteDelete(behind, op.len - at, dealt.second,
                              op.offset + at + dealt.len))

TransformDeleteInsert(op, against) ==
  CASE against.pos >= op.pos + Length(op) -> op
    [] against.pos <= op.pos -> MovedTo(op, op.pos + Length(against))
    [] OTHER -> SplitDelete(op, against.pos - op.pos, Length(against))

\* Mutant: remembers the start of the other deletion, not the common part.
Overlap_WrongPart(op, against, pos, begin, other_begin, length) ==
  IF op.kind = "delete" THEN Delete(pos, Erased(op.text, begin, length))
  ELSE RemoteDelete(pos, op.len - length,
                    Feed(op.recon, begin, Substring(against.text, 0, length)), op.offset)

\* transform_overlap: length characters, from begin on in op and from
\* other_begin on in against, are already erased.
Overlap(op, against, pos, begin, other_begin, length) ==
  CASE op.kind = "delete" -> Delete(pos, Erased(op.text, begin, length))
    [] op.kind = "rdelete" /\ against.kind = "delete" ->
         RemoteDelete(pos, op.len - length,
                      Feed(op.recon, begin, Substring(against.text, other_begin, length)),
                      op.offset)
    [] OTHER -> Abort

\* The common part starts at the later of both positions.
TransformDeleteDelete(op, against) ==
  LET start == Max({op.pos, against.pos})
      end   == Min({op.pos + Length(op), against.pos + Length(against)})
  IN CASE op.pos + Length(op) <= against.pos -> op
       [] against.pos + Length(against) <= op.pos /\ against.pos < op.pos + Length(op) ->
            MovedTo(op, op.pos - Length(against))
       [] OTHER -> Overlap(op, against, Min({op.pos, against.pos}),
                           start - op.pos, start - against.pos, end - start)

TransformPlain(op, against, cid) ==
  CASE op.kind = "noop" /\ against.kind # "abort" -> op
    [] op.kind = "insert" /\ against.kind = "insert" ->
         TransformInsertInsert(op, against, cid)
    [] op.kind = "insert" /\ IsDelete(against) -> TransformInsertDelete(op, against)
    [] IsDelete(op) /\ against.kind = "insert" -> TransformDeleteInsert(op, against)
    [] IsDelete(op) /\ IsDelete(against) -> TransformDeleteDelete(op, against)
    [] OTHER -> Abort

RECURSIVE Transform(_, _, _)

\* The second part of a split is brought behind its first part without a
\* concurrency id.
Transform(op, against, cid) ==
  IF against.kind = "split"
  THEN LET behind == Transform(against.second, against.first, NoId)
       IN  Transform(Transform(op, against.first, cid), behind, cid)
  ELSE IF op.kind = "split"
  THEN Split(Transform(op.first, against, cid), Transform(op.second, against, cid))
  ELSE TransformPlain(op, against, cid)

InSequence(op) == Transform(op.second, op.first, NoId)

------------------------------------------------------------------------------
(* Applying, reverting and making reversible *)

RECURSIVE CanApply(_), Apply(_, _), Revert(_), Unsplit(_), MakeReversible(_, _, _)

\* No assertion fails when op is applied.
CanApply(op) ==
  IF op.kind = "split" THEN CanApply(op.first) /\ CanApply(InSequence(op))
  ELSE op.kind # "abort"

Apply(op, buffer) ==
  CASE op.kind = "insert" -> Substring(buffer, 0, op.pos) \o op.text \o
                             Substring(buffer, op.pos, Len(buffer) - op.pos)
    [] IsDelete(op) -> Erased(buffer, op.pos, Length(op))
    [] op.kind = "split" -> Apply(InSequence(op), Apply(op.first, buffer))
    [] op.kind = "noop" -> buffer

Revert(op) ==
  CASE op.kind = "insert" -> Delete(op.pos, op.text)
    [] op.kind = "delete" -> Insert(op.pos, op.text)
    [] op.kind = "split" -> Split(Revert(op.first), Revert(InSequence(op)))
    [] OTHER -> Abort

\* The parts of a split, first to last.
Unsplit(op) ==
  IF op.kind = "split" THEN Unsplit(op.first) \o Unsplit(op.second) ELSE <<op>>

\* What a part of a translated remote delete erases, together with what it lost
\* on the way, placed in the text that the request as it was issued deletes.
Placed(pieces, offset) ==
  [i \in DOMAIN pieces |-> [pieces[i] EXCEPT !.pos = @ + offset]]

Pieces(op, buffer) ==
  Placed(IF op.len = 0 THEN op.recon
         ELSE Feed(op.recon, 0, Substring(buffer, op.pos, op.len)), op.offset)

AllPieces(parts, buffer) == FlattenSeq([i \in DOMAIN parts |-> Pieces(parts[i], buffer)])

\* The default delete that op becomes: the pieces have to follow one another
\* without a gap.
Completed(op, pieces) ==
  LET text[i \in 0 .. Len(pieces)] ==
        IF i = 0 THEN <<>> ELSE text[i - 1] \o pieces[i].text
  IN  IF \A i \in DOMAIN pieces : pieces[i].pos = Len(text[i - 1])
      THEN Delete(op.pos, text[Len(pieces)]) ELSE Abort

Reconstruct(op, parts, buffer) ==
  IF \A i \in DOMAIN parts : parts[i].kind = "rdelete"
  THEN Completed(op, AllPieces(parts, buffer)) ELSE Abort

MakeReversible(op, with, buffer) ==
  CASE op.kind = "split" -> Split(MakeReversible(op.first, with, buffer),
                                  MakeReversible(op.second, with, buffer))
    [] op.kind = "rdelete" -> Reconstruct(op, Unsplit(with), buffer)
    [] OTHER -> Abort
==============================================================================
