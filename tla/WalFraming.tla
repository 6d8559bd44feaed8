----------------------------- MODULE WalFraming -----------------------------
(***************************************************************************)
(* The physical format of the write-back WAL (wal.rs).  encode_record cuts *)
(* a record into fragments that fill blocks of BLOCK_SIZE, read_segment    *)
(* finds the records of a file again and goes on at the next block after   *)
(* damage.                                                                 *)
(*                                                                         *)
(* A file is a sequence of cells.  The header of a fragment is two cells,  *)
(* its magic and its fields (version, kind, length, CRC).  A cell of a     *)
(* fragment names the fragment and its place in it, and how it was damaged *)
(* since.  The CRC is taken to find any damage it covers, and the bytes of *)
(* a body are taken to be neither zero nor a magic.                        *)
(***************************************************************************)
EXTENDS Naturals, Sequences

CONSTANT BLOCK_SIZE   \* cells of a block

HEADER_LEN == 2

ASSUME BlockAssumption == BLOCK_SIZE \in Nat /\ BLOCK_SIZE > HEADER_LEN

\* A cell of zero bytes, and the i-th cell of a fragment.
Zero == [frag |-> [kind |-> "none", body |-> <<>>], at |-> 0, hit |-> "no"]
Cell(frag, i) == [frag |-> frag, at |-> i, hit |-> "no"]

StartsRecord(kind) == kind \in {"full", "first"}
EndsRecord(kind) == kind \in {"full", "last"}

EncodeFragment(kind, body) ==
  [i \in 1 .. HEADER_LEN + Len(body) |-> Cell([kind |-> kind, body |-> body], i)]

Smaller(a, b) == IF a < b THEN a ELSE b

(* The loop of encode_record: the cells still to come when `left` cells of *)
(* the body are left and `used` cells of the block are taken.  The first   *)
(* fragment is the one with the whole body left.                           *)
EncodeRecord(body) ==
  LET From[left \in Nat, used \in Nat] ==
        LET free == BLOCK_SIZE - used
            take == Smaller(left, free - HEADER_LEN)
            done == Len(body) - left
            kind == CASE left = Len(body) /\ take = left -> "full"
                      [] left = Len(body) /\ take # left -> "first"
                      [] left # Len(body) /\ take = left -> "last"
                      [] OTHER -> "middle"
            fragment == EncodeFragment(kind, SubSeq(body, done + 1, done + take))
        IN  IF free < HEADER_LEN + 1
            THEN [i \in 1 .. free |-> Zero] \o From[left, 0]
            ELSE IF take = left
                 THEN fragment
                 ELSE fragment
                      \o From[left - take, (used + HEADER_LEN + take) % BLOCK_SIZE]
  IN  From[Len(body), 0]
-----------------------------------------------------------------------------
(* What a disk can do to a cell: change its magic or its body ("flip"), or *)
(* one field of a header.  A changed length is one less, one more or one   *)
(* block more; a zero cell that changes is no longer zero.                 *)
Hits(cell) ==
  IF cell.at = HEADER_LEN
  THEN {"crc", "kind", "version", "longer", "far"}
       \cup (IF cell.frag.body = <<>> THEN {} ELSE {"shorter"})
  ELSE {"flip"}

\* The body length that the fields of a header claim.
Claimed(fields) ==
  CASE fields.hit = "shorter" -> Len(fields.frag.body) - 1
    [] fields.hit = "longer"  -> Len(fields.frag.body) + 1
    [] fields.hit = "far"     -> Len(fields.frag.body) + BLOCK_SIZE
    [] OTHER -> Len(fields.frag.body)

\* What a reader takes from a cell of a body; Junk is no byte of a record.
Junk == <<0, 0>>
Byte(cell) == IF cell.at > HEADER_LEN /\ cell.hit = "no"
              THEN cell.frag.body[cell.at - HEADER_LEN] ELSE Junk

(* The CRC covers the fields and the body.                                 *)
Intact(buf, len) ==
  /\ buf[HEADER_LEN].hit = "no"
  /\ \A i \in HEADER_LEN + 1 .. HEADER_LEN + len :
       buf[i] = Cell(buf[HEADER_LEN].frag, i)

(* decode_fragment on what is left of the file: a fragment, "padding", or  *)
(* why there is none ("torn", "newer", "damaged").                         *)
DecodeFragment(buf) ==
  LET fields == buf[HEADER_LEN]
      answer(what) == [what |-> what, kind |-> "none", body |-> <<>>]
  IN  IF Len(buf) < HEADER_LEN
      THEN answer(IF \A i \in 1 .. Len(buf) : buf[i] = Zero
                  THEN "padding" ELSE "torn")
      ELSE IF ~(buf[1].at = 1 /\ buf[1].hit = "no")
      THEN answer(IF \A i \in 1 .. HEADER_LEN : buf[i] = Zero
                  THEN "padding" ELSE "damaged")
      ELSE IF fields.hit = "version" THEN answer("newer")
      ELSE IF fields.hit = "kind" \/ fields = Zero THEN answer("damaged")
      ELSE IF Len(buf) < HEADER_LEN + Claimed(fields) THEN answer("torn")
      ELSE IF ~Intact(buf, Claimed(fields)) THEN answer("damaged")
      ELSE [what |-> "fragment", kind |-> fields.frag.kind,
            body |-> [i \in 1 .. Claimed(fields) |-> Byte(buf[HEADER_LEN + i])]]

(* Mutant: the block after the next one.                                   *)
SkipBlock(offset) == (offset \div BLOCK_SIZE + 2) * BLOCK_SIZE
NextBlock(offset) == (offset \div BLOCK_SIZE + 1) * BLOCK_SIZE

(* Mutant: the open record survives the damage.                            *)
ReadSplicing(buf, s) ==
  LET d == DecodeFragment(SubSeq(buf, s.offset + 1, Len(buf)))
      open == IF StartsRecord(d.kind) THEN <<d.body>>
              ELSE IF s.pending # <<>> THEN <<s.pending[1] \o d.body>> ELSE <<>>
  IN  CASE d.what = "fragment" ->
             [s EXCEPT !.offset = @ + HEADER_LEN + Len(d.body),
                       !.records = IF EndsRecord(d.kind) THEN @ \o open ELSE @,
                       !.pending = IF EndsRecord(d.kind) THEN <<>> ELSE open]
        [] d.what = "padding" -> [s EXCEPT !.offset = NextBlock(@)]
        [] d.what = "damaged" -> [s EXCEPT !.offset = NextBlock(@),
                                           !.damaged = @ + 1]
        [] OTHER -> [s EXCEPT !.stopped = d.what]

(* One pass of read_segment's loop.  An incomplete record that is open is  *)
(* dropped by damage, and by the start of another.                         *)
ReadNext(buf, s) ==
  LET d == DecodeFragment(SubSeq(buf, s.offset + 1, Len(buf)))
      open == IF StartsRecord(d.kind) THEN <<d.body>>
              ELSE IF s.pending # <<>> THEN <<s.pending[1] \o d.body>> ELSE <<>>
  IN  CASE d.what = "fragment" ->
             [s EXCEPT !.offset = @ + HEADER_LEN + Len(d.body),
                       !.records = IF EndsRecord(d.kind) THEN @ \o open ELSE @,
                       !.pending = IF EndsRecord(d.kind) THEN <<>> ELSE open]
        [] d.what = "padding" -> [s EXCEPT !.offset = NextBlock(@)]
        [] d.what = "damaged" -> [s EXCEPT !.offset = NextBlock(@),
                                           !.pending = <<>>,
                                           !.damaged = @ + 1]
        [] OTHER -> [s EXCEPT !.stopped = d.what]

(* The reader's state after n passes.                                      *)
Reading(buf, n) ==
  LET start == [offset |-> 0, pending |-> <<>>, records |-> <<>>,
                damaged |-> 0, stopped |-> "no"]
      After[k \in Nat] ==
        IF k = 0 THEN start
        ELSE LET s == After[k - 1]
             IN  IF s.offset >= Len(buf) \/ s.stopped # "no" THEN s
                 ELSE ReadNext(buf, s)
  IN  After[n]

(* Mutant: the record that is open at the end is returned as well.         *)
ReadOpen(buf) ==
  LET s == Reading(buf, Len(buf)) IN [s EXCEPT !.records = @ \o s.pending]

(* The loop: every pass moves on, so it ends within Len(buf) passes.       *)
ReadSegment(buf) == Reading(buf, Len(buf))
=============================================================================
