--------------------------- MODULE SnpVaBitstream ---------------------------
(***************************************************************************)
(* VaBitstream: the bit writer for packed H.264 headers and the three      *)
(* headers it builds.  A word of the buffer is the sequence of its 32      *)
(* bits, highest first.  The words are kept in the order of the host       *)
(* (little endian) while they are filled and are swapped when full.        *)
(*                                                                         *)
(* What the language leaves open is the field `junk` of a stream, 0 or 1:  *)
(* the bits realloc() adds, and whether a shift by 32 leaves the word      *)
(* alone (1, as x86 does) or clears it.                                    *)
(***************************************************************************)
EXTENDS Integers, SequencesExt

CONSTANT Stepping  (* bound: BITSTREAM_ALLOCATE_STEPPING, words per allocation *)

ASSUME SteppingAssumption == Stepping \in Nat \ {0}

Repeat(bit, n) == [i \in 1 .. n |-> bit]

(* The lowest n bits of v, which is below 2^31. *)
Bit(v, k) == IF k > 30 THEN 0 ELSE (v \div 2^k) % 2
Bits(v, n) == [i \in 1 .. n |-> Bit(v, n - i)]

(* word << n and word >> n on unsigned int, and word | other. *)
ShiftLeft(word, n, junk) ==
  IF n = 32 THEN (IF junk = 1 THEN word ELSE Repeat(0, 32))
  ELSE SubSeq(word, n + 1, 32) \o Repeat(0, n)

ShiftRight(word, n) == Repeat(0, n) \o SubSeq(word, 1, 32 - n)

Or(word, other) == [i \in 1 .. 32 |-> IF word[i] = 1 THEN 1 ELSE other[i]]

va_swap32(word) ==
  SubSeq(word, 25, 32) \o SubSeq(word, 17, 24) \o SubSeq(word, 9, 16) \o SubSeq(word, 1, 8)

(* bitstream_start(): zeroed words. *)
Start(junk) ==
  [buffer |-> [i \in 0 .. Stepping - 1 |-> Repeat(0, 32)], bit_offset |-> 0, junk |-> junk]

Room(bs) == Cardinality(DOMAIN bs.buffer)

(* realloc() when the last word is full. *)
Grown(bs, pos) ==
  IF pos + 1 = Room(bs)
    THEN [i \in 0 .. Room(bs) + Stepping - 1 |->
            IF i < Room(bs) THEN bs.buffer[i] ELSE Repeat(bs.junk, 32)]
    ELSE bs.buffer

(* Mutant: the next word starts empty.                                     *)
SpilledNothing(buffer, pos, val) == buffer

(* buffer[pos + 1] = val: also the bits of val that did fit go to the next *)
(* word; they are shifted out of it later.                                 *)
Spilled(buffer, pos, val) == [buffer EXCEPT ![pos + 1] = Bits(val, 32)]

(* bitstream_put_ui() *)
PutUi(bs, val, size) ==
  LET pos == bs.bit_offset \div 32
      left == 32 - (bs.bit_offset % 32)
      word == bs.buffer[pos]
      low == Or(ShiftLeft(word, size, bs.junk), Bits(val, 32))
      full == va_swap32(Or(ShiftLeft(word, left, bs.junk),
                           ShiftRight(Bits(val, 32), size - left)))
  IN IF size = 0 THEN bs
     ELSE [bs EXCEPT
            !.bit_offset = @ + size,
            !.buffer = IF left > size THEN [@ EXCEPT ![pos] = low]
                       ELSE Spilled([Grown(bs, pos) EXCEPT ![pos] = full], pos, val)]

(* The bits that the loop of bitstream_put_ue() counts. *)
BitLength(n) == Cardinality({i \in 0 .. 30 : 2^i <= n})

PutUe(bs, val) ==
  LET size == BitLength(val + 1) IN PutUi(PutUi(bs, 0, size - 1), val + 1, size)

PutSe(bs, val) == PutUe(bs, IF val <= 0 THEN -2 * val ELSE 2 * val - 1)

(* bitstream_byte_aligning(). *)
ByteAlign(bs, bit) ==
  LET left == 8 - (bs.bit_offset % 8)
  IN IF left = 8 THEN bs ELSE PutUi(bs, IF bit = 1 THEN 2^left - 1 ELSE 0, left)

(* bitstream_end(): the last word, if it is not full. *)
End(bs) ==
  LET pos == bs.bit_offset \div 32
      offset == bs.bit_offset % 32
  IN IF offset = 0 THEN bs
     ELSE [bs EXCEPT !.buffer[pos] = va_swap32(ShiftLeft(@, 32 - offset, bs.junk))]

-----------------------------------------------------------------------------
(* The headers, as the sequences of syntax elements that are put.          *)

u(v, n) == [type |-> "u", value |-> v, size |-> n]
ue(v) == [type |-> "ue", value |-> v, size |-> 0]
se(v) == [type |-> "se", value |-> v, size |-> 0]
Align(bit) == [type |-> "align", value |-> bit, size |-> 0]

Flag(b) == u(IF b THEN 1 ELSE 0, 1)
If(b, elements) == IF b THEN elements ELSE << >>

Put(bs, e) ==
  CASE e.type = "u" -> PutUi(bs, e.value, e.size)
    [] e.type = "ue" -> PutUe(bs, e.value)
    [] e.type = "se" -> PutSe(bs, e.value)
    [] e.type = "align" -> ByteAlign(bs, e.value)

rbsp_trailing_bits == << u(1, 1), Align(0) >>

(* nal_start_code_prefix() and nal_header(). *)
Nal(refIdc, type) == << u(1, 32), u(0, 1), u(refIdc, 2), u(type, 5) >>

(* sps_rbsp(), without the disabled VUI. *)
sps_rbsp(s) ==
  << u(s.profile_idc, 8) >>
    \o [i \in 1 .. 4 |-> u((s.constraintSetFlag \div 2^(i - 1)) % 2, 1)]
    \o << u(0, 4), u(s.level_idc, 8), ue(s.seq_parameter_set_id) >>
    \o If(s.profile_idc = 100, << ue(1), ue(0), ue(0), u(0, 1), u(0, 1) >>)
    \o << ue(s.log2_max_frame_num_minus4), ue(0), ue(s.log2_max_pic_order_cnt_lsb_minus4),
          ue(s.max_num_ref_frames), u(0, 1), ue(s.picture_width_in_mbs - 1),
          ue(s.picture_height_in_mbs - 1), u(1, 1), Flag(s.direct_8x8_inference_flag),
          Flag(s.crop # << >>) >>
    \o [i \in DOMAIN s.crop |-> ue(s.crop[i])]
    \o << u(0, 1) >> \o rbsp_trailing_bits

pps_rbsp(p) ==
  << ue(p.pic_parameter_set_id), ue(p.seq_parameter_set_id), Flag(p.cabac), u(0, 1), ue(0),
     ue(p.num_ref_idx_l0_active_minus1), ue(p.num_ref_idx_l1_active_minus1), u(0, 1),
     u(p.weighted_bipred_idc, 2), se(p.pic_init_qp - 26), se(0), se(0), Flag(p.deblocking),
     u(0, 1), u(0, 1), Flag(p.transform_8x8_mode_flag), u(0, 1),
     se(p.second_chroma_qp_index_offset) >>
    \o rbsp_trailing_bits

(* slice_header() for slice types "P", "B" and "I"; the asserts rule       *)
(* weighted prediction, fields and other picture order counts out.         *)
SliceType == [P |-> 0, B |-> 1, I |-> 2]

Override(s, lists) ==
  << Flag(s.override # << >>) >>
    \o If(s.override # << >>, [i \in 1 .. lists |-> ue(s.override[i])])

slice_header(s) ==
  << ue(s.macroblock_address), ue(SliceType[s.slice_type]), ue(s.pic_parameter_set_id),
     u(s.frame_num, s.log2_max_frame_num_minus4 + 4) >>
    \o If(s.idr, << ue(s.idr_pic_id) >>)
    \o << u(s.TopFieldOrderCnt, s.log2_max_pic_order_cnt_lsb_minus4 + 4) >>
    \o If(s.slice_type = "P", Override(s, 1) \o << u(0, 1) >>)
    \o If(s.slice_type = "B", << Flag(s.direct_spatial) >> \o Override(s, 2)
                                \o << u(0, 1), u(0, 1) >>)
    \o If(s.reference, IF s.idr THEN << u(0, 1), u(0, 1) >> ELSE << u(0, 1) >>)
    \o If(s.cabac /\ s.slice_type # "I", << ue(s.cabac_init_idc) >>)
    \o << se(s.slice_qp_delta) >>
    \o If(s.deblocking,
          << ue(s.disable_deblocking_filter_idc) >>
            \o If(s.disable_deblocking_filter_idc # 1,
                  << se(s.alpha_c0_offset_div2), se(s.beta_offset_div2) >>))
    \o If(s.cabac, << Align(1) >>)

(* build_packed_seq_buffer(), ..._pic_buffer() and ..._slice_buffer(). *)
SliceNal(s) ==
  CASE s.slice_type = "I" -> Nal(3, IF s.idr THEN 5 ELSE 1)
    [] s.slice_type = "P" -> Nal(2, 1)
    [] OTHER -> Nal(IF s.reference THEN 1 ELSE 0, 1)

Header(kind, h) ==
  CASE kind = "sps" -> Nal(3, 7) \o sps_rbsp(h)
    [] kind = "pps" -> Nal(3, 8) \o pps_rbsp(h)
    [] kind = "slice" -> SliceNal(h) \o slice_header(h)

-----------------------------------------------------------------------------
(* What a decoder reads, by the definitions of H.264 and not by the code:  *)
(* the bits in the order of the addresses of their bytes.                  *)

(* The words before the current one are swapped, and so is the current one *)
(* when the stream has ended; before, its low bits are the last written.   *)
Stored(bs, ended) ==
  LET pos == bs.bit_offset \div 32
      offset == bs.bit_offset % 32
      bit(w, k) == IF w < pos \/ ended THEN va_swap32(bs.buffer[w])[k]
                   ELSE bs.buffer[w][32 - offset + k]
  IN [i \in 1 .. bs.bit_offset |-> bit((i - 1) \div 32, 1 + ((i - 1) % 32))]

(* read_bits(): the bits so far, doubled, and the next one. *)
Number(bits) ==
  LET n[i \in 0 .. Len(bits)] == IF i = 0 THEN 0 ELSE 2 * n[i - 1] + bits[i]
  IN n[Len(bits)]

(* Reading an element returns its value and the position behind it. *)
ReadU(bits, at, size) ==
  [ok |-> at + size <= Len(bits), at |-> at + size,
   value |-> Number(SubSeq(bits, at + 1, at + size))]

ReadUe(bits, at) ==
  LET ones == {i \in at + 1 .. Len(bits) : bits[i] = 1}
      zeros == Min(ones) - at - 1
      info == ReadU(bits, Min(ones), zeros)
  IN IF ones = {} THEN [ok |-> FALSE, at |-> at, value |-> 0]
     ELSE [info EXCEPT !.value = 2^zeros - 1 + @]

ReadSe(bits, at) ==
  LET k == ReadUe(bits, at)
  IN [k EXCEPT !.value = IF @ % 2 = 1 THEN (@ + 1) \div 2 ELSE -(@ \div 2)]

(* The filling up to a byte is all of one bit. *)
ReadAlign(bits, at, bit) ==
  LET next == 8 * ((at + 7) \div 8)
  IN [ok |-> next <= Len(bits), at |-> next,
      value |-> IF \A i \in at + 1 .. next : bits[i] = bit THEN bit ELSE 1 - bit]

Read(bits, at, e) ==
  CASE e.type = "u" -> ReadU(bits, at, e.size)
    [] e.type = "ue" -> ReadUe(bits, at)
    [] e.type = "se" -> ReadSe(bits, at)
    [] e.type = "align" -> ReadAlign(bits, at, e.value)

(* Where the reader is behind n elements, and whether all had their values *)
(* so far.                                                                 *)
Reading(bits, elements) ==
  LET reading[n \in 0 .. Len(elements)] ==
        IF n = 0 THEN [ok |-> TRUE, at |-> 0]
        ELSE LET r == reading[n - 1]
                 v == Read(bits, r.at, elements[n])
             IN [ok |-> r.ok /\ v.ok /\ v.value = elements[n].value, at |-> v.at]
  IN reading

(* All of bits is read as these elements, with their values. *)
ReadsAs(bits, elements) ==
  Reading(bits, elements)[Len(elements)] = [ok |-> TRUE, at |-> Len(bits)]

=============================================================================
