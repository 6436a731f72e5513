--------------------------- MODULE MCSnpAlgorithms ---------------------------
(***************************************************************************)
(* Headers of every shape whose elements cross the words in many ways,     *)
(* pictures of up to four by four pixels, boxes on small frames, and masks *)
(* of the two outer buttons, the wheel and a bit without a meaning; two    *)
(* codes for one of two keys; three cursors.                               *)
(***************************************************************************)
EXTENDS SnpAlgorithms

Sps ==
  {[profile_idc |-> profile, constraintSetFlag |-> 5, level_idc |-> 41,
    seq_parameter_set_id |-> 0, log2_max_frame_num_minus4 |-> fn,
    log2_max_pic_order_cnt_lsb_minus4 |-> 2, max_num_ref_frames |-> refs,
    picture_width_in_mbs |-> mbs, picture_height_in_mbs |-> 68,
    direct_8x8_inference_flag |-> TRUE, crop |-> crop] :
     profile \in {66, 100}, fn \in {0, 12}, refs \in {1, 4}, mbs \in {1, 120, 32767},
     crop \in {<< >>, << 0, 0, 0, 4 >>}}

Pps ==
  {[pic_parameter_set_id |-> 0, seq_parameter_set_id |-> 0, cabac |-> cabac,
    num_ref_idx_l0_active_minus1 |-> l0, num_ref_idx_l1_active_minus1 |-> 0,
    weighted_bipred_idc |-> 2, pic_init_qp |-> qp, deblocking |-> TRUE,
    transform_8x8_mode_flag |-> cabac, second_chroma_qp_index_offset |-> offset] :
     cabac \in BOOLEAN, l0 \in {0, 3}, qp \in {0, 26, 27, 51}, offset \in {-12, 0, 5}}

Slices ==
  {[macroblock_address |-> mb, slice_type |-> kind[1], pic_parameter_set_id |-> 0,
    frame_num |-> fn, log2_max_frame_num_minus4 |-> 0, idr |-> kind[2], idr_pic_id |-> 1,
    TopFieldOrderCnt |-> 2 * fn, log2_max_pic_order_cnt_lsb_minus4 |-> 2,
    direct_spatial |-> TRUE, override |-> override, reference |-> kind[3], cabac |-> cabac,
    cabac_init_idc |-> 2, slice_qp_delta |-> -3, deblocking |-> cabac,
    disable_deblocking_filter_idc |-> filter, alpha_c0_offset_div2 |-> 2,
    beta_offset_div2 |-> -6] :
     mb \in {0, 8159}, fn \in {0, 15}, cabac \in BOOLEAN, filter \in {0, 1},
     override \in {<< >>, << 1, 0 >>},
     kind \in {<< "I", TRUE, TRUE >>, << "I", FALSE, TRUE >>, << "P", FALSE, TRUE >>,
               << "B", FALSE, TRUE >>, << "B", FALSE, FALSE >>}}

Of(kind, headers) ==
  {[task |-> "header", kind |-> kind, header |-> h, junk |-> junk] : h \in headers, junk \in 0 .. 1}

MCHeaders == Of("sps", Sps) \cup Of("pps", Pps) \cup Of("slice", Slices)

Rgb3(r, g, b) == [r |-> r, g |-> g, b |-> b]

Levels == {0, 51, 128, 204, 255}
Palette == {Rgb3(0, 0, 0), Rgb3(255, 255, 255), Rgb3(255, 0, 0), Rgb3(0, 1, 197)}

(* A picture of blocks of two by two pixels. *)
Blocks(width, height, colour) ==
  [task |-> "picture", width |-> width, height |-> height,
   picture |-> [i \in 0 .. width * height - 1 |->
                  colour[(i % width) \div 2 + (width \div 2) * (i \div (2 * width)) + 1]]]

MCPictures ==
  {Blocks(2, 2, << Rgb3(r, g, b) >>) : r \in Levels, g \in Levels, b \in Levels}
    \cup {Blocks(4, 4, c) : c \in [1 .. 4 -> Palette]}
    \cup {Blocks(4, 2, c) : c \in [1 .. 2 -> Palette]}
    \cup {Blocks(2, 4, c) : c \in [1 .. 2 -> Palette]}

MCBoxes ==
  {b \in [task : {"box"}, frame : {6, 10, 11, 16, 25, 50}, box : {10}, speed : 1 .. 9] :
     b.speed < b.frame}

MCKeyboards == {[task |-> "keyboard", keys |-> << "KEY_A", "KEY_A", "KEY_B" >>]}

MCCursors == {[task |-> "cursor", cursors |-> 1 .. 3]}

MCPointers == {[task |-> "pointer", masks |-> SUBSET {0, 2, 3, 7}]}

=============================================================================
