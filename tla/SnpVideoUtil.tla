---------------------------- MODULE SnpVideoUtil ----------------------------
(***************************************************************************)
(* VideoUtil: the conversions between RGBA pixels and the planes of the    *)
(* codecs, with the indices their loops run with.  A picture is a function *)
(* from pixel numbers to [r, g, b]; memory is a function from the          *)
(* addresses that were written to bytes.                                   *)
(***************************************************************************)
EXTENDS Integers, SequencesExt

Colours == [r : 0 .. 255, g : 0 .. 255, b : 0 .. 255]

Byte(n) == n % 256

Luma(p) == Byte(((66 * p.r + 129 * p.g + 25 * p.b) \div 256) + 16)
Cb(p) == Byte(((-38 * p.r - 74 * p.g + 112 * p.b) \div 256) + 128)
Cr(p) == Byte(((112 * p.r - 94 * p.g - 18 * p.b) \div 256) + 128)

Clamp(n) == IF n < 0 THEN 0 ELSE IF n > 255 THEN 255 ELSE n

(* One pixel back from its three bytes. *)
Rgb(y, u, v) ==
  LET C == y - 16
      D == u - 128
      E == v - 128
  IN [r |-> Clamp((298 * C + 409 * E + 128) \div 256),
      g |-> Clamp((298 * C - 100 * D - 208 * E + 128) \div 256),
      b |-> Clamp((298 * C + 516 * D + 128) \div 256)]

(* The two loops over a picture: the pixel where the iteration after that  *)
(* at (x, y) begins. An even row takes two pixels at a time.               *)
NextPixel(x, y, width) ==
  LET next == IF y % 2 = 0 THEN x + 2 ELSE x + 1
  IN IF next < width THEN [x |-> next, y |-> y] ELSE [x |-> 0, y |-> y + 1]

(* Mutant: the chroma indices also advance in odd rows. *)
NextChromaInEveryRow(pos, row) == pos + 1

(* upos and vpos after an iteration. *)
NextChroma(pos, row) == IF row % 2 = 0 THEN pos + 1 ELSE pos

(* A byte is stored, over another or at a new address. *)
Write(memory, address, byte) ==
  [a \in DOMAIN memory \cup {address} |-> IF a = address THEN byte ELSE memory[a]]

(* What an iteration of rgba2Yuv() at `at` writes: three planes behind one *)
(* another, without padding.                                               *)
YuvStep(picture, width, s) ==
  [at |-> NextPixel(s.at.x, s.at.y, width),
   i |-> IF s.at.y % 2 = 0 THEN s.i + 2 ELSE s.i + 1,
   upos |-> NextChroma(s.upos, s.at.y),
   vpos |-> NextChroma(s.vpos, s.at.y),
   memory |->
     IF s.at.y % 2 = 0
       THEN Write(Write(Write(Write(s.memory, s.i, Luma(picture[s.i])),
                              s.upos, Cb(picture[s.i])),
                        s.vpos, Cr(picture[s.i])),
                  s.i + 1, Luma(picture[s.i + 1]))
       ELSE Write(s.memory, s.i, Luma(picture[s.i]))]

(* rgba2Yuv(): the loops are left when `at` is behind the last row; every  *)
(* iteration takes a pixel at least.                                       *)
Rgba2Yuv(picture, width, height) ==
  LET size == width * height
      after[n \in Nat] ==
        IF n = 0
          THEN [at |-> [x |-> 0, y |-> 0], i |-> 0,
                upos |-> size, vpos |-> size + size \div 4, memory |-> << >>]
        ELSE LET s == after[n - 1] IN
             IF s.at.y < height THEN YuvStep(picture, width, s) ELSE s
  IN after[size].memory

(* An iteration of rgba2Nv12(): the chroma bytes alternate in one plane;   *)
(* the rows of a plane are a stride apart.                                 *)
Nv12Step(picture, width, height, strideY, strideC, s) ==
  LET x == s.at.x
      y == s.at.y
      i == y * width + x
      luma == y * strideY + x
      chroma == height * strideY + (y \div 2) * strideC + x
  IN [at |-> NextPixel(x, y, width),
      memory |->
        IF y % 2 = 0
          THEN Write(Write(Write(Write(s.memory, luma, Luma(picture[i])),
                                 chroma, Cb(picture[i])),
                           chroma + 1, Cr(picture[i])),
                     luma + 1, Luma(picture[i + 1]))
          ELSE Write(s.memory, luma, Luma(picture[i]))]

Rgba2Nv12(picture, width, height, strideY, strideC) ==
  LET after[n \in Nat] ==
        IF n = 0 THEN [at |-> [x |-> 0, y |-> 0], memory |-> << >>]
        ELSE LET s == after[n - 1] IN
             IF s.at.y < height
               THEN Nv12Step(picture, width, height, strideY, strideC, s) ELSE s
  IN after[width * height].memory

(* yuv420ToRgba() and nv12ToRgba(): the pixels of the planes. *)
Yuv420ToRgba(planes, width, height, strideY, strideC) ==
  [i \in 0 .. width * height - 1 |->
     LET x == i % width
         y == i \div width
         c == (y \div 2) * strideC + x \div 2
     IN Rgb(planes[1][y * strideY + x], planes[2][c], planes[3][c])]

Nv12ToRgba(planeY, planeUV, width, height, strideY, strideUV) ==
  [i \in 0 .. width * height - 1 |->
     LET x == i % width
         y == i \div width
         c == (y \div 2) * strideUV + 2 * (x \div 2)
     IN Rgb(planeY[y * strideY + x], planeUV[c], planeUV[c + 1])]

=============================================================================
