------------------------------- MODULE KWinShot -------------------------------
(***************************************************************************)
(* A screenshot on KWin: the window is looked up in the snapshot, KWin is  *)
(* asked over the bus for its picture, answers with the picture's shape    *)
(* and writes the bytes into a socket the daemon reads to the end.  The    *)
(* rows are padded, the channels come in the order of a QImage format, and *)
(* some formats are premultiplied by alpha; the answer is straight RGBA.   *)
(***************************************************************************)
EXTENDS Integers, Sequences

CONSTANTS
  Formats,   \* the QImage formats KWin may answer with
  Strides,   \* the bytes of a row KWin may answer with
  MaxSide,   \* bound: width and height of a picture
  Texels     \* the pixels of the window: a sequence of <<red, green, blue, alpha>>

ASSUME ShotAssumption ==
  /\ Formats \subseteq Nat /\ Strides \subseteq Nat /\ MaxSide \in Nat
  /\ Texels \in Seq([1..4 -> 0..255]) /\ Len(Texels) >= MaxSide * MaxSide

VARIABLES
  shot,    \* the call: where it is, KWin's answer, what it read, what it returns
  pipe     \* the socket: bytes written, who holds its writing end, whether KWin gave up

shotVars == <<shot, pipe>>

NoMeta == [type |-> "raw", width |-> 0, height |-> 0, stride |-> 0, format |-> 0]
Metas == [type : {"raw", "other"}, width : 0..MaxSide, height : 0..MaxSide, stride : Strides, format : Formats]

(***************************************************************************)
(* The picture as KWin writes it.                                          *)
(***************************************************************************)
\* The bytes of a pixel in memory, as places of <<red, green, blue, alpha>>; 0 is an unused byte.
Layout(f) == CASE f = 4 -> <<3, 2, 1, 0>> [] f \in {5, 6} -> <<3, 2, 1, 4>> [] f = 13 -> <<1, 2, 3>>
               [] f = 16 -> <<1, 2, 3, 0>> [] f \in {17, 18} -> <<1, 2, 3, 4>> [] f = 29 -> <<3, 2, 1>>
               [] OTHER -> <<0, 0, 0, 0>>

Texel(m, x, y) == Texels[y * m.width + x + 1]

\* Byte i of the picture, counted from 0; the end of a row is padding.
ByteAt(m, i) ==
  LET lay == Layout(m.format)
      x == (i % m.stride) \div Len(lay)
      c == lay[((i % m.stride) % Len(lay)) + 1]
  IN IF x < m.width /\ c # 0 THEN Texel(m, x, i \div m.stride)[c] ELSE 170

Size(m) == m.stride * m.height
Raw(m, n) == [i \in 1..n |-> ByteAt(m, i - 1)]

(***************************************************************************)
(* The conversion.                                                         *)
(***************************************************************************)
\* Mutant of UnpremultiplyChannel: truncates.
UnpremultiplyTruncating(c, a) ==
  IF a = 0 THEN 0 ELSE IF (c * 255) \div a > 255 THEN 255 ELSE (c * 255) \div a

UnpremultiplyChannel(c, a) ==
  IF a = 0 THEN 0
  ELSE LET r == (c * 255 + a \div 2) \div a IN IF r > 255 THEN 255 ELSE r

Unpremultiply(r, g, b, a) ==
  <<UnpremultiplyChannel(r, a), UnpremultiplyChannel(g, a), UnpremultiplyChannel(b, a), a>>

SupportedFormats == {4, 5, 6, 13, 16, 17, 18, 29}
BytesPerPixel(f) == IF f \in {13, 29} THEN 3 ELSE 4

\* What the conversion makes of one pixel's bytes.
Convert(f, p) ==
  CASE f = 4 -> <<p[3], p[2], p[1], 255>>
    [] f = 5 -> <<p[3], p[2], p[1], p[4]>>
    [] f = 6 -> Unpremultiply(p[3], p[2], p[1], p[4])
    [] f \in {13, 16} -> <<p[1], p[2], p[3], 255>>
    [] f = 17 -> <<p[1], p[2], p[3], p[4]>>
    [] f = 18 -> Unpremultiply(p[1], p[2], p[3], p[4])
    [] f = 29 -> <<p[3], p[2], p[1], 255>>

Refused == [ok |-> FALSE, rgba |-> <<>>]
Crashed == [ok |-> FALSE, rgba |-> <<"out of range">>]

\* Mutant of ConvertRows: the rows are taken to follow each other without padding.
ConvertRowsPacked(raw, m) ==
  LET bpp == BytesPerPixel(m.format) IN
  IF m.stride < m.width * bpp THEN Refused
  ELSE [ok |-> TRUE, rgba |-> [i \in 1..(m.width * m.height) |->
          Convert(m.format, SubSeq(raw, (i - 1) * bpp + 1, i * bpp))]]

\* convert_rows: each row starts a stride after the one before it; a row that ends past the
\* bytes that were read would be a panic.
ConvertRows(raw, m) ==
  LET bpp == BytesPerPixel(m.format)
      start(y) == y * m.stride
  IN IF m.stride < m.width * bpp THEN Refused
     ELSE IF \E y \in 0..(m.height - 1) : start(y) + m.width * bpp > Len(raw) THEN Crashed
     ELSE [ok |-> TRUE, rgba |-> [i \in 1..(m.width * m.height) |->
             LET at == start((i - 1) \div m.width) + ((i - 1) % m.width) * bpp
             IN Convert(m.format, SubSeq(raw, at + 1, at + bpp))]]

\* Mutant of KwinRawToRgba: one byte too few is not noticed.
KwinRawToRgbaShort(raw, m) ==
  IF m.width = 0 \/ m.height = 0 \/ Len(raw) + 1 < Size(m) \/ m.format \notin SupportedFormats THEN Refused
  ELSE ConvertRows(raw, m)

\* An empty picture, too few bytes and an unknown format are refused.
KwinRawToRgba(raw, m) ==
  IF m.width = 0 \/ m.height = 0 \/ Len(raw) < Size(m) \/ m.format \notin SupportedFormats THEN Refused
  ELSE ConvertRows(raw, m)

(***************************************************************************)
(* The call.                                                               *)
(***************************************************************************)
ShotAnswer(a) == [shot EXCEPT !.pc = "over", !.answer = a]

BeginShot ==
  /\ shot.pc = "idle"
  /\ shot' = [shot EXCEPT !.pc = "look"]
  /\ UNCHANGED pipe

\* The window and its geometry, from the snapshot.
LookUp ==
  /\ shot.pc = "look"
  /\ \/ shot' = [shot EXCEPT !.pc = "connect"]
     \/ shot' \in {ShotAnswer(e) : e \in {"not_kwin", "no_snapshot", "dead", "no_geometry"}}
  /\ UNCHANGED pipe

\* The bus and the socket; both ends are the daemon's.
OpenPipe ==
  /\ shot.pc = "connect"
  /\ \/ shot' = ShotAnswer("unavailable") /\ UNCHANGED pipe
     \/ shot' = [shot EXCEPT !.pc = "call"] /\ pipe' = [pipe EXCEPT !.writers = {"daemon"}]

\* The call hands KWin a copy of the writing end.
CallKWin ==
  /\ shot.pc = "call" /\ "kwin" \notin pipe.writers /\ pipe.meta = NoMeta
  /\ \E m \in Metas : pipe' = [pipe EXCEPT !.writers = @ \cup {"kwin"}, !.meta = m]
  /\ UNCHANGED shot

\* Mutant of CallAnswered: the daemon keeps its copy of the writing end.
CallAnsweredKeeping ==
  /\ shot.pc = "call" /\ pipe.meta # NoMeta
  /\ \/ shot' = [shot EXCEPT !.pc = "read", !.meta = pipe.meta]
     \/ shot' \in {ShotAnswer("permission"), ShotAnswer("call_failed")}
  /\ UNCHANGED pipe

\* KWin answers; the daemon's writing end went with the call's arguments.
CallAnswered ==
  /\ shot.pc = "call" /\ pipe.meta # NoMeta
  /\ \/ shot' = [shot EXCEPT !.pc = "read", !.meta = pipe.meta]
     \/ shot' \in {ShotAnswer("permission"), ShotAnswer("call_failed")}
  /\ pipe' = [pipe EXCEPT !.writers = @ \ {"daemon"}]

\* KWin writes some bytes, or closes its end: all written, or having given up.
KWinWrites ==
  /\ "kwin" \in pipe.writers
  /\ \/ pipe' \in {[pipe EXCEPT !.sent = n] : n \in {k \in {1, Size(pipe.meta) - 1, Size(pipe.meta)} : pipe.sent < k /\ k <= Size(pipe.meta)}}
     \/ pipe' = [pipe EXCEPT !.writers = @ \ {"kwin"}]
  /\ UNCHANGED shot

\* read_to_end: takes what is there.
ReadSome ==
  /\ shot.pc = "read" /\ shot.got < pipe.sent
  /\ shot' = [shot EXCEPT !.got = pipe.sent]
  /\ UNCHANGED pipe

\* Mutant of ReadStalls: the socket has no read timeout.
ReadNeverStalls == FALSE /\ UNCHANGED shotVars

\* Nothing came for two seconds.
ReadStalls ==
  /\ shot.pc = "read" /\ shot.got = pipe.sent /\ pipe.writers # {}
  /\ shot' = [ShotAnswer("stalled") EXCEPT !.writing = pipe.writers]
  /\ UNCHANGED pipe

\* encode_kwin_raw_png, once every writing end is closed.
Encode ==
  /\ shot.pc = "read" /\ shot.got = pipe.sent /\ pipe.writers = {}
  /\ LET out == KwinRawToRgba(Raw(shot.meta, shot.got), shot.meta) IN
     shot' = IF shot.meta.type # "raw" THEN ShotAnswer("unsupported")
             ELSE IF out.ok THEN [ShotAnswer("ok") EXCEPT !.rgba = out.rgba]
             ELSE IF out = Crashed THEN ShotAnswer("panic") ELSE ShotAnswer("bad_picture")
  /\ UNCHANGED pipe
-----------------------------------------------------------------------------
ShotInit ==
  /\ shot = [pc |-> "idle", meta |-> NoMeta, got |-> 0, answer |-> "none", rgba |-> <<>>, writing |-> {}]
  /\ pipe = [meta |-> NoMeta, sent |-> 0, writers |-> {}]

ShotNext == BeginShot \/ LookUp \/ OpenPipe \/ CallKWin \/ CallAnswered \/ KWinWrites \/ ReadSome \/ ReadStalls \/ Encode

\* The daemon runs on, and the timer of the read fires; KWin owes its answer to the call, no bytes.
ShotFairness ==
  /\ WF_shotVars(LookUp) /\ WF_shotVars(OpenPipe) /\ WF_shotVars(CallKWin) /\ WF_shotVars(CallAnswered)
  /\ WF_shotVars(ReadSome) /\ WF_shotVars(ReadStalls) /\ WF_shotVars(Encode)
-----------------------------------------------------------------------------
\* The call and the socket have their shape.
ShotTypeOK ==
  /\ shot.pc \in {"idle", "look", "connect", "call", "read", "over"}
  /\ shot.got <= pipe.sent /\ pipe.sent <= Size(pipe.meta)
  /\ pipe.writers \subseteq {"daemon", "kwin"} /\ shot.meta \in {NoMeta, pipe.meta}

\* The straight channel r of the premultiplied channel c: the nearest there is.
Nearest(r, c, a) ==
  IF a = 0 THEN r = 0
  ELSE IF c > a THEN r = 255
  ELSE 2 * (r * a - 255 * c) <= a /\ 2 * (255 * c - r * a) <= a

\* A screenshot that is answered holds every pixel of the picture KWin drew, in its place, each
\* channel in its own, opaque where the format has no alpha and straight where it was
\* premultiplied (encode_kwin_raw_png).
PictureIsTheImage ==
  shot.answer = "ok" =>
    LET m == shot.meta IN
    /\ Len(shot.rgba) = m.width * m.height
    /\ \A x \in 0..(m.width - 1), y \in 0..(m.height - 1) :
         LET got == shot.rgba[y * m.width + x + 1]
             real == Texel(m, x, y)
         IN /\ got[4] = (IF m.format \in {5, 6, 17, 18} THEN real[4] ELSE 255)
            /\ \A c \in 1..3 : IF m.format \in {6, 18} THEN Nearest(got[c], real[c], real[4]) ELSE got[c] = real[c]

\* No answer of KWin, and no way its writing may end, makes the conversion read past the bytes
\* that came (the slice of a row in convert_rows would panic).
NeverPastTheEnd == shot.answer # "panic"

\* A screenshot given up as stalled waited for KWin, never for the daemon's own writing end.
StallIsKWins == shot.answer = "stalled" => shot.writing = {"kwin"}

\* Every screenshot is answered, also when KWin stops writing without closing its end.
ShotEnds == shot.pc = "look" ~> shot.pc = "over"
=============================================================================
