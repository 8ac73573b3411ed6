------------------------------- MODULE Plotting -------------------------------
(***************************************************************************)
(* The plotter (Application/Interface/Plotter) on a display that has pixel *)
(* output only: what each call draws, as a set of pixels <<x, y>> without  *)
(* their colours.  World coordinates are fractions; a curve is a quotient  *)
(* of two polynomials, which is not a number where the second one is zero. *)
(***************************************************************************)
EXTENDS Methods, Formats

CONSTANTS
  PixelRange,             (* of an unsigned coordinate: 2^32               *)
  TickWidth, TickHeight,  (* pixels per grid line: 80 and 60               *)
  MaxSamples,             (* of a curve: 2048                              *)
  MaxOverlay,             (* curves in one call: 8                         *)
  MaxBins                 (* of a histogram: 100                           *)

LOCAL Apart(i, j) == IF i < j THEN j - i ELSE i - j
LOCAL Half == Fraction(1, 2)
LOCAL AtOrBelow(x, y) == x = y \/ Less(x, y)
PowerOfTwo(n) == IF n >= 0 THEN Num(2 ^ n) ELSE Fraction(1, 2 ^ (-n))
PowerOfTen(n) == IF n >= 0 THEN Num(10 ^ n) ELSE Fraction(1, 10 ^ (-n))

-------------------------------------------------------------------------------
(* The area: an offset, a size, the world it shows, and the reciprocals of *)
(* the ranges.  casts says what the build makes of a negative or undefined *)
(* double cast to an unsigned integer.                                     *)

Casts == {"wrap", "saturate"}
LOCAL Cast(i, casts) == IF i < 0 /\ casts = "saturate" THEN 0 ELSE i % PixelRange
ToPixel(cfg, q) == IF ~Exact(q) THEN 0 ELSE Cast(Truncated(Plus(q, Half)), cfg.casts)
AsSignedPixel(u) == IF u < PixelRange \div 2 THEN u ELSE u - PixelRange

Reciprocal(range) == IF Positive(range) THEN Over(One, range) ELSE One
WithReciprocals(cfg) ==
  [cfg EXCEPT !.invX = Reciprocal(Minus(cfg.xMax, cfg.xMin)),
              !.invY = Reciprocal(Minus(cfg.yMax, cfg.yMin))]

ScreenX(cfg, wx) ==
  ToPixel(cfg, Plus(Num(cfg.x), Times(Minus(wx, cfg.xMin), Times(Num(cfg.w), cfg.invX))))
ScreenY(cfg, wy) ==
  ToPixel(cfg, Plus(Num(cfg.y), Times(Times(Minus(cfg.yMax, wy), Num(cfg.h)), cfg.invY)))
WorldToScreen(cfg, wx, wy) ==
  [ok |-> Zero \notin {cfg.invX, cfg.invY}, x |-> ScreenX(cfg, wx), y |-> ScreenY(cfg, wy)]

ScreenToWorld(cfg, sx, sy) ==
  <<Plus(cfg.xMin, Times(Fraction(sx - cfg.x, cfg.w), Over(One, cfg.invX))),
    Minus(cfg.yMax, Times(Fraction(sy - cfg.y, cfg.h), Over(One, cfg.invY)))>>

Columns(cfg) == cfg.x .. cfg.x + cfg.w - 1
Rows(cfg) == cfg.y .. cfg.y + cfg.h - 1

-------------------------------------------------------------------------------
(* Lines, grid and axes. *)

(* Bresenham's line, of which every display has a copy. *)
Line(x0, y0, x1, y1) ==
  LET dx == Apart(x0, x1)
      dy == Apart(y0, y1)
      sx == IF x1 < x0 THEN -1 ELSE 1
      sy == IF y1 < y0 THEN -1 ELSE 1
      From[x \in Int, y \in Int, err \in Int] ==
        LET right == 2 * err > -dy
            down == 2 * err < dx
        IN  {<<x, y>>} \cup
              IF x = x1 /\ y = y1 THEN {}
              ELSE From[IF right THEN x + sx ELSE x, IF down THEN y + sy ELSE y,
                        err - (IF right THEN dy ELSE 0) + (IF down THEN dx ELSE 0)]
  IN  From[x0, y0, dx - dy]

ClearArea(cfg) == Columns(cfg) \X Rows(cfg)

VerticalLine(cfg, sx) == Line(sx, cfg.y, sx, cfg.y + cfg.h)
HorizontalLine(cfg, sy) == Line(cfg.x, sy, cfg.x + cfg.w, sy)

(* One, two or five times a power of ten, which comes from the binary      *)
(* exponent.  An area too small for a tick has a step that is infinite.    *)
NiceStep(range, ticks) ==
  LET rough == Over(range, Num(ticks))
      exponent == CHOOSE e \in -14 .. 14 :
                    ~Less(rough, PowerOfTwo(e)) /\ Less(rough, PowerOfTwo(e + 1))
      magnitude == PowerOfTen((exponent * 30103) \div 100000)
      Below(n, d) == Less(Over(rough, magnitude), Fraction(n, d))
      nice == IF Below(3, 2) THEN 1 ELSE IF Below(7, 2) THEN 2 ELSE IF Below(15, 2) THEN 5 ELSE 10
  IN  IF ~Positive(range) THEN One
      ELSE IF ticks = 0 THEN Inexact ELSE Times(Num(nice), magnitude)

(* Multiples of the step from the first bound to the last. *)
Ceiling(x) == LET r == Truncated(x) IN IF Less(Num(r), x) THEN r + 1 ELSE r
Ticks(from, to, step) ==
  IF ~Exact(step) THEN {}
  ELSE {Times(Num(k), step) : k \in {k \in Ceiling(Over(from, step)) .. Ceiling(Over(to, step)) :
                                       AtOrBelow(Times(Num(k), step), to)}}

(* The columns of the grid are found without the reciprocal.               *)
GridX(cfg, x) ==
  ToPixel(cfg, Plus(Num(cfg.x), Times(Over(Minus(x, cfg.xMin), Minus(cfg.xMax, cfg.xMin)), Num(cfg.w))))
TicksX(cfg) ==
  {x \in Ticks(cfg.xMin, cfg.xMax, NiceStep(Minus(cfg.xMax, cfg.xMin), cfg.w \div TickWidth)) :
     GridX(cfg, x) \in Columns(cfg)}
TicksY(cfg) ==
  {y \in Ticks(cfg.yMin, cfg.yMax, NiceStep(Minus(cfg.yMax, cfg.yMin), cfg.h \div TickHeight)) :
     ScreenY(cfg, y) \in Rows(cfg)}

DrawGrid(cfg) ==
  UNION ({VerticalLine(cfg, GridX(cfg, x)) : x \in TicksX(cfg)}
           \cup {HorizontalLine(cfg, ScreenY(cfg, y)) : y \in TicksY(cfg)})

Spans(from, to) == AtOrBelow(from, Zero) /\ AtOrBelow(Zero, to)
DrawAxes(cfg) ==
  (IF Spans(cfg.yMin, cfg.yMax) THEN HorizontalLine(cfg, ScreenY(cfg, Zero)) ELSE {})
    \cup (IF Spans(cfg.xMin, cfg.xMax) THEN VerticalLine(cfg, ScreenX(cfg, Zero)) ELSE {})

(* The text at each tick, and where it starts.  %.1f is not a directive of *)
(* format_string.                                                          *)
Label == FormatString(16, <<"%", ".", "1", "f">>, <<>>)
LabelAt(text, x, y) == [text |-> text, x |-> x % PixelRange, y |-> y]
LOCAL LabelsOf(cfg, text) ==
  {LabelAt(text, GridX(cfg, x) - 4 * Len(text), cfg.y + cfg.h + 4) : x \in TicksX(cfg)}
    \cup {LabelAt(text, cfg.x - 8 * Len(text) - 4, ScreenY(cfg, y)) : y \in TicksY(cfg)}
DrawLabels(cfg) == LabelsOf(cfg, Label)

-------------------------------------------------------------------------------
(* Curves. *)

CurveAt(curve, x) == Over(PolyAt(curve.over, x), PolyAt(curve.under, x))

(* Where a sample lands; a gap if it is no number or not in a column.      *)
Gap == [x |-> -PixelRange, y |-> -PixelRange]
Centre(p) == [x |-> AsSignedPixel(p.x), y |-> AsSignedPixel(p.y)]
LOCAL Shown(p) == IF p.ok THEN Centre(p) ELSE Gap
Landing(cfg, wx, wy) == IF Exact(wy) THEN Shown(WorldToScreen(cfg, wx, wy)) ELSE Gap
Starts(p) == p.x >= 0 /\ p.y >= 0

SamplePlace(cfg, i, samples) ==
  Plus(cfg.xMin, Times(Num(i), Over(Minus(cfg.xMax, cfg.xMin), Num(samples - 1))))
SampleAt(cfg, curve, i, samples) ==
  LET LandingAt(wx) == Landing(cfg, wx, CurveAt(curve, wx))
      InColumns(p) == IF p.x \in Columns(cfg) THEN p ELSE Gap
  IN  InColumns(LandingAt(SamplePlace(cfg, i, samples)))

ClampedRow(cfg, y) ==
  IF y < cfg.y THEN cfg.y ELSE IF y > cfg.y + cfg.h THEN cfg.y + cfg.h ELSE y

(* A line joins each place to the one before. *)
LOCAL Joined(places, Row(_)) ==
  UNION {Line(places[i - 1].x, Row(places[i - 1].y), places[i].x, Row(places[i].y)) :
           i \in {i \in DOMAIN places : i - 1 \in DOMAIN places /\ places[i] # Gap /\ Starts(places[i - 1])}}

(* There are no more samples than the maximum, at the distances of all     *)
(* that were asked for.                                                    *)
PlotFunction(cfg, curve, samples) ==
  LET n == IF samples = 0 THEN cfg.w ELSE samples
      Samples == [i \in 0 .. (IF n > MaxSamples THEN MaxSamples ELSE n) - 1 |-> SampleAt(cfg, curve, i, n)]
  IN  Joined(Samples, LAMBDA y : ClampedRow(cfg, y))

NoCurve == [over |-> <<>>, under |-> <<>>]
PlotFunctionsOverlay(cfg, curves, samples) ==
  UNION {PlotFunction(cfg, curves[i], samples) :
           i \in {i \in DOMAIN curves : i <= MaxOverlay /\ curves[i] # NoCurve}}

(* Data are pairs of numbers.  The lines of a graph are not clipped.       *)
PlotScatter(cfg, data, radius) ==
  LET Disc(p) == {q \in ((p.x - radius) .. (p.x + radius)) \X ((p.y - radius) .. (p.y + radius)) :
                    (q[1] - p.x) * (q[1] - p.x) + (q[2] - p.y) * (q[2] - p.y) <= radius * radius}
      Shape(p) == IF p.ok THEN Disc(Centre(p)) ELSE {}
  IN  UNION {Shape(WorldToScreen(cfg, data[i][1], data[i][2])) : i \in DOMAIN data} \cap ClearArea(cfg)

PlotLineGraph(cfg, data) ==
  Joined([i \in DOMAIN data |-> Landing(cfg, data[i][1], data[i][2])], LAMBDA y : y)

-------------------------------------------------------------------------------
(* Histogram and scale. *)

Lowest(data, is) == data[CHOOSE i \in is : \A j \in is : ~Less(data[j], data[i])]
Highest(data, is) == data[CHOOSE i \in is : \A j \in is : ~Less(data[i], data[j])]

(* Mutant: the largest value has a bin of its own. *)
MutLastBin(bin, n) == bin
LastBin(bin, n) == IF bin >= n THEN n - 1 ELSE bin

(* How many values are in each bin; equal values are in the middle one.    *)
Bins(data, num_bins) ==
  LET n == IF num_bins > MaxBins THEN MaxBins ELSE num_bins
      low == Lowest(data, DOMAIN data)
      high == Highest(data, DOMAIN data)
      d_min == IF low = high THEN Minus(low, Half) ELSE low
      d_max == IF low = high THEN Plus(high, Half) ELSE high
      BinOf(x) == LastBin(Truncated(Over(Minus(x, d_min), Over(Minus(d_max, d_min), Num(n)))), n)
  IN  [b \in 0 .. n - 1 |-> Cardinality({i \in DOMAIN data : BinOf(data[i]) = b})]

PlotHistogram(cfg, data, num_bins) ==
  LET bins == Bins(data, num_bins)
      n == Cardinality(DOMAIN bins)
      most == CHOOSE m \in {bins[b] : b \in DOMAIN bins} \cup {1} :
                m >= 1 /\ \A b \in DOMAIN bins : bins[b] <= m
      Edge(b) == cfg.x + Truncated(Plus(Times(Num(b), Fraction(cfg.w, n)), Half))
      Height(b) == Truncated(Times(Fraction(bins[b], most), Num(cfg.h)))
      Bar(b) == (Edge(b) .. Edge(b + 1) - 1) \X (cfg.y + cfg.h - Height(b) .. cfg.y + cfg.h - 1)
  IN  IF data = <<>> \/ num_bins = 0 THEN {} ELSE UNION {Bar(b) : b \in DOMAIN bins}

(* The first value counts whether it is a number or not. *)
AutoScaleY(cfg, data, margin_percent) ==
  LET numbers == {i \in DOMAIN data : Exact(data[i])}
      low == IF Exact(data[1]) THEN Lowest(data, numbers) ELSE Inexact
      high == IF Exact(data[1]) THEN Highest(data, numbers) ELSE Inexact
      share == Over(Times(Minus(high, low), margin_percent), Num(100))
      margin == IF AtOrBelow(share, Zero) THEN Half ELSE share
  IN  IF data = <<>> THEN cfg
      ELSE WithReciprocals([cfg EXCEPT !.yMin = Minus(low, margin), !.yMax = Plus(high, margin)])
===============================================================================
