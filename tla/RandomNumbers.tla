----------------------------- MODULE RandomNumbers -----------------------------
(***************************************************************************)
(* The generator of Kernel/Operations/RNG/RNG.c: four words of state, the  *)
(* distributions that draw from them, and the spare sample that            *)
(* calc_random_normal keeps for its next call.                             *)
(*                                                                         *)
(* A step is one number drawn.  A uniform number is the numerator of what  *)
(* next_double returns; a sample is the numbers it was made of, since what *)
(* logarithms and cosines make of them does not matter here.  Parameters   *)
(* of distributions are in multiples of 1 / Unit.                          *)
(***************************************************************************)
EXTENDS Integers, Sequences

CONSTANTS
  RngBits,         (* bits of a word, 64 in the code                       *)
  Dropped,         (* bits next_double leaves out, 11                      *)
  ResultRotation, StateShift, StateRotation,        (* 7, 17, 45           *)
  SeedDefault, SeedStep, MixShifts, MixFactors,     (* of SplitMix64       *)
  FallbackWords,   (* the state instead of one of zeros                    *)
  Unit,
  PoissonLimit,    (* 30                                                   *)
  Above(_, _),     (* the product of numbers is above e^-lambda            *)
  CubeIsPositive(_, _),  (* (1 + c x)^3 is, of a shape and a normal sample *)
  Accepted(_, _, _)(* a shape, a normal sample and a number                *)

ASSUME RngAssumption ==
  /\ RngBits \in Nat /\ Dropped \in 1 .. RngBits - 1
  /\ FallbackWords # <<0, 0, 0, 0>>

VARIABLES
  words,     (* rng_state                                                  *)
  spare,     (* cached, or NoSpare while cache_valid is 0                  *)
  task,      (* the call in progress, see Idle and Begin                   *)
  sample     (* what the last call returned                                *)

randomVars == <<words, spare, task, sample>>

NoSpare == <<>>
Idle == [phase |-> "idle"]

Zeros == <<0, 0, 0, 0>>

RngRange == 2 ^ RngBits

-------------------------------------------------------------------------------
(* xoshiro256++ and its seeding. *)

(* The operators ^ and | of C on words. *)
LOCAL Bit(x, i) == (x \div 2 ^ i) % 2
LOCAL Bitwise(Of(_, _), x, y) ==
  LET low[n \in 0 .. RngBits] ==
        IF n = 0 THEN 0 ELSE low[n - 1] + 2 ^ (n - 1) * Of(Bit(x, n - 1), Bit(y, n - 1))
  IN  low[RngBits]
x ^^ y == Bitwise(LAMBDA a, b : (a + b) % 2, x, y)
x | y  == Bitwise(LAMBDA a, b : a + b - a * b, x, y)

Rotl(x, k) == ((x * 2 ^ k) % RngRange) | (x \div 2 ^ (RngBits - k))

Following(s) ==
  LET third  == s[3] ^^ s[1]
      fourth == s[4] ^^ s[2]
  IN  <<s[1] ^^ fourth, s[2] ^^ third,
        third ^^ ((s[2] * 2 ^ StateShift) % RngRange), Rotl(fourth, StateRotation)>>

(* next_double, as its numerator. *)
Drawn(s) ==
  ((Rotl((s[2] * 5) % RngRange, ResultRotation) * 9) % RngRange) \div 2 ^ Dropped

Mixed(z) ==
  LET Fold(x, i) == x ^^ (x \div 2 ^ MixShifts[i])
      first  == (Fold(z, 1) * MixFactors[1]) % RngRange
      second == (Fold(first, 2) * MixFactors[2]) % RngRange
  IN  Fold(second, 3)

(* Mutant: the state of zeros is not looked for. *)
MutSeeded(seed) ==
  LET z == ((IF seed = 0 THEN SeedDefault ELSE seed) + SeedStep) % RngRange
      w[i \in 0 .. 4] == IF i = 0 THEN z ELSE Mixed(w[i - 1])
  IN  <<w[1], w[2], w[3], w[4]>>

Seeded(seed) ==
  LET z == ((IF seed = 0 THEN SeedDefault ELSE seed) + SeedStep) % RngRange
      w[i \in 0 .. 4] == IF i = 0 THEN z ELSE Mixed(w[i - 1])
      s == <<w[1], w[2], w[3], w[4]>>
  IN  IF s = Zeros THEN FallbackWords ELSE s

RandomInit == words = Zeros /\ spare = NoSpare /\ task = Idle /\ sample = <<>>

Seed(seed) ==
  /\ task = Idle
  /\ words' = Seeded(seed)
  /\ UNCHANGED <<spare, task, sample>>

(* Mutant: the last word is not restored. *)
MutSetState(s) ==
  /\ task = Idle /\ s # Zeros
  /\ words' = [s EXCEPT ![4] = words[4]]
  /\ UNCHANGED <<spare, task, sample>>

(* A state of zeros is refused. *)
SetState(s) ==
  /\ task = Idle /\ s # Zeros
  /\ words' = s
  /\ UNCHANGED <<spare, task, sample>>

-------------------------------------------------------------------------------
(* The distributions.                                                      *)

(* Where a call begins: done, if its parameter settles the answer; at a    *)
(* normal sample; or with a number that may or must not be zero.           *)
Phase(r) ==
  CASE r.op = "uniform"     -> "closed"
    [] r.op = "normal"      -> "normal"
    [] r.op = "exponential" -> IF r.arg <= 0 THEN "done" ELSE "open"
    [] r.op = "bernoulli"   -> IF r.arg <= 0 \/ r.arg >= Unit THEN "done" ELSE "closed"
    [] r.op = "poisson"     -> IF r.arg <= 0 THEN "done"
                               ELSE IF r.arg < PoissonLimit THEN "product" ELSE "normal"
    [] r.op = "gamma"       -> IF r.arg <= 0 THEN "done"
                               ELSE IF r.arg < Unit THEN "boost" ELSE "normal"

Begin(r) ==
  /\ task = Idle
  /\ IF Phase(r) = "done"
     THEN sample' = <<IF r.op = "bernoulli" /\ r.arg > 0 THEN 1 ELSE 0>> /\ UNCHANGED task
     ELSE /\ task' = [phase |-> Phase(r), op |-> r.op, arg |-> r.arg, kept |-> <<>>, z |-> <<>>]
          /\ UNCHANGED sample
  /\ UNCHANGED <<words, spare>>

Finish(s) == sample' = s /\ task' = Idle

GoOn(next) == task' = next /\ UNCHANGED sample

Draw == words' = Following(words)

drawn == Drawn(words)

(* next_double_open draws until the number is not zero. *)
DrawZero ==
  /\ \/ task.phase \in {"open", "boost", "product", "accept"}
     \/ task.phase = "normal" /\ spare = NoSpare
  /\ drawn = 0 /\ Draw
  /\ UNCHANGED <<spare, task, sample>>

DrawOnly ==
  /\ task.phase = "closed" \/ (task.phase = "open" /\ drawn # 0)
  /\ Draw
  /\ Finish(IF task.op = "bernoulli"
            THEN <<IF drawn * Unit < task.arg * 2 ^ (RngBits - Dropped) THEN 1 ELSE 0>>
            ELSE <<drawn>>)
  /\ UNCHANGED spare

(* Knuth: numbers are multiplied as long as the product is above e^-lambda. *)
DrawFactor ==
  /\ task.phase = "product" /\ drawn # 0
  /\ Draw
  /\ LET factors == Append(task.kept, drawn)
     IN  IF Above(factors, task.arg) THEN GoOn([task EXCEPT !.kept = factors])
                                     ELSE Finish(<<Len(factors) - 1>>)
  /\ UNCHANGED spare

(* A shape below 1 is raised by 1, and the number drawn first corrects the *)
(* sample.                                                                 *)
DrawBoost ==
  /\ task.phase = "boost" /\ drawn # 0
  /\ Draw
  /\ GoOn([task EXCEPT !.phase = "normal", !.arg = @ + Unit, !.kept = <<drawn>>])
  /\ UNCHANGED spare

(* What is done with a normal sample: the gamma distribution asks for      *)
(* another one until 1 + c x is positive.                                  *)
UseNormal(z) ==
  IF task.op # "gamma" THEN Finish(z)
  ELSE GoOn([task EXCEPT !.phase = IF CubeIsPositive(task.arg, z) THEN "accept" ELSE "normal",
                         !.z = IF CubeIsPositive(task.arg, z) THEN z ELSE <<>>])

TakeSpare ==
  /\ task.phase = "normal" /\ spare # NoSpare
  /\ spare' = NoSpare
  /\ UseNormal(spare)
  /\ UNCHANGED words

DrawFirst ==
  /\ task.phase = "normal" /\ spare = NoSpare /\ drawn # 0
  /\ Draw
  /\ GoOn([task EXCEPT !.phase = "second", !.z = <<drawn>>])
  /\ UNCHANGED spare

(* The pair makes two samples: one is used, the other is kept. *)
DrawSecond ==
  /\ task.phase = "second"
  /\ Draw
  /\ spare' = <<"sin", task.z[1], drawn>>
  /\ UseNormal(<<"cos", task.z[1], drawn>>)

DrawAccept ==
  /\ task.phase = "accept" /\ drawn # 0
  /\ Draw
  /\ IF Accepted(task.arg, task.z, drawn)
     THEN Finish(task.kept \o task.z)
     ELSE GoOn([task EXCEPT !.phase = "normal", !.z = <<>>])
  /\ UNCHANGED spare

DrawNext ==
  \/ DrawZero \/ DrawOnly \/ DrawFactor \/ DrawBoost
  \/ TakeSpare \/ DrawFirst \/ DrawSecond \/ DrawAccept

-------------------------------------------------------------------------------
(* A caller of the generator that seeds it, draws, saves the state, draws  *)
(* on, restores the state and repeats the calls it made since.             *)

CONSTANTS
  Seeds,       (* arguments of calc_random_seed                            *)
  Requests,    (* calls, records of an op and its arg                      *)
  MaxCalls,    (* bound: calls before the state is saved                   *)
  MaxTape      (* bound: calls between saving and restoring                *)

VARIABLES
  seeded,     (* calc_random_seed was called                               *)
  made,       (* calls made before the state was saved                     *)
  saved,      (* the state saved, or Zeros                                 *)
  clean,      (* no spare was waiting when it was saved, nor when restored *)
  tape,       (* the calls made since then                                 *)
  given,      (* and the samples they gave                                 *)
  replaying,  (* the state was restored                                    *)
  heard       (* samples since then                                        *)

replayVars == <<seeded, made, saved, clean, tape, given, replaying, heard>>

ReplayInit ==
  /\ RandomInit
  /\ seeded = FALSE /\ made = 0 /\ saved = Zeros /\ clean = TRUE
  /\ tape = <<>> /\ given = <<>> /\ replaying = FALSE /\ heard = <<>>

CallSeed ==
  /\ saved = Zeros
  /\ \E seed \in Seeds : Seed(seed)
  /\ seeded' = TRUE
  /\ UNCHANGED <<made, saved, clean, tape, given, replaying, heard>>

(* calc_random_get_state. *)
Save ==
  /\ task = Idle /\ seeded /\ saved = Zeros
  /\ saved' = words
  /\ clean' = (spare = NoSpare)
  /\ UNCHANGED <<randomVars, seeded, made, tape, given, replaying, heard>>

Restore ==
  /\ tape # <<>> /\ ~replaying
  /\ SetState(saved)
  /\ replaying' = TRUE
  /\ clean' = (clean /\ spare = NoSpare)
  /\ UNCHANGED <<seeded, made, saved, tape, given, heard>>

Hear ==
  IF task' # Idle \/ saved = Zeros THEN UNCHANGED <<given, heard>>
  ELSE IF replaying THEN heard' = Append(heard, sample') /\ UNCHANGED given
  ELSE given' = Append(given, sample') /\ UNCHANGED heard

(* Any call, as long as nothing is saved or there is room on the tape;     *)
(* then the calls of the tape in their order.                              *)
Ask(r) ==
  /\ Begin(r)
  /\ \/ saved = Zeros /\ made < MaxCalls /\ made' = made + 1 /\ UNCHANGED tape
     \/ /\ saved # Zeros /\ ~replaying /\ Len(tape) < MaxTape
        /\ tape' = Append(tape, r) /\ UNCHANGED made
     \/ /\ replaying /\ Len(heard) < Len(tape) /\ r = tape[Len(heard) + 1]
        /\ UNCHANGED <<made, tape>>
  /\ Hear
  /\ UNCHANGED <<seeded, saved, clean, replaying>>

Continue == DrawNext /\ Hear /\ UNCHANGED <<seeded, made, saved, clean, tape, replaying>>

(* The tape is through; another run of the program starts. *)
Rerun ==
  /\ replaying /\ Len(heard) = Len(tape)
  /\ words' = Zeros /\ spare' = NoSpare /\ sample' = <<>> /\ UNCHANGED task
  /\ seeded' = FALSE /\ made' = 0 /\ saved' = Zeros /\ clean' = TRUE
  /\ tape' = <<>> /\ given' = <<>> /\ replaying' = FALSE /\ heard' = <<>>

CallRandom ==
  \/ CallSeed \/ Save \/ Restore \/ Continue \/ Rerun
  \/ \E r \in Requests : Ask(r)

ReplaySpec == ReplayInit /\ [][CallRandom]_<<randomVars, replayVars>>

-------------------------------------------------------------------------------
(* RNG.h:25-32 promises that a saved state can be replayed.  It can, call  *)
(* by call, when no spare sample waits at either end, through rejected     *)
(* numbers, spares used up in between and distributions that call others   *)
(* (RNG.c:125-150, 295-442).                                               *)
ReplayRepeats ==
  replaying /\ clean => \A i \in DOMAIN heard : heard[i] = given[i]

(* A generator that has been seeded answers every call: its state never    *)
(* becomes zeros, where next_double_open draws zero for ever, as it does   *)
(* before the first seed (RNG.c:58, 96-112, 140-169).                      *)
DrawsEnd == seeded /\ task # Idle ~> task = Idle
===============================================================================
