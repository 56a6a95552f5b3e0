------------------------------- MODULE HostTime -------------------------------
(***************************************************************************)
(* The arithmetic that turns counters into times, of                       *)
(* csrc/common/context_manager.cpp.                                        *)
(*                                                                         *)
(* The counter of the host or of a device runs at a frequency; each        *)
(* synchronisation notes a counter and the real time that belongs to it,   *)
(* and a counter is converted by its distance to the noted one.  The code  *)
(* computes with words of 64 bits; here a word has WordBits bits, and the  *)
(* factor from ticks to nanoseconds is NsPerTick instead of 10^6.  The     *)
(* product distance * 10^6 soon needs more than 64 bits, which is why the  *)
(* code divides first and scales quotient and remainder apart.             *)
(***************************************************************************)
EXTENDS Integers

CONSTANTS
  WordBits,      (* bits of uint64_t                                       *)
  NsPerTick,     (* MSTONS                                                 *)
  Freqs          (* bound: frequencies                                     *)

ASSUME HostTimeAssumption ==
  /\ WordBits \in Nat \ {0, 1} /\ NsPerTick \in Nat \ {0}
  /\ Freqs \subseteq Nat

Failed == -1                     \* what the driver answers to a question
NoInfo == <<>>                   \* before the first synchronisation

DefaultFreq  == 50
SupportedApi == 465157           \* 0x071905
WordSize == 2 ^ WordBits
Words    == 0 .. WordSize - 1

(* What the proofs need of the power; they know nothing else of it.         *)
ASSUME WordAssumption == WordSize \in Nat \ {0}

Unsigned(x) == x % WordSize
Signed(x)   == IF Unsigned(x) < WordSize \div 2 THEN Unsigned(x) ELSE Unsigned(x) - WordSize

(* Division and remainder of C++ for a positive divisor: towards zero.     *)
Quot(x, y) == IF x >= 0 THEN x \div y ELSE -((-x) \div y)
Rem(x, y)  == x - y * Quot(x, y)

-----------------------------------------------------------------------------
(* What a synchronisation notes.                                           *)

GetDevFreq(answer) == IF answer = Failed THEN DefaultFreq ELSE answer
GetHostFreq(answer) == IF answer = Failed THEN 0 ELSE answer

HostFreqIsEnable(apiVersion, answer) ==
  /\ apiVersion # Failed /\ apiVersion >= SupportedApi
  /\ GetHostFreq(answer) > 0

GetDevStartSysCnt(answer) == IF answer = Failed THEN 0 ELSE answer

(* The real time is the middle of two readings around the counter's.       *)
InitDevTimeInfo(freq, count, t1, t2) ==
  [freq |-> GetDevFreq(freq), startSysCnt |-> GetDevStartSysCnt(count),
   startRealTime |-> Unsigned(t1 + t2) \div 2, startMonotonicRawNs |-> 0]

(* Without a known frequency of the host the monotonic clock, in           *)
(* nanoseconds, takes the place of the counter.                            *)
InitHostTimeInfo(enabled, freq, count, t1, t2) ==
  [freq |-> IF enabled THEN GetHostFreq(freq) ELSE 0,
   startSysCnt |-> IF enabled THEN count ELSE 0,
   startMonotonicRawNs |-> IF enabled THEN 0 ELSE count,
   startRealTime |-> Unsigned(t1 + t2) \div 2]

-----------------------------------------------------------------------------
(* Conversion.                                                             *)

CalculateRealTimeWithMonotonicTime(timestamp, info) ==
  Unsigned(Signed(timestamp) - Signed(info.startMonotonicRawNs) + Signed(info.startRealTime))

(* Bug: scales before it divides.                                          *)
BugScale(delta, freq) == Quot(Signed(delta * NsPerTick), freq)

Scale(delta, freq) ==
  Signed(Quot(delta, freq) * NsPerTick) + Quot(Signed(Rem(delta, freq) * NsPerTick), freq)

CalculateRealTimeWithSysCnt(sysCnt, info) ==
  IF info.freq = 0 THEN sysCnt
  ELSE Unsigned(Scale(Signed(Signed(sysCnt) - Signed(info.startSysCnt)), info.freq)
                  + Signed(info.startRealTime))

CalculateRealTime(enabled, sysCnt, info) ==
  IF ~enabled \/ info.freq = 0
  THEN CalculateRealTimeWithMonotonicTime(sysCnt, info)
  ELSE CalculateRealTimeWithSysCnt(sysCnt, info)

(* Of a device, and of the host.                                           *)
GetRealTimeOfDevice(enabled, sysCnt, info) ==
  IF info = NoInfo THEN sysCnt
  ELSE IF info.freq = 0 THEN sysCnt ELSE CalculateRealTime(enabled, sysCnt, info)

GetRealTimeFromSysCnt(enabled, sysCnt, info) ==
  IF info = NoInfo THEN sysCnt ELSE CalculateRealTime(enabled, sysCnt, info)

GetHostTimeStampNs(enabled, sysCnt, realTime, info) ==
  IF enabled THEN GetRealTimeFromSysCnt(enabled, sysCnt, info) ELSE realTime

-----------------------------------------------------------------------------
(* The time that belongs to a counter, in integers without end; a clock of  *)
(* which the frequency is not used already counts nanoseconds.              *)
ExactTime(sysCnt, start, freq, real) ==
  real + (IF freq = 0 THEN sysCnt - start ELSE Quot((sysCnt - start) * NsPerTick, freq))

(* A host that counts and one that does not, a device whose driver answers  *)
(* or not: converting a counter from before or after the synchronisation    *)
(* gives the exact time of it whenever counters and that time are below     *)
(* half of a word's range, as they are for centuries, and the frequency      *)
(* times the factor fits a word.  A host without a frequency is asked  *)
(* for the host's times only: its device counters are converted as if they  *)
(* were nanoseconds, which is not their exact time.                         *)
ConversionExact ==
  \A enabled \in BOOLEAN, freq \in Freqs \cup {Failed}, real \in {0, WordSize \div 4} :
  \A start, sysCnt \in 0 .. WordSize \div 2 - 1 :
    LET hostOn == enabled /\ freq > 0
        host   == InitHostTimeInfo(hostOn, freq, start, real, real)
        dev    == InitDevTimeInfo(freq, start, real, real)
        Fits(f) == /\ f * NsPerTick < WordSize \div 2
                   /\ ExactTime(sysCnt, start, f, real) \in 0 .. WordSize \div 2 - 1
    IN  /\ Fits(host.freq) =>
             GetRealTimeFromSysCnt(hostOn, sysCnt, host) = ExactTime(sysCnt, start, host.freq, real)
        /\ hostOn /\ dev.freq > 0 /\ Fits(dev.freq) =>
             GetRealTimeOfDevice(hostOn, sysCnt, dev) = ExactTime(sysCnt, start, dev.freq, real)
=============================================================================
