------------------------------- MODULE Audio -------------------------------
(***************************************************************************)
(* The audio output, src/source/Audio.c (with pit.c and DAC.c): timer      *)
(* channel 0 of the PIT interrupts once per sample and the handler moves   *)
(* one sample of one of two buffers to the DAC.                            *)
(*                                                                         *)
(* The index i is a uint16_t of Audio.c which src/lwip/contrib/apps/UDP/   *)
(* UDP.c declares as uint8_t: a store through that declaration replaces    *)
(* the low byte only.  ByteRange is the number of values of that byte      *)
(* (256 in the program).                                                   *)
(***************************************************************************)
EXTENDS Integers

CONSTANTS
  audio_buffer_sizes,   \* samples in a buffer (750 in the program)
  ByteRange,            \* values of the low byte of i (256 in the program)
  Samples,              \* what a buffer cell can hold: samples are told apart
                        \* by the datagram they came with
  Pit1Handler           \* TRUE: the startup code, not under src/, brings a
                        \* handler for timer channel 1

ASSUME AudioAssumption ==
  /\ audio_buffer_sizes \in Nat \ {0}
  /\ ByteRange \in Nat \ {0}
  /\ Samples \subseteq Nat
  /\ Pit1Handler \in BOOLEAN

VARIABLES
  i,             \* index of the next sample
  buffer_flag,   \* FALSE: buffer1 is played, TRUE: buffer2
  buffer1,
  buffer2,
  dac,           \* the value of the DAC
  pit0,          \* timer channel 0 runs
  pit1           \* channel 1: "off", "on", or its interrupt is "spinning"

audioVars == <<i, buffer_flag, buffer1, buffer2, dac, pit0, pit1>>

Index == 0..(audio_buffer_sizes - 1)

\* The DAC value that AudioOutput(0) sets, also the value after reset; it is
\* told apart from every sample.
Mute == -1

AudioTypeOK ==
  /\ i \in Index
  /\ buffer_flag \in BOOLEAN
  /\ buffer1 \in [Index -> Samples]
  /\ buffer2 \in [Index -> Samples]
  /\ dac \in Samples \cup {Mute}
  /\ pit0 \in BOOLEAN
  /\ pit1 \in {"off", "on", "spinning"}

AudioInit(s) ==
  /\ i = 0
  /\ buffer_flag = FALSE
  /\ buffer1 = [k \in Index |-> s]
  /\ buffer2 = [k \in Index |-> s]
  /\ dac = Mute
  /\ pit0 = FALSE
  /\ pit1 = "off"

\* Seeded fault: the index wraps one sample too late.
PIT0_IRQHandler_OffByOne ==
  /\ pit0
  /\ dac' = IF buffer_flag THEN buffer2[i] ELSE buffer1[i]
  /\ i' = IF i < audio_buffer_sizes THEN i + 1 ELSE 0
  /\ UNCHANGED <<buffer_flag, buffer1, buffer2, pit0, pit1>>

\* The interrupt handler; no thread runs in the middle of it.
PIT0_IRQHandler ==
  /\ pit0
  /\ dac' = IF buffer_flag THEN buffer2[i] ELSE buffer1[i]
  /\ i' = IF i < audio_buffer_sizes - 1 THEN i + 1 ELSE 0
  /\ UNCHANGED <<buffer_flag, buffer1, buffer2, pit0, pit1>>

\* Channel 1 is started with its interrupt enabled and src/ has no
\* PIT1_IRQHandler.  Unless the startup code brings one, its default handler
\* is entered, which never returns: no thread runs again, while the handler
\* of channel 0, of higher priority, goes on.
PIT1_Default ==
  /\ pit1 = "on" /\ ~Pit1Handler
  /\ pit1' = "spinning"
  /\ UNCHANGED <<i, buffer_flag, buffer1, buffer2, dac, pit0>>

ThreadsRun == pit1 # "spinning"

\* Sets the period of a channel, enables its interrupt and starts it.
PIT_ConfigAndStart(channel) ==
  \/ channel = 0 /\ pit0' = TRUE
  \/ channel = 1 /\ pit1' = "on"

\* DAC_Config keeps the value of the DAC.
AudioConfig ==
  /\ PIT_ConfigAndStart(0)
  /\ PIT_ConfigAndStart(1)
  /\ UNCHANGED <<i, buffer_flag, buffer1, buffer2, dac>>

\* AudioOutput(1) starts the timer.  AudioOutput(0) stops it and then clears
\* the DAC, two steps between which the handler can run.
AudioOn ==
  /\ pit0' = TRUE
  /\ UNCHANGED <<i, buffer_flag, buffer1, buffer2, dac, pit1>>

AudioOffStop ==
  /\ pit0' = FALSE
  /\ UNCHANGED <<i, buffer_flag, buffer1, buffer2, dac, pit1>>

\* Seeded fault: the last sample stays on the DAC.
AudioOffClear_KeepsSample == UNCHANGED audioVars

AudioOffClear ==
  /\ dac' = Mute
  /\ UNCHANGED <<i, buffer_flag, buffer1, buffer2, pit0, pit1>>

\* "i = 0" as UDP.c compiles it: the byte store clears the low byte of i.
ClearIndex == i' = i - (i % ByteRange)
=============================================================================
