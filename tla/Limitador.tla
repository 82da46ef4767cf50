----------------------------- MODULE Limitador ------------------------------
(***************************************************************************)
(* The sliding window of core/rate_limit.py: what it keeps of one key, and *)
(* what hit makes of it.  An attempt is its age.  hit drops what is out of *)
(* the window before it counts, and nothing else reads it: here it is      *)
(* dropped when it gets that old.                                          *)
(***************************************************************************)
EXTENDS Naturals, Sequences, FiniteSets

CONSTANTS MaxIntentos,    \* MAX_ATTEMPTS
          Ventana         \* WINDOW_SECONDS, in instants

ASSUME LimitadorAssumption ==
  MaxIntentos \in Nat \ {0} /\ Ventana \in Nat \ {0}

\* FAULTY variant (see README, "Faulty variants"): one too many.
CabeUnoMas(hits) == Len(hits) <= MaxIntentos

\* hit allows one more.
Cabe(hits) == Len(hits) < MaxIntentos

\* An attempt that is refused leaves no trace.
Golpe(hits) == Append(hits, 0)

Olvido == <<>>

\* The places popleft takes: hits[0] <= now - window, as often as that is so.
Fuera(hits) == {i \in DOMAIN hits : \A j \in 1..i : hits[j] + 1 >= Ventana}

\* An instant goes by.
Poda(hits) ==
  LET n == Cardinality(Fuera(hits))
  IN  [i \in 1..(Len(hits) - n) |-> hits[i + n] + 1]
=============================================================================
