--------------------------- MODULE TranscriptUnits ---------------------------
(***************************************************************************)
(* transcript-units.ts and assertCanonicalToolTranscript(): how a          *)
(* transcript is cut into units that must not be split.  A message is a    *)
(* record [role, calls, stored]: calls are the ids an assistant declares,  *)
(* or the one id a tool message answers; stored says that the content of a *)
(* tool message was replaced by a pointer to a file.                       *)
(***************************************************************************)
EXTENDS Naturals, Sequences, FiniteSets, Subsequences

Declared(m) == {m.calls[n] : n \in DOMAIN m.calls}

\* The calls that are still open after message i of h: those of the last assistant, less the
\* answers that follow it directly.
OpenCalls(h, i) ==
  LET callers == {a \in 1..i : h[a].role = "assistant" /\ \A k \in a + 1..i : h[k].role = "tool"}
  IN UNION {Declared(h[a]) \ UNION {Declared(h[k]) : k \in a + 1..i} : a \in callers}

\* assertCanonicalToolTranscript(): a tool message answers a call that is open.
Canonical(h) ==
  \A i \in DOMAIN h : h[i].role = "tool" => h[i].calls[1] \in OpenCalls(h, i - 1)

\* buildTranscriptUnits(): a tool message joins the batch before it while calls are open.  A unit
\* is the interval of its messages, with its kind and whether every call of a batch is answered.
UnitStarts(h) == {i \in DOMAIN h : h[i].role = "tool" => OpenCalls(h, i - 1) = {}}
UnitEnd(h, starts, i) ==
  CHOOSE e \in i..Len(h) : (e = Len(h) \/ e + 1 \in starts) /\ starts \intersect (i + 1..e) = {}
UnitAt(h, i, end) ==
  LET batch == h[i].role = "assistant" /\ h[i].calls # <<>>
      answered == UNION {Declared(h[k]) : k \in i + 1..end}
  IN [first |-> i, last |-> end, batch |-> batch,
      complete |-> batch => Declared(h[i]) \subseteq answered]
BuildUnits(h) ==
  LET starts == UnitStarts(h) IN {UnitAt(h, i, UnitEnd(h, starts, i)) : i \in starts}

\* alignCoveredCountToUnitBoundary(): the number of units that end within the first messages.
UnitsCovered(units, count) == Cardinality({u \in units : u.last <= count})

\* unitBoundaryMessageCount(): how many messages the first n units have.
MessagesBefore(units, n) ==
  CHOOSE m \in {0} \union {u.last : u \in units} :
    UnitsCovered(units, m) = IF n <= Cardinality(units) THEN n ELSE Cardinality(units)

\* flattenUnits(units.slice(n)).
UnitsFrom(h, units, n) == SubSeq(h, MessagesBefore(units, n) + 1, Len(h))

=============================================================================
