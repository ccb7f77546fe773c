------------------------------ MODULE GraphState ------------------------------
(***************************************************************************)
(* The graphs' buffer of the desktop client (crates/wireview-gui/src/      *)
(* graph.rs): the samples it keeps, what it takes from a telemetry, and    *)
(* what it draws of them.                                                  *)
(*                                                                         *)
(* A sample is its session, its sequence number and its time.  The kind,   *)
(* the window and the series that are shown are one choice, view, which    *)
(* decides how far back a frame reaches; a frame is the samples it is      *)
(* made of, which build_path scales to the page and thins out.             *)
(***************************************************************************)
EXTENDS Naturals, SequencesExt

CONSTANTS
    SAMPLE_LIMIT, \* samples that are kept
    Views,        \* kinds, windows and series to choose from
    WindowTicks   \* view -> how far back it reaches; the overview is one more view

ASSUME GraphAssumption ==
    /\ SAMPLE_LIMIT \in Nat \ {0} /\ "overview" \notin Views
    /\ WindowTicks \in [Views \union {"overview"} -> Nat]

--------------------------------------------------------------------------------
\* The buffer.  What may be missing is a set of at most one element.

Fresh(view) == [samples |-> <<>>, session_id |-> {}, last_sequence |-> {},
                last_observed |-> {}, view |-> view, paused |-> FALSE]

ResetSession(g) == [Fresh(g.view) EXCEPT !.paused = g.paused]

\* What was recorded last is forgotten.
ClearHistory_Faulty(g) == ResetSession(g)

\* What was recorded last is remembered.
ClearHistory(g) == [g EXCEPT !.samples = <<>>]

SessionReset(g, t) == g.session_id # {} /\ g.session_id # {t.session}

\* A poll may bring what an earlier one brought.
Duplicate(g, t) ==
    g.session_id = {t.session} /\ \E n \in g.last_sequence : t.sequence <= n

\* Times increase although the clock may be set back.
Observed(g, t) == Max({t.at} \union {n + 1 : n \in g.last_observed})

Record(g, t) ==
    LET h  == IF SessionReset(g, t) THEN ResetSession(g) ELSE g
        at == Observed(h, t)
        kept == IF Len(h.samples) = SAMPLE_LIMIT THEN Tail(h.samples) ELSE h.samples
    IN [h EXCEPT !.session_id = {t.session}, !.last_sequence = {t.sequence},
                 !.last_observed = {at}, !.samples = Append(kept, [t EXCEPT !.at = at])]

--------------------------------------------------------------------------------
\* What is drawn.

\* The samples not older than the view's window, counted from the latest.
Within(samples, view) ==
    SelectSeq(samples, LAMBDA s : s.at + WindowTicks[view] >= Last(samples).at)

Frame(g) == [view |-> g.view, samples |-> Within(g.samples, g.view)]

OverviewFrame(g) == Within(g.samples, "overview")
================================================================================
