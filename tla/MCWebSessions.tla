---------------------------- MODULE MCWebSessions ----------------------------
(* WebSessions for TLC: plays, recordings and stop requests in every order. *)
EXTENDS WebSessions
CONSTANTS p1, p2, r1, r2, s1, s2

OnePlay == {p1}
TwoPlays == {p1, p2}
OneRecording == {r1}
TwoRecordings == {r1, r2}
TwoStops == {s1, s2}
=============================================================================
