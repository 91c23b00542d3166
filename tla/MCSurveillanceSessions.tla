----------------------- MODULE MCSurveillanceSessions -----------------------
(* One session started twice.                                              *)
EXTENDS SurveillanceSessions, TLC

CONSTANTS s1, q1, q2

MCSession == {s1}
MCStart == {q1, q2}
MCSessionOf == q1 :> s1 @@ q2 :> s1

=============================================================================
