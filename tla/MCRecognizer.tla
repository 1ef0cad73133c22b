---------------------------- MODULE MCRecognizer ----------------------------
(* The README's 1 second and 0.2 seconds in units of 0.1 seconds, halved:  *)
(* idleTime 5, resetTime 1.  A send may outlast the resting time.          *)
EXTENDS Recognizer

MCMinElapsed == -3
=============================================================================
