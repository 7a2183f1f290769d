------------------------------ MODULE MCDemos ------------------------------
\* The instance of Demos that Demos.cfg and the configurations of single programs check.
EXTENDS Demos

CONSTANTS t1, t2, s1, s2, d1, d2, w1, w2, c1, c2, b1, b2

MCInPins  == <<0, 2>>
MCOutPins == <<1, 3>>
MCLeds    == <<0, 1>>
=============================================================================
