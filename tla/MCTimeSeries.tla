---------------------------- MODULE MCTimeSeries ----------------------------
EXTENDS TimeSeries

\* Two tokens of the four, in alphabetical order.
MCTokenOrder == <<"KWT", "MSQ">>

=============================================================================
