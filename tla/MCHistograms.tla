---------------------------- MODULE MCHistograms ----------------------------
(* A small instance of Histograms: steps of one, then wider ones, of which *)
(* the array covers the first four buckets; values on, between and beyond  *)
(* the ends of the intervals.                                              *)
EXTENDS Histograms

MCBuckets == <<0, 1, 2, 4, 7, 9>>
MCScales == {<<0, 1>>, <<-1, 2>>}
MCValues == {-2, 1, 4, 6, 30}
=============================================================================
