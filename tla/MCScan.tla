------------------------------- MODULE MCScan -------------------------------
(* Scan on small instances: the scans and activities are numbers, bounded by *)
(* MaxScans and MaxActs.                                                     *)
EXTENDS Scan
=============================================================================
