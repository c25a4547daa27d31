--------------------------- MODULE MCPointerInput ----------------------------
(* A surface of 10 pixels in a padding of 1, a desktop narrower and one wider*)
(* than it, pans below and above the threshold in both directions.           *)
EXTENDS PointerInput

MCPlaces == {6}
MCZooms  == {1, 3}
MCPans   == {-12, 60}
MCSizes  == {7, 23}
=============================================================================
