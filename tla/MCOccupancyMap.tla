--------------------------- MODULE MCOccupancyMap ---------------------------
(***************************************************************************)
(* Instances of OccupancyMap.  One has 4 x 2 x 4 voxels of 0.1 m, three     *)
(* points and two places of the camera, above and below the points; the     *)
(* other is a row of four voxels, for as many rounds as a char has values.  *)
(***************************************************************************)
EXTENDS OccupancyMap

At(x, y, z) == [a \in Axes |-> CASE a = "x" -> x [] a = "y" -> y [] OTHER -> z]

Size == At(4, 2, 4)
Range2 == At(7, 4, 8)

Sensors == {At(1, 1, 6), At(6, 0, 1)}

Low == At(0, 1, 0)
Near == At(3, 0, 3)
Far == At(7, 2, 5)

\* no point, one, two in either order, and one twice
SomeClouds == {<<>>, <<Low>>, <<Far>>, <<Low, Near>>, <<Near, Low>>, <<Far, Far>>}

Corners == {At(0, 0, 0), At(3, 1, 3)}
Unwritten == {[min |-> p, max |-> q] : p, q \in Corners}

RowSize == At(4, 1, 1)
RowSensors == {At(0, 0, 0)}
RowClouds == {<<At(3, 0, 0)>>, <<At(7, 0, 0)>>}
RowUnwritten == {[min |-> At(0, 0, 0), max |-> At(0, 0, 0)]}
=============================================================================
