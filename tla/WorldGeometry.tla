--------------------------- MODULE WorldGeometry ---------------------------
(***************************************************************************)
(* The two-dimensional world of the simulation bridge, in centimetres: the *)
(* three distance sensors and the limit a solid sets to a straight move,   *)
(* for headings along the axes.  Rays and paths are followed on a grid of  *)
(* Grid centimetres, so a result is exact at flat sides and at most one    *)
(* Grid off at a rounded corner.  A world is its bounds and its solids,    *)
(* each a box; solids are widened by a margin, rounded at the corners.     *)
(***************************************************************************)
EXTENDS Integers, FiniteSetsExt

CONSTANTS
    Grid,         \* the step in which distances are measured
    SensorRange   \* sensor_max_range_m

ASSUME GridAssumption == Grid \in Nat \ {0} /\ SensorRange \in Nat

FootprintRadius == 35
MotionMargin == FootprintRadius + 25

Box(minX, maxX, minY, maxY) ==
    [minX |-> minX, maxX |-> maxX, minY |-> minY, maxY |-> maxY]

\* How far n is from the interval.
Gap(n, lo, hi) == IF n < lo THEN lo - n ELSE IF n > hi THEN n - hi ELSE 0

DistanceSquared(p, box) ==
    LET dx == Gap(p.x, box.minX, box.maxX)
        dy == Gap(p.y, box.minY, box.maxY)
    IN  dx * dx + dy * dy

\* The point d ahead of p in direction dir, a unit step along an axis.
Ahead(p, dir, d) == [x |-> p.x + d * dir.x, y |-> p.y + d * dir.y]

Marks(distance) == {d \in 0 .. distance : d % Grid = 0}

\* The centre must stay margin away from the bounds.
Inside(p, bounds, margin) ==
    /\ bounds.minX + margin <= p.x /\ p.x <= bounds.maxX - margin
    /\ bounds.minY + margin <= p.y /\ p.y <= bounds.maxY - margin

\* A ray ends where it touches a solid widened by the robot's footprint, or
\* the last point inside of the bounds.
RayEnds(world, p) ==
    \/ \E box \in world.solids :
          DistanceSquared(p, box) <= FootprintRadius * FootprintRadius
    \/ ~Inside(p, world.bounds, FootprintRadius + Grid)

RayDistance(world, p, dir) ==
    Min({SensorRange} \cup
        {d \in Marks(SensorRange) : RayEnds(world, Ahead(p, dir, d))})

\* Mutant: the clearance is forgotten, only the footprint keeps its distance.
Touches(world, p) ==
    \/ \E box \in world.solids :
          DistanceSquared(p, box) < FootprintRadius * FootprintRadius
    \/ ~Inside(p, world.bounds, FootprintRadius)

\* Where the centre must not go: a solid widened by footprint and clearance,
\* whose very border it may follow, or too close to the bounds.
Forbidden(world, p) ==
    \/ \E box \in world.solids :
          DistanceSquared(p, box) < MotionMargin * MotionMargin
    \/ ~Inside(p, world.bounds, MotionMargin)

\* constrain_move for a forward move: how much of distance is free.
AllowedMove(world, p, dir, distance) ==
    LET shut == {d \in Marks(distance) \ {0} : Forbidden(world, Ahead(p, dir, d))}
    IN  IF shut = {} THEN distance ELSE Min(shut) - Grid
=============================================================================
