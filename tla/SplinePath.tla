----------------------------- MODULE SplinePath ----------------------------
(***************************************************************************)
(* How a trajectory becomes a path on the map: segmentToCoefficientSet,    *)
(* resolveSpline and bezierControlPoints (react-components/lib/utils/      *)
(* geometry.ts), put together by trajectoryPath (lib/map/trajectory.ts).   *)
(*                                                                         *)
(* Numbers are integers: the velocities are multiples of the durations,    *)
(* the point at n / m is taken m * m * m times, and control points three   *)
(* times, which the code divides by three.  The heading is like x and y.   *)
(***************************************************************************)
EXTENDS Integers, Sequences

CONSTANTS
    KnotPoses,        \* where a knot may be, <<x, y>>
    KnotVelocities,   \* its velocity, <<x, y>>
    Durations,        \* the time since the knot before
    MaxKnots,         \* bound
    Grid              \* points of a segment that are looked at

ASSUME SplineAssumption ==
    /\ KnotPoses \subseteq Int \X Int /\ KnotVelocities \subseteq Int \X Int
    /\ Durations \subseteq Nat \ {0} /\ MaxKnots \in Nat \ {0} /\ Grid \in Nat \ {0}
    /\ \A v \in KnotVelocities, dt \in Durations : v[1] % dt = 0 /\ v[2] % dt = 0

VARIABLE knots   \* the knots of the trajectory, [pose, velocity, time]

Knot(pose, velocity, time) == [pose |-> pose, velocity |-> velocity, time |-> time]

SplineInit ==
    \E p \in KnotPoses, v \in KnotVelocities : knots = <<Knot(p, v, 0)>>

\* The schedule plans one knot further.
AddKnot ==
    /\ Len(knots) < MaxKnots
    /\ \E p \in KnotPoses, v \in KnotVelocities, dt \in Durations :
          knots' = Append(knots, Knot(p, v, knots[Len(knots)].time + dt))

SplineNext == AddKnot

SplineSpec == SplineInit /\ [][SplineNext]_knots

-----------------------------------------------------------------------------
\* Mutant: w0 counts once.
CoefficientsOnce(x0, x1, w0, w1) ==
    [a |-> w1 + w0 - 2 * x1 + 2 * x0, b |-> 3 * x1 - w1 - w0 - 3 * x0, c |-> w0, d |-> x0]

\* segmentToCoefficientSet, from the poses at both ends and what is left of the
\* velocities there.
Coefficients(x0, x1, w0, w1) ==
    [a |-> w1 + w0 - 2 * x1 + 2 * x0, b |-> 3 * x1 - w1 - 2 * w0 - 3 * x0, c |-> w0, d |-> x0]

\* knotsToSegmentCoefficientsArray, the coordinate k of segment i.
SegmentOf(ks, i, k) ==
    LET dt == ks[i + 1].time - ks[i].time
    IN Coefficients(ks[i].pose[k], ks[i + 1].pose[k],
                    ks[i].velocity[k] \div dt, ks[i + 1].velocity[k] \div dt)

\* resolveSpline at n / m.
Resolve(cs, n, m) ==
    cs.a * n * n * n + cs.b * n * n * m + cs.c * n * m * m + cs.d * m * m * m

\* bezierHelper
ControlPoints(cs) ==
    LET p0 == 3 * cs.d
        p1 == cs.c + p0
        p2 == cs.b - p0 + 2 * p1
    IN <<p0, p1, p2, 3 * cs.a + p0 - 3 * p1 + 3 * p2>>

\* The point of a cubic Bezier curve at n / m, as SVG draws it.
Bezier(p, n, m) ==
    LET r == m - n
    IN p[1] * r * r * r + 3 * p[2] * r * r * n + 3 * p[3] * r * n * n + p[4] * n * n * n

\* getPositionFromSegmentCoefficientsArray: the first segment with the time in
\* it, and else the one the loop ended with.
SegmentAt(ks, time) ==
    LET at == {i \in 1 .. Len(ks) - 1 : ks[i].time <= time /\ time <= ks[i + 1].time}
    IN IF at = {} THEN Len(ks) - 1 ELSE CHOOSE i \in at : \A j \in at : i <= j

-----------------------------------------------------------------------------
Segments == 1 .. Len(knots) - 1

\* The times of a trajectory only grow, and a segment starts at its knot.
SplineTypeOK ==
    /\ Len(knots) \in 1 .. MaxKnots
    /\ \A i \in Segments : knots[i].time < knots[i + 1].time
    /\ \A i \in Segments, k \in {1, 2} :
          SegmentOf(knots, i, k).d = knots[i].pose[k]

\* The path has no gap: it is drawn from the first control point of the first
\* curve through the other three of each, and these are at the knots.
PathThroughKnots ==
    \A i \in Segments, k \in {1, 2} :
        LET p == ControlPoints(SegmentOf(knots, i, k))
        IN p[1] = 3 * knots[i].pose[k] /\ p[4] = 3 * knots[i + 1].pose[k]

\* What is drawn is the spline, at every point of the grid.
BezierIsSpline ==
    \A i \in Segments, k \in {1, 2}, n \in 0 .. Grid :
        LET cs == SegmentOf(knots, i, k)
        IN Bezier(ControlPoints(cs), n, Grid) = 3 * Resolve(cs, n, Grid)

\* The path has no kink: at a knot it goes on in the direction it came from,
\* whatever the durations of the two segments are.
NoKink ==
    \A i \in Segments \ {Len(knots) - 1} :
        LET came(k)  == LET p == ControlPoints(SegmentOf(knots, i, k)) IN p[4] - p[3]
            leaves(k) == LET p == ControlPoints(SegmentOf(knots, i + 1, k)) IN p[2] - p[1]
        IN /\ came(1) * leaves(2) = came(2) * leaves(1)
           /\ came(1) * leaves(1) + came(2) * leaves(2) >= 0

\* At the time of a knot the position is the knot.
PositionAtKnots ==
    \A j \in DOMAIN knots, k \in {1, 2} :
        Len(knots) > 1 =>
            LET i  == SegmentAt(knots, knots[j].time)
                dt == knots[i + 1].time - knots[i].time
            IN Resolve(SegmentOf(knots, i, k), knots[j].time - knots[i].time, dt)
                  = knots[j].pose[k] * dt * dt * dt

\* The path on the map is the spline of the trajectory: drawn without gap or kink
\* through its knots, and each knot is reached at its time.
PathIsSpline ==
    /\ PathThroughKnots
    /\ BezierIsSpline
    /\ NoKink
    /\ PositionAtKnots
=============================================================================
