---------------------------- MODULE PreviewSize ----------------------------
(***************************************************************************)
(* The size of the preview in SampleOfCamera2ApiActivity1.  Every true of  *)
(* the surface runs configureCamera, which chooses a size of the camera    *)
(* from the size the AutoFitTextureView has, and gives the view its aspect *)
(* ratio; the view has that ratio only after the next layout, from which   *)
(* the next resume chooses.  Lengths stay below 46341, so that the         *)
(* products of onMeasure do not overflow an int.                           *)
(***************************************************************************)
EXTENDS Naturals, Sequences

CONSTANTS Parents,               \* what the layout may offer the view
          Cameras,               \* the output sizes of a camera, in its order
          MINIMUM_PREVIEW_SIZE,
          None                   \* "no size"

Sizes == [w : Nat \ {0}, h : Nat \ {0}]

ASSUME ParentsAssumption == Parents \subseteq Sizes
ASSUME CamerasAssumption == Cameras \subseteq Seq(Sizes) \ {<<>>}
ASSUME MinimumAssumption == MINIMUM_PREVIEW_SIZE \in Nat
ASSUME NoneAssumption == None \notin Sizes

VARIABLES
    camera,     \* the output sizes of the camera
    landscape,  \* the orientation
    preview,    \* mPreviewSize
    ratio,      \* mRatioWidth and mRatioHeight
    parent,     \* the size the layout offered last
    view,       \* the measured size of the view
    laidOut     \* no layout is requested

vars == <<camera, landscape, preview, ratio, parent, view, laidOut>>

NoSize  == [w |-> 0, h |-> 0]
SizesOf(c) == {c[i] : i \in DOMAIN c}

TypeOK ==
    /\ camera \in Cameras /\ landscape \in BOOLEAN
    /\ preview \in Sizes \cup {None}
    /\ ratio \in Sizes \cup {NoSize}
    /\ parent \in Parents \cup {NoSize}
    /\ view \in [w : Nat, h : Nat]
    /\ laidOut \in BOOLEAN

Init ==
    /\ camera \in Cameras /\ landscape \in BOOLEAN
    /\ preview = None /\ ratio = NoSize
    /\ parent = NoSize /\ view = NoSize /\ laidOut = FALSE

-----------------------------------------------------------------------------
Area(s)  == s.w * s.h
Least(s) == IF s.w <= s.h THEN s.w ELSE s.h
Turned(s) == [w |-> s.h, h |-> s.w]

(* The sizes that are not rejected: both sides reach the shorter side that  *)
(* is desired, and the minimum.                                             *)
BigEnough(c, desired) ==
    {i \in DOMAIN c : \A m \in {Least(desired), MINIMUM_PREVIEW_SIZE} :
                          c[i].w >= m /\ c[i].h >= m}

(* FAULT: the desired size whether or not the camera has it.                *)
ChooseDesired(c, desired, s) == s = desired

(* chooseOptimalSize returns s: the desired size if the camera has it, else *)
(* the first of the smallest that are big enough, else the first.           *)
ChooseOptimalSize(c, desired, s) ==
    LET big == BigEnough(c, desired)
    IN  IF desired \in SizesOf(c) THEN s = desired
        ELSE IF big = {} THEN s = c[1]
        ELSE \E i \in big :
                /\ s = c[i]
                /\ \A j \in big : \/ Area(c[i]) < Area(c[j])
                                  \/ Area(c[i]) = Area(c[j]) /\ i <= j

(* FAULT: the ratio is reduced to a whole number to one.                    *)
AspectRatioReduced(s) ==
    LET shown == IF landscape THEN s ELSE Turned(s)
    IN  [w |-> shown.w \div shown.h, h |-> 1]

(* FAULT: the ratio is not turned in portrait.                              *)
AspectRatioUnturned(s) == s

(* What configureCamera gives setAspectRatio: turned in portrait.           *)
AspectRatio(s) == IF landscape THEN s ELSE Turned(s)

(* setAspectRatio keeps the ratio and requests a layout.                    *)
SetAspectRatio(r) == ratio' = r /\ laidOut' = FALSE

(* configureCamera, whatever size the view has by now.  (A camera without a *)
(* map of its sizes throws and changes nothing here: see OpenFails of       *)
(* Camera2Pipeline.)                                                        *)
ConfigureCamera ==
    /\ \E s \in SizesOf(camera) \cup {view} :
          /\ ChooseOptimalSize(camera, view, s)
          /\ preview' = s
          /\ SetAspectRatio(AspectRatio(s))
    /\ UNCHANGED <<camera, landscape, parent, view>>

(* FAULT: the test of which side limits the view is the wrong way round.    *)
MeasuredWrongSide(p, r) ==
    IF r.w = 0 \/ r.h = 0 THEN p
    ELSE IF p.w > (p.h * r.w) \div r.h
      THEN [w |-> p.w, h |-> (p.w * r.h) \div r.w]
      ELSE [w |-> (p.h * r.w) \div r.h, h |-> p.h]

(* What onMeasure sets for an offer of p and a ratio of r.                  *)
Measured(p, r) ==
    IF r.w = 0 \/ r.h = 0 THEN p
    ELSE IF p.w < (p.h * r.w) \div r.h
      THEN [w |-> p.w, h |-> (p.w * r.h) \div r.w]
      ELSE [w |-> (p.h * r.w) \div r.h, h |-> p.h]

(* onMeasure, in a layout that was requested or that the window changed.    *)
OnMeasure ==
    /\ parent' \in Parents
    /\ view' = Measured(parent', ratio)
    /\ laidOut' = TRUE
    /\ UNCHANGED <<camera, landscape, preview, ratio>>

Next == ConfigureCamera \/ OnMeasure

Spec == Init /\ [][Next]_vars

-----------------------------------------------------------------------------
(* onMeasure never asks for more than it is offered, and uses all of one    *)
(* side of it, whatever size was chosen and however the divisions round.    *)
ViewFits ==
    /\ view.w <= parent.w /\ view.h <= parent.h
    /\ view.w = parent.w \/ view.h = parent.h

(* A view that is laid out shows the preview as it is: turned as the screen *)
(* is, and off by less than a pixel (configureCamera, onMeasure).           *)
NotStretched ==
    laidOut /\ preview # None =>
        LET shown == IF landscape THEN preview ELSE Turned(preview)
        IN  \/ /\ view.w * shown.h >= view.h * shown.w
               /\ view.w * shown.h < view.h * shown.w + shown.w
            \/ /\ view.h * shown.w >= view.w * shown.h
               /\ view.h * shown.w < view.w * shown.h + shown.h

(* However the view and the choice influenced each other before, the size   *)
(* asked of the camera is one it has.                                       *)
ChosenIsSupported == preview # None => preview \in SizesOf(camera)
=============================================================================
