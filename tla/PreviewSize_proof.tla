------------------------- MODULE PreviewSize_proof -------------------------
(***************************************************************************)
(* Proofs about PreviewSize for every layout, camera and minimum.  The     *)
(* arithmetic of onMeasure is in MeasuredLemma, which rests on what an     *)
(* integer division leaves.  ProductsFit is the bound on lengths up to     *)
(* which its products are ints.                                            *)
(***************************************************************************)
EXTENDS PreviewSize, Integers, TLAPS

(* What an integer division leaves.                                        *)
LEMMA DivLemma ==
    ASSUME NEW a \in Nat, NEW b \in Nat \ {0}
    PROVE  /\ a \div b \in Nat
           /\ b * (a \div b) <= a
           /\ a < b * (a \div b) + b
<1>1. b > 0  OBVIOUS
<1>2. a = b * (a \div b) + (a % b)
  BY <1>1
<1>3. a % b \in 0..(b - 1)
  BY <1>1
<1>4. a \div b \in Int /\ a \div b \in Nat
  BY <1>1
<1> QED  BY <1>1, <1>2, <1>3, <1>4

(* A product grows with its factor.                                        *)
LEMMA TimesLemma ==
    ASSUME NEW a \in Nat, NEW b \in Nat, NEW c \in Nat \ {0}
    PROVE  /\ a < b <=> c * a < c * b
           /\ a <= b <=> c * a <= c * b
<1>1. a < b => c * a < c * b
  OBVIOUS
<1>2. b < a => c * b < c * a
  OBVIOUS
<1>3. c * a \in Nat /\ c * b \in Nat
  OBVIOUS
<1> QED  BY <1>1, <1>2, <1>3

(* onMeasure in numbers: an offer of a by b and a ratio of x to y.         *)
LEMMA RatioLemma ==
    ASSUME NEW a \in Nat \ {0}, NEW b \in Nat \ {0},
           NEW x \in Nat \ {0}, NEW y \in Nat \ {0}
    PROVE  LET q == (b * x) \div y
               k == (a * y) \div x
           IN  /\ q \in Nat /\ k \in Nat
               /\ y * q <= b * x /\ b * x < y * q + y
               /\ x * k <= a * y /\ a * y < x * k + x
               /\ a < q => k <= b
<1> DEFINE q == (b * x) \div y
           k == (a * y) \div x
<1>1. b * x \in Nat /\ a * y \in Nat
  OBVIOUS
<1>2. q \in Nat /\ y * q <= b * x /\ b * x < y * q + y
  BY <1>1, DivLemma
<1>3. k \in Nat /\ x * k <= a * y /\ a * y < x * k + x
  BY <1>1, DivLemma
<1> HIDE DEF q, k
<1>4. ASSUME a < q PROVE k <= b
  <2>1. y * a < y * q
    BY <1>2, <1>4, TimesLemma
  <2>2. a * y = y * a /\ b * x = x * b
    OBVIOUS
  <2>3. x * k <= x * b
    <3>1. x * k \in Nat /\ y * a \in Nat /\ y * q \in Nat /\ x * b \in Nat
      BY <1>2, <1>3
    <3> QED  BY <1>2, <1>3, <2>1, <2>2, <3>1
  <2> QED  BY <1>3, <2>3, TimesLemma
<1> QED  BY <1>2, <1>3, <1>4 DEF q, k

(* The size onMeasure sets, for a ratio that is set.                       *)
LEMMA MeasuredLemma ==
    ASSUME NEW p \in Sizes, NEW r \in Sizes
    PROVE  LET m == Measured(p, r)
           IN  /\ m \in [w : Nat, h : Nat]
               /\ m.w <= p.w /\ m.h <= p.h
               /\ m.w = p.w \/ m.h = p.h
               /\ \/ m.w * r.h >= m.h * r.w /\ m.w * r.h < m.h * r.w + r.w
                  \/ m.h * r.w >= m.w * r.h /\ m.h * r.w < m.w * r.h + r.h
<1> DEFINE q == (p.h * r.w) \div r.h
           k == (p.w * r.h) \div r.w
           m == Measured(p, r)
<1>1. /\ p.w \in Nat \ {0} /\ p.h \in Nat \ {0}
      /\ r.w \in Nat \ {0} /\ r.h \in Nat \ {0}
  BY DEF Sizes
<1>2. /\ q \in Nat /\ k \in Nat
      /\ r.h * q <= p.h * r.w /\ p.h * r.w < r.h * q + r.h
      /\ r.w * k <= p.w * r.h /\ p.w * r.h < r.w * k + r.w
      /\ p.w < q => k <= p.h
  BY <1>1, RatioLemma
<1>3. m = IF p.w < q THEN [w |-> p.w, h |-> k] ELSE [w |-> q, h |-> p.h]
  BY <1>1 DEF Measured
<1> HIDE DEF q, k, m
<1>4. CASE p.w < q
  <2>1. m.w = p.w /\ m.h = k /\ m \in [w : Nat, h : Nat]
    BY <1>1, <1>2, <1>3, <1>4
  <2>2. r.w * k = k * r.w
    BY <1>1, <1>2
  <2> QED  BY <1>1, <1>2, <1>4, <2>1, <2>2 DEF m
<1>5. CASE ~(p.w < q)
  <2>1. m.w = q /\ m.h = p.h /\ m \in [w : Nat, h : Nat]
    BY <1>1, <1>2, <1>3, <1>5
  <2>2. r.h * q = q * r.h
    BY <1>1, <1>2
  <2> QED  BY <1>1, <1>2, <1>5, <2>1, <2>2 DEF m
<1> QED  BY <1>4, <1>5

(* What was chosen is a size of the camera.                                *)
LEMMA ChosenLemma ==
    ASSUME NEW c \in Cameras, NEW desired, NEW s,
           ChooseOptimalSize(c, desired, s)
    PROVE  s \in SizesOf(c)
<1>1. c \in Seq(Sizes) /\ c # <<>>
  BY CamerasAssumption
<1>2. 1 \in DOMAIN c
  BY <1>1
<1> QED
  BY <1>2 DEF ChooseOptimalSize, SizesOf, BigEnough

(* The ratio is that of the chosen size, and a view that is laid out was   *)
(* measured with it.                                                       *)
RatioInv ==
    /\ ratio = IF preview = None THEN NoSize ELSE AspectRatio(preview)
    /\ laidOut => parent \in Parents /\ view = Measured(parent, ratio)

Inv == TypeOK /\ RatioInv /\ ViewFits /\ ChosenIsSupported

(* A turned size is a size.                                                *)
LEMMA AspectType ==
    ASSUME NEW s \in Sizes
    PROVE  AspectRatio(s) \in Sizes
BY DEF AspectRatio, Turned, Sizes

(* The initial state satisfies the invariant.                              *)
LEMMA InitInv == Init => Inv
<1> SUFFICES ASSUME Init PROVE Inv
  OBVIOUS
<1>1. NoSize \in [w : Nat, h : Nat] /\ NoSize.w = 0 /\ NoSize.h = 0
  BY DEF NoSize
<1>2. TypeOK
  BY <1>1 DEF Init, TypeOK
<1>3. RatioInv /\ ChosenIsSupported
  BY DEF Init, RatioInv, ChosenIsSupported
<1>4. ViewFits
  BY <1>1 DEF Init, ViewFits
<1> QED  BY <1>2, <1>3, <1>4 DEF Inv

(* configureCamera keeps it: the view waits for its layout.                *)
LEMMA ConfigureStep ==
    ASSUME Inv, ConfigureCamera
    PROVE  Inv'
<1> USE DEF Inv
<1>1. PICK s \in SizesOf(camera) \cup {view} :
          /\ ChooseOptimalSize(camera, view, s)
          /\ preview' = s
          /\ ratio' = AspectRatio(s)
  BY DEF ConfigureCamera, SetAspectRatio
<1>2. camera \in Cameras /\ camera \in Seq(Sizes)
  BY CamerasAssumption DEF TypeOK
<1>3. s \in SizesOf(camera)
  BY <1>1, <1>2, ChosenLemma
<1>4. s \in Sizes /\ s # None
  BY <1>2, <1>3, NoneAssumption DEF SizesOf
<1>5. ratio' \in Sizes /\ ratio' = AspectRatio(s)'
  BY <1>1, <1>4, AspectType DEF ConfigureCamera, SetAspectRatio, AspectRatio, Turned
<1>6. UNCHANGED <<camera, landscape, parent, view>> /\ laidOut' = FALSE
  BY DEF ConfigureCamera, SetAspectRatio
<1>7. TypeOK'
  BY <1>1, <1>4, <1>5, <1>6 DEF TypeOK
<1>8. RatioInv'
  BY <1>1, <1>4, <1>5, <1>6 DEF RatioInv, AspectRatio, Turned
<1>9. ViewFits' /\ ChosenIsSupported'
  BY <1>1, <1>3, <1>6 DEF ViewFits, ChosenIsSupported, SizesOf
<1> QED  BY <1>7, <1>8, <1>9

(* onMeasure keeps it, by MeasuredLemma or because no ratio is set yet.    *)
LEMMA MeasureStep ==
    ASSUME Inv, OnMeasure
    PROVE  Inv'
<1> USE DEF Inv
<1>1. /\ parent' \in Parents /\ parent' \in Sizes
      /\ view' = Measured(parent', ratio) /\ laidOut' = TRUE
      /\ UNCHANGED <<camera, landscape, preview, ratio>>
  BY ParentsAssumption DEF OnMeasure
<1>2. /\ view' \in [w : Nat, h : Nat]
      /\ ViewFits'
  <2>1. CASE ratio = NoSize
    <3>1. view' = parent'
      BY <1>1, <2>1 DEF Measured, NoSize
    <3>2. /\ parent'.w \in Nat /\ parent'.h \in Nat
          /\ view' \in [w : Nat, h : Nat]
      BY <1>1, <3>1 DEF Sizes
    <3> QED  BY <3>1, <3>2 DEF ViewFits
  <2>2. CASE ratio \in Sizes
    BY <1>1, <2>2, MeasuredLemma DEF ViewFits
  <2> QED  BY <2>1, <2>2 DEF TypeOK
<1>3. TypeOK'
  BY <1>1, <1>2 DEF TypeOK
<1>4. RatioInv'
  BY <1>1 DEF RatioInv, AspectRatio, Turned
<1>5. ChosenIsSupported'
  BY <1>1 DEF ChosenIsSupported, SizesOf
<1> QED  BY <1>2, <1>3, <1>4, <1>5

(* The invariant holds of every reachable state.                           *)
THEOREM SizeInvariance == Spec => []Inv
<1>1. Inv /\ [Next]_vars => Inv'
  <2> SUFFICES ASSUME Inv, [Next]_vars PROVE Inv'
    OBVIOUS
  <2>1. CASE UNCHANGED vars
    BY <2>1 DEF vars, Inv, TypeOK, RatioInv, ViewFits, ChosenIsSupported,
                AspectRatio, Turned
  <2> QED  BY <2>1, ConfigureStep, MeasureStep DEF Next
<1> QED  BY InitInv, <1>1, PTL DEF Spec

(* The view always has a size, and preview and ratio are sizes once set.   *)
THEOREM SizeTypeCorrect == Spec => []TypeOK
<1>1. Inv => TypeOK
  BY DEF Inv
<1> QED  BY <1>1, SizeInvariance, PTL

(* onMeasure: the view stays within what the layout offers, and fills it   *)
(* in one direction.                                                       *)
THEOREM ViewAlwaysFits == Spec => []ViewFits
<1>1. Inv => ViewFits
  BY DEF Inv
<1> QED  BY <1>1, SizeInvariance, PTL

(* chooseOptimalSize: the size asked of the camera is one it has.          *)
THEOREM SupportedChoice == Spec => []ChosenIsSupported
<1>1. Inv => ChosenIsSupported
  BY DEF Inv
<1> QED  BY <1>1, SizeInvariance, PTL

(* configureCamera and onMeasure: a view that is laid out shows the        *)
(* preview as it is, off by less than a pixel.                             *)
THEOREM PreviewNotStretched == Spec => []NotStretched
<1>1. Inv => NotStretched
  <2> SUFFICES ASSUME Inv, laidOut, preview # None
               PROVE  NotStretched
    BY DEF NotStretched
  <2>1. preview \in Sizes /\ parent \in Sizes
    BY ParentsAssumption DEF Inv, TypeOK, RatioInv
  <2>2. AspectRatio(preview) \in Sizes
    BY <2>1, AspectType
  <2>3. view = Measured(parent, AspectRatio(preview))
    BY DEF Inv, RatioInv
  <2> QED
    BY <2>1, <2>2, <2>3, MeasuredLemma DEF NotStretched, AspectRatio
<1> QED  BY <1>1, SizeInvariance, PTL

-----------------------------------------------------------------------------
(* onMeasure multiplies ints.  Sides up to the root of the largest int are *)
(* as far as nothing overflows.                                            *)
MaxInt  == 2147483647
MaxSide == 46340
Short(s) == s.w <= MaxSide /\ s.h <= MaxSide

ProductsInRange ==
    \A p \in Parents : p.h * ratio.w <= MaxInt /\ p.w * ratio.h <= MaxInt

LEMMA ProductLemma ==
    ASSUME NEW a \in Nat, NEW b \in Nat, a <= MaxSide, b <= MaxSide
    PROVE  a * b <= MaxInt
<1>1. MaxSide \in Nat \ {0} /\ MaxSide * MaxSide <= MaxInt
  BY DEF MaxSide, MaxInt
<1>2. CASE a = 0
  <2>1. a * b = 0
    BY <1>2
  <2> QED  BY <2>1 DEF MaxInt
<1>3. CASE a # 0
  <2>1. a * b <= a * MaxSide
    BY <1>1, <1>3, TimesLemma
  <2>2. MaxSide * a <= MaxSide * MaxSide
    BY <1>1, TimesLemma
  <2>3. /\ a * b \in Nat /\ a * MaxSide \in Nat /\ a * MaxSide = MaxSide * a
        /\ MaxSide * MaxSide \in Nat /\ MaxInt \in Nat
    BY <1>1 DEF MaxInt
  <2> QED  BY <1>1, <2>1, <2>2, <2>3
<1> QED  BY <1>2, <1>3

(* The bound of PreviewSize on lengths is the one it needs: whatever size  *)
(* was chosen, and whatever the layout offers next, the products of        *)
(* onMeasure are the ints that the code computes.                          *)
THEOREM ProductsFit ==
    ASSUME \A p \in Parents : Short(p),
           \A c \in Cameras : \A s \in SizesOf(c) : Short(s)
    PROVE  Spec => []ProductsInRange
<1>1. Inv => ProductsInRange
  <2> SUFFICES ASSUME Inv, NEW p \in Parents
               PROVE  p.h * ratio.w <= MaxInt /\ p.w * ratio.h <= MaxInt
    BY DEF ProductsInRange
  <2>1. p.w \in Nat /\ p.h \in Nat /\ Short(p)
    BY ParentsAssumption DEF Sizes
  <2>2. ratio.w \in Nat /\ ratio.h \in Nat /\ Short(ratio)
    <3>1. CASE preview = None
      BY <3>1 DEF Inv, RatioInv, NoSize, Short, MaxSide
    <3>2. CASE preview # None
      <4>1. preview \in Sizes /\ preview \in SizesOf(camera) /\ camera \in Cameras
        BY <3>2 DEF Inv, TypeOK, ChosenIsSupported
      <4>2. Short(preview)
        BY <4>1
      <4>3. ratio = AspectRatio(preview)
        BY <3>2 DEF Inv, RatioInv
      <4> QED  BY <4>1, <4>2, <4>3 DEF AspectRatio, Turned, Sizes, Short
    <3> QED  BY <3>1, <3>2
  <2> QED  BY <2>1, <2>2, ProductLemma DEF Short
<1> QED  BY <1>1, SizeInvariance, PTL
=============================================================================
