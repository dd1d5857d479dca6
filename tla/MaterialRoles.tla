---------------------------- MODULE MaterialRoles ----------------------------
(* MaterialRoles.cpp, PaletteBuilder.cpp and PaletteValidation.cpp of the     *)
(* MaterialColor plugin: how the tones of a colour scheme's roles are derived *)
(* from each other and which palettes the shell accepts.                      *)
(*                                                                            *)
(* resolveTone is a memoised recursion: the tone of a role is computed from   *)
(* the tones of the roles it is painted on and of the role it is kept apart   *)
(* from. The model keeps the recursion as a stack of the roles being          *)
(* resolved, so that a table that makes a role wait for itself is a state.    *)
(*                                                                            *)
(* A colour is its tone, counted in fifths (0 .. 500), and a contrast ratio   *)
(* is counted in hundredths. What the colour space can show is abstracted to  *)
(* reach, the lowest and the highest tone at which a palette keeps its chroma *)
(* (the accents never meet, so one reach stands for each of them in turn). A  *)
(* role is a pair <<family, kind>>: <<"primary", "onContainer">> is           *)
(* onPrimaryContainer.                                                        *)
EXTENDS Parts, SequencesExt

CONSTANTS
    Variants2025,   \* the scheme variants resolved under the 2025 rules
    Variants2021,   \* the scheme variants resolved under the 2021 rules
    Contrasts,      \* contrast levels, in hundredths
    Hues,           \* hues of the source colour, in degrees
    Reaches,        \* pairs of tones: where a palette keeps its chroma
    SourceTones     \* tones of the source colour

ASSUME PaletteAssumption ==
    /\ Variants2025 \subseteq {"tonalSpot", "neutral", "vibrant", "expressive"}
    /\ Variants2021 \subseteq {"fruitSalad", "monochrome", "rainbow", "fidelity", "content"}
    /\ Contrasts \subseteq Int /\ Hues \subseteq 0..359
    /\ Reaches \subseteq (0..100) \X (0..100) /\ SourceTones \subseteq 0..100

VARIABLES
    scheme,     \* MaterialScheme: variant, mode, contrast and source colour
    defs,       \* definition(role) of each role, under the scheme
    built,      \* buildFromArgb: how many roles the loop has asked for
    stack,      \* the calls of resolveTone that have not returned
    toneCache,  \* mToneCache: the tones resolved so far
    verdict     \* "building", "accepted", or "rejected" by validatePalette

palette == <<scheme, defs, built, stack, toneCache, verdict>>

(****************************************************************************)
(* The contrast arithmetic of material_color_utilities (a submodule).       *)
(****************************************************************************)
Tones == 0..500
Clamp(low, high, t) == IF t < low THEN low ELSE IF t > high THEN high ELSE t

(* The luminance of a tone, where 1000000 is white; a pair may leave the     *)
(* tones by its delta before it is settled.                                  *)
Luminance == [t \in -25..525 |-> IF t > 40 THEN ((t + 80) ^ 3) \div 195 ELSE (t * 2214) \div 10]

RatioOfTones(a, b) ==
    LET y == Luminance[a]
        z == Luminance[b]
    IN  IF y > z THEN ((y + 50000) * 100) \div (z + 50000)
                 ELSE ((z + 50000) * 100) \div (y + 50000)

(* The nearest lighter and the nearest darker tone that reach a ratio, with  *)
(* the library's margin of 0.4, or the lightest and the darkest there is.    *)
LighterUnsafe(t, ratio) ==
    LET reaching == {u \in t..500 : RatioOfTones(t, u) >= ratio}
    IN  IF reaching = {} \/ Min(reaching) + 2 > 500 THEN 500 ELSE Min(reaching) + 2
DarkerUnsafe(t, ratio) ==
    LET reaching == {u \in 0..t : RatioOfTones(t, u) >= ratio}
    IN  IF reaching = {} \/ Max(reaching) - 2 < 0 THEN 0 ELSE Max(reaching) - 2
TonePrefersLightForeground(t) == t < 298

ForegroundTone(t, ratio) ==
    LET light == LighterUnsafe(t, ratio)
        dark  == DarkerUnsafe(t, ratio)
        ofLight == RatioOfTones(t, light)
        ofDark  == RatioOfTones(t, dark)
        alike == ofLight < ratio /\ ofDark < ratio /\ ofLight - ofDark \in -9..9
    IN  IF TonePrefersLightForeground(t)
        THEN IF ofLight >= ratio \/ ofLight >= ofDark \/ alike THEN light ELSE dark
        ELSE IF ofDark >= ratio \/ ofDark >= ofLight THEN dark ELSE light

(****************************************************************************)
(* The scheme and its palettes.                                             *)
(****************************************************************************)
Spec2025(s) == s.variant \in Variants2025
IsFidelity(s) == s.variant \in {"fidelity", "content"}
IsMonochrome(s) == s.variant = "monochrome"
ByMode(s, dark, light) == IF s.isDark THEN dark ELSE light

(* The value of a curve <<low, normal, medium, high>> at the contrast level. *)
CurveAt(curve, level) ==
    LET Between(a, b, n, whole) == a + ((b - a) * n) \div whole
    IN  CASE level <= -100 -> curve[1]
          [] level > -100 /\ level < 0 -> Between(curve[1], curve[2], level + 100, 100)
          [] level >= 0 /\ level < 50  -> Between(curve[2], curve[3], level, 50)
          [] level >= 50 /\ level < 100 -> Between(curve[3], curve[4], level - 50, 50)
          [] level >= 100 -> curve[4]

\* fault: all but the largest ratios share a curve.
WeakContrastCurve(ratio) == IF ratio <= 600 THEN <<150, 150, 300, 550>> ELSE <<700, 700, 1100, 2100>>

DefaultContrastCurve(ratio) ==
    CASE ratio = 150 -> <<150, 150, 300, 550>>
      [] ratio = 300 -> <<300, 300, 450, 700>>
      [] ratio = 450 -> <<450, 450, 700, 1100>>
      [] ratio = 600 -> <<600, 600, 700, 1100>>
      [] ratio = 700 -> <<700, 700, 1100, 2100>>
      [] ratio \in {900, 1100} -> <<ratio, ratio, IF ratio = 900 THEN 1100 ELSE 2100, 2100>>

(* The hue turned by the rotation of the band it lies in; beyond the last    *)
(* band the hue itself is the rotation.                                      *)
RotatedHue(hue, breakpoints, rotations) ==
    LET band == {i \in 1..Len(breakpoints) - 1 :
                    i <= Len(rotations) /\ breakpoints[i] <= hue /\ hue < breakpoints[i + 1]}
    IN  (hue + (IF band = {} THEN hue ELSE rotations[Min(band)])) % 360

IsYellowHue(hue) == 105 <= hue /\ hue < 125
IsCyanHue(hue) == 170 <= hue /\ hue < 207

NeutralHue(s) ==
    CASE s.variant = "expressive" ->
            RotatedHue(s.hue, <<0, 71, 124, 253, 278, 300, 360>>, <<10, 0, 10, 0, 10, 0>>)
      [] s.variant = "vibrant" ->
            RotatedHue(s.hue, <<0, 38, 105, 140, 333, 360>>, <<-14, 10, -14, 10, -14>>)
      [] OTHER -> s.hue

TertiaryHue(s) ==
    CASE s.variant = "neutral" ->
            RotatedHue(s.hue, <<0, 38, 105, 161, 204, 278, 333, 360>>, <<-32, 26, 10, -39, 24, -15, -32>>)
      [] s.variant = "tonalSpot" ->
            RotatedHue(s.hue, <<0, 20, 71, 161, 333, 360>>, <<-40, 48, -32, 40, -32>>)
      [] s.variant = "expressive" ->
            RotatedHue(s.hue, <<0, 105, 140, 204, 253, 278, 300, 333, 360>>,
                       <<-165, 160, -105, 101, -101, -160, -170, -165>>)
      [] s.variant = "vibrant" ->
            RotatedHue(s.hue, <<0, 38, 71, 105, 140, 161, 253, 333, 360>>,
                       <<-72, 35, 24, -24, 62, 50, 62, -72>>)

(* The highest and the lowest tone that keeps most of the palette's chroma.  *)
TMaxC(s, low, high) == Clamp(low, high, s.reach[2])
TMinC(s, low, high) == Clamp(low, high, s.reach[1])

(* find_desired_chroma_by_tone: from the tone towards the reach, one step    *)
(* too far when the chroma falls at the first step.                          *)
DesiredChromaTone(s, tone, downwards) ==
    IF downwards
    THEN IF tone > s.reach[2] THEN s.reach[2] ELSE IF tone < s.reach[1] THEN tone - 1 ELSE tone
    ELSE IF tone < s.reach[1] THEN s.reach[1] ELSE IF tone > s.reach[2] THEN tone + 1 ELSE tone

(* FixIfDisliked (a submodule) lightens a bilious dark colour.               *)
LikedTone(s) == IF s.disliked /\ s.sourceTone < 65 THEN 70 ELSE s.sourceTone

(****************************************************************************)
(* The roles, in the order of their enumeration. The palettes' key colours  *)
(* are left out: no role depends on them.                                   *)
(****************************************************************************)
SurfaceTexts == {"onBackground", "onSurface", "onSurfaceVariant", "inverseOnSurface",
                 "outline", "outlineVariant", "shadow", "scrim"}
FixedKinds == {"fixed", "fixedDim", "onFixed", "onFixedVariant"}
Surface(kind) == <<"surface", kind>>

Roles ==
    LET Of(family, kinds) == [i \in DOMAIN kinds |-> <<family, kinds[i]>>]
        fixed == <<"fixed", "fixedDim", "onFixed", "onFixedVariant">>
        plain == <<"base", "dim", "on", "container", "onContainer">>
    IN  Of("surface", <<"background", "onBackground", "surface", "surfaceDim", "surfaceBright",
                        "containerLowest", "containerLow", "container", "containerHigh",
                        "containerHighest", "onSurface", "surfaceVariant", "onSurfaceVariant",
                        "outline", "outlineVariant", "inverseSurface", "inverseOnSurface",
                        "shadow", "scrim", "surfaceTint">>)
        \o Of("primary", plain \o <<"inverse">> \o fixed) \o Of("secondary", plain \o fixed)
        \o Of("tertiary", plain \o fixed) \o Of("error", plain)

(****************************************************************************)
(* The definition of a role: its own tone or the role whose tone it takes,  *)
(* the roles it is painted on, the contrast it wants there, and the role it *)
(* is kept a distance from.                                                 *)
(****************************************************************************)
HighestSurface(s) == Surface(ByMode(s, "surfaceBright", "surfaceDim"))

Text(tone, on, curve) ==
    [tone |-> 5 * tone, like |-> {}, on |-> on, curve |-> curve, pair |-> {}, isBackground |-> FALSE]
TextLike(role, on, curve) == [Text(0, on, curve) EXCEPT !.like = {role}]
Ground(tone) == [Text(tone, <<>>, <<>>) EXCEPT !.isBackground = TRUE]
Accent(tone, on, curve, pair) ==
    [Text(tone, on, curve) EXCEPT !.isBackground = TRUE, !.pair = pair]

Pair(a, b, delta, polarity, stayTogether, constraint) ==
    {[a |-> a, b |-> b, delta |-> 5 * delta, polarity |-> polarity,
      stayTogether |-> stayTogether, constraint |-> constraint]}

(* color_spec_2021: the surfaces and what is written on them.                *)
Surface2021(s, kind) ==
    LET Curve(a, b, c, d) == CurveAt(<<a, b, c, d>>, s.contrast)
    IN  CASE kind \in {"background", "surface"} -> Ground(ByMode(s, 6, 98))
          [] kind = "surfaceDim"       -> Ground(ByMode(s, 6, Curve(87, 87, 80, 75)))
          [] kind = "surfaceBright"    -> Ground(ByMode(s, Curve(24, 24, 29, 34), 98))
          [] kind = "containerLowest"  -> Ground(ByMode(s, Curve(4, 4, 2, 0), 100))
          [] kind = "containerLow"     -> Ground(ByMode(s, Curve(10, 10, 11, 12), Curve(96, 96, 96, 95)))
          [] kind = "container"        -> Ground(ByMode(s, Curve(12, 12, 16, 20), Curve(94, 94, 92, 90)))
          [] kind = "containerHigh"    -> Ground(ByMode(s, Curve(17, 17, 21, 25), Curve(92, 92, 88, 85)))
          [] kind = "containerHighest" -> Ground(ByMode(s, Curve(22, 22, 26, 30), Curve(90, 90, 84, 80)))
          [] kind = "surfaceVariant"   -> Ground(ByMode(s, 30, 90))
          [] kind = "inverseSurface"   -> Ground(ByMode(s, 90, 20))
          [] kind = "surfaceTint"      -> Ground(ByMode(s, 80, 40))

SurfaceText2021(s, kind) ==
    CASE kind = "onBackground" ->
            Text(ByMode(s, 90, 10), <<Surface("background")>>, <<300, 300, 450, 700>>)
      [] kind = "onSurface" ->
            Text(ByMode(s, 90, 10), <<HighestSurface(s)>>, <<450, 700, 1100, 2100>>)
      [] kind = "onSurfaceVariant" ->
            Text(ByMode(s, 80, 30), <<HighestSurface(s)>>, <<300, 450, 700, 1100>>)
      [] kind = "inverseOnSurface" ->
            Text(ByMode(s, 20, 95), <<Surface("inverseSurface")>>, <<450, 700, 1100, 2100>>)
      [] kind = "outline" ->
            Text(ByMode(s, 60, 50), <<HighestSurface(s)>>, <<150, 300, 450, 700>>)
      [] kind = "outlineVariant" ->
            Text(ByMode(s, 30, 80), <<HighestSurface(s)>>, <<100, 100, 300, 450>>)
      [] kind \in {"shadow", "scrim"} -> Text(0, <<>>, <<>>)

(* The tone of a container before it is kept apart from its accent: the      *)
(* fidelity variants follow the source colour.                               *)
Container2021(s, family) ==
    CASE IsMonochrome(s) ->
            (CASE family = "primary" -> ByMode(s, 85, 25) [] family = "secondary" -> ByMode(s, 30, 85)
               [] family = "tertiary" -> ByMode(s, 60, 49) [] family = "error" -> ByMode(s, 30, 90))
      [] IsFidelity(s) ->
            (CASE family = "primary" -> s.sourceTone
               [] family = "secondary" -> DesiredChromaTone(s, ByMode(s, 30, 90), ~s.isDark)
               [] family = "tertiary" -> LikedTone(s) [] family = "error" -> ByMode(s, 30, 90))
      [] OTHER -> ByMode(s, 30, 90)

Accent2021(s, family, kind) ==
    LET container == <<family, "container">>
        base      == <<family, "base">>
        apart     == Pair(container, base, 10, "nearer", FALSE, "exact")
        grey      == IsMonochrome(s)
    IN  CASE kind = "base" ->
                Accent(IF grey /\ family = "primary" THEN ByMode(s, 100, 0)
                       ELSE IF grey /\ family = "tertiary" THEN ByMode(s, 90, 25) ELSE ByMode(s, 80, 40),
                       <<HighestSurface(s)>>, <<300, 450, 700, 700>>, apart)
          [] kind = "container" ->
                Accent(Container2021(s, family), <<HighestSurface(s)>>, <<100, 100, 300, 450>>, apart)
          [] kind = "on" ->
                Text(IF grey /\ family \in {"primary", "tertiary"} THEN ByMode(s, 10, 90)
                     ELSE IF grey /\ family = "secondary" THEN ByMode(s, 10, 100) ELSE ByMode(s, 20, 100),
                     <<base>>, <<450, 700, 1100, 2100>>)
          [] kind = "onContainer" /\ IsFidelity(s) /\ family # "error" ->
                [Text(0, <<container>>, <<300, 450, 700, 1100>>)
                   EXCEPT !.tone = ForegroundTone(5 * Container2021(s, family), 450)]
          [] kind = "onContainer" /\ ~(IsFidelity(s) /\ family # "error") ->
                Text(IF ~grey THEN ByMode(s, 90, 30)
                     ELSE IF family \in {"primary", "tertiary"} THEN ByMode(s, 0, 100) ELSE ByMode(s, 90, 10),
                     <<container>>, <<300, 450, 700, 1100>>)
          [] kind = "inverse" -> Text(ByMode(s, 40, 80), <<Surface("inverseSurface")>>, <<300, 450, 700, 700>>)

(* The fixed accents keep their tones in both modes; what is written on them *)
(* must be legible on the dim one and on the plain one.                      *)
Fixed2021(s, family, kind) ==
    LET fixed  == <<family, "fixed">>
        dim    == <<family, "fixedDim">>
        apart  == Pair(fixed, dim, 10, "lighter", TRUE, "exact")
        grey   == IsMonochrome(s)
        second == family = "secondary"
        Grey(a, b) == IF ~second THEN a ELSE b
    IN  CASE kind = "fixed" ->
                Accent(IF grey THEN Grey(40, 80) ELSE 90, <<HighestSurface(s)>>, <<100, 100, 300, 450>>, apart)
          [] kind = "fixedDim" ->
                Accent(IF grey THEN Grey(30, 70) ELSE 80, <<HighestSurface(s)>>, <<100, 100, 300, 450>>, apart)
          [] kind = "onFixed" ->
                Text(IF grey THEN Grey(100, 10) ELSE 10, <<dim, fixed>>, <<450, 700, 1100, 2100>>)
          [] kind = "onFixedVariant" ->
                Text(IF grey THEN Grey(90, 25) ELSE 30, <<dim, fixed>>, <<300, 450, 700, 1100>>)

(* The dim accents, whose definition serves both specifications.             *)
Dim(s, family) ==
    LET tone ==
          CASE family = "primary" -> IF s.variant = "neutral" THEN 85
                                     ELSE TMaxC(s, 0, IF s.variant = "tonalSpot" THEN 90 ELSE 100)
            [] family = "secondary" -> IF s.variant = "neutral" THEN 85 ELSE TMaxC(s, 0, 90)
            [] family = "tertiary" -> TMaxC(s, 0, IF s.variant = "tonalSpot" THEN 90 ELSE 100)
            [] family = "error" -> TMinC(s, 0, 100)
    IN  Accent(tone, <<Surface("containerHigh")>>, DefaultContrastCurve(450),
               Pair(<<family, "dim">>, <<family, "base">>, 5, "darker", TRUE, "farther"))

Definition2021(s, role) ==
    CASE role[1] = "surface" /\ role[2] \in SurfaceTexts -> SurfaceText2021(s, role[2])
      [] role[1] = "surface" /\ role[2] \notin SurfaceTexts -> Surface2021(s, role[2])
      [] role[2] \in FixedKinds -> Fixed2021(s, role[1], role[2])
      [] role[2] = "dim" -> Dim(s, role[1])
      [] OTHER -> Accent2021(s, role[1], role[2])

(* color_spec_2025: the surfaces, lighter on a yellow paper, and their texts.*)
Surface2025(s, kind) ==
    LET Paper(dark, yellow, vibrant, plain) ==
          Ground(IF s.isDark THEN dark
                 ELSE IF IsYellowHue(NeutralHue(s)) THEN yellow
                 ELSE IF s.variant = "vibrant" THEN vibrant ELSE plain)
    IN  CASE kind \in {"background", "surface"} -> Paper(4, 99, 97, 98)
          [] kind = "surfaceDim"       -> Paper(4, 90, 85, 87)
          [] kind = "surfaceBright"    -> Paper(18, 99, 97, 98)
          [] kind = "containerLowest"  -> Ground(ByMode(s, 0, 100))
          [] kind = "containerLow"     -> Paper(6, 98, 95, 96)
          [] kind = "container"        -> Paper(9, 96, 92, 94)
          [] kind = "containerHigh"    -> Paper(12, 94, 90, 92)
          [] kind \in {"containerHighest", "surfaceVariant"} -> Paper(15, 92, 88, 90)
          [] kind = "inverseSurface"   -> Ground(ByMode(s, 98, 4))

(* A text without a tone of its own starts from the tone it is written on.   *)
SurfaceText2025(s, kind) ==
    CASE kind \in {"onSurface", "onBackground"} ->
            LET curve == DefaultContrastCurve(ByMode(s, 1100, 900))
            IN  IF s.variant = "vibrant" THEN Text(TMaxC(s, 0, 100), <<HighestSurface(s)>>, curve)
                ELSE TextLike(HighestSurface(s), <<HighestSurface(s)>>, curve)
      [] kind = "onSurfaceVariant" ->
            TextLike(HighestSurface(s), <<HighestSurface(s)>>, DefaultContrastCurve(ByMode(s, 600, 450)))
      [] kind = "outline" -> TextLike(HighestSurface(s), <<HighestSurface(s)>>, DefaultContrastCurve(300))
      [] kind = "outlineVariant" ->
            TextLike(HighestSurface(s), <<HighestSurface(s)>>, DefaultContrastCurve(150))
      [] kind = "inverseOnSurface" ->
            TextLike(Surface("inverseSurface"), <<Surface("inverseSurface")>>, DefaultContrastCurve(700))

BaseTone2025(s, family) ==
    CASE family = "primary" ->
            (CASE s.variant = "neutral" -> ByMode(s, 80, 40)
               [] s.variant = "tonalSpot" -> ByMode(s, 80, TMaxC(s, 0, 100))
               [] s.variant = "expressive" /\ IsYellowHue(s.hue) -> TMaxC(s, 0, 25)
               [] OTHER -> TMaxC(s, 0, IF IsCyanHue(s.hue) THEN 88 ELSE 98))
      [] family = "secondary" ->
            (CASE s.variant = "neutral" -> ByMode(s, TMinC(s, 0, 98), TMaxC(s, 0, 100))
               [] s.variant = "vibrant" -> TMaxC(s, 0, ByMode(s, 90, 98))
               [] OTHER -> ByMode(s, 80, TMaxC(s, 0, 100)))
      [] family = "tertiary" ->
            IF s.variant \in {"expressive", "vibrant"} /\ IsCyanHue(TertiaryHue(s))
            THEN TMaxC(s, 0, 88) ELSE TMaxC(s, 0, ByMode(s, 98, 100))
      [] family = "error" -> ByMode(s, TMinC(s, 0, 98), TMaxC(s, 0, 100))

ContainerTone2025(s, family) ==
    CASE family = "primary" ->
            (CASE s.variant = "neutral" -> ByMode(s, 30, 90)
               [] s.variant = "tonalSpot" -> ByMode(s, TMinC(s, 35, 93), TMaxC(s, 0, 90))
               [] s.variant = "expressive" ->
                    ByMode(s, TMaxC(s, 30, 93), TMaxC(s, 78, IF IsCyanHue(s.hue) THEN 88 ELSE 90))
               [] s.variant = "vibrant" ->
                    ByMode(s, TMinC(s, 66, 93), TMaxC(s, 66, IF IsCyanHue(s.hue) THEN 88 ELSE 93)))
      [] family = "secondary" ->
            (CASE s.variant = "vibrant" -> ByMode(s, TMinC(s, 30, 40), TMaxC(s, 84, 90))
               [] s.variant = "expressive" -> ByMode(s, 15, TMaxC(s, 90, 95))
               [] OTHER -> ByMode(s, 25, 90))
      [] family = "tertiary" ->
            (CASE s.variant = "neutral" -> TMaxC(s, 0, ByMode(s, 93, 96))
               [] s.variant = "tonalSpot" -> TMaxC(s, 0, ByMode(s, 93, 100))
               [] s.variant = "expressive" ->
                    IF IsCyanHue(TertiaryHue(s)) THEN TMaxC(s, 75, 88) ELSE TMaxC(s, 75, ByMode(s, 93, 100))
               [] s.variant = "vibrant" -> ByMode(s, TMaxC(s, 0, 93), TMaxC(s, 72, 100)))
      [] family = "error" -> ByMode(s, TMinC(s, 30, 93), TMaxC(s, 0, 90))

(* Containers want contrast only when the user asked for more of it.         *)
ContainerCurve2025(s) == IF s.contrast > 0 THEN DefaultContrastCurve(150) ELSE <<>>

Accent2025(s, family, kind) ==
    LET container == <<family, "container">>
        base      == <<family, "base">>
    IN  CASE kind = "base" ->
                Accent(BaseTone2025(s, family), <<HighestSurface(s)>>, DefaultContrastCurve(450),
                       Pair(container, base, 5, "relativeLighter", TRUE, "farther"))
          [] kind = "container" ->
                Accent(ContainerTone2025(s, family), <<HighestSurface(s)>>, ContainerCurve2025(s), {})
          [] kind = "on" -> TextLike(base, <<base>>, DefaultContrastCurve(600))
          [] kind = "onContainer" ->
                TextLike(container, <<container>>,
                         DefaultContrastCurve(IF family = "error" THEN 450 ELSE 600))
          [] kind = "inverse" ->
                Text(TMaxC(s, 0, 100), <<Surface("inverseSurface")>>, DefaultContrastCurve(600))

(* The fixed accents take the container's tone of a light scheme without     *)
(* contrast (withLightNoContrast), where the container has no curve.         *)
Fixed2025(s, family, kind) ==
    LET fixed == <<family, "fixed">>
        dim   == <<family, "fixedDim">>
        light == [s EXCEPT !.isDark = FALSE, !.contrast = 0]
    IN  CASE kind = "fixed" ->
                Accent(ContainerTone2025(light, family), <<HighestSurface(s)>>, ContainerCurve2025(s), {})
          [] kind = "fixedDim" ->
                [Accent(0, <<>>, <<>>, Pair(dim, fixed, 5, "darker", TRUE, "exact")) EXCEPT !.like = {fixed}]
          [] kind = "onFixed" -> TextLike(dim, <<dim>>, DefaultContrastCurve(700))
          [] kind = "onFixedVariant" -> TextLike(dim, <<dim>>, DefaultContrastCurve(450))

(* The roles 2025 does not define keep their older definition.               *)
Definition2025(s, role) ==
    CASE role = Surface("surfaceTint") -> Accent2025(s, "primary", "base")
      [] role[1] = "surface" /\ role[2] \in {"shadow", "scrim"} -> Definition2021(s, role)
      [] role[1] = "surface" /\ role[2] \in SurfaceTexts \ {"shadow", "scrim"} -> SurfaceText2025(s, role[2])
      [] role[1] = "surface" /\ role[2] \notin SurfaceTexts \cup {"surfaceTint"} -> Surface2025(s, role[2])
      [] role[2] \in FixedKinds -> Fixed2025(s, role[1], role[2])
      [] role[2] = "dim" -> Definition2021(s, role)
      [] OTHER -> Accent2025(s, role[1], role[2])

Definition(s, role) == IF Spec2025(s) THEN Definition2025(s, role) ELSE Definition2021(s, role)

(****************************************************************************)
(* resolveTone. A role is resolved from its definition and from tones, the  *)
(* cache, which holds every role it needs.                                  *)
(****************************************************************************)
RawTone(s, role, tones) ==
    LET d == defs[role]
    IN  IF d.like = {} THEN d.tone ELSE tones[CHOOSE r \in d.like : TRUE]

Grounds(s, role) ==
    LET d == defs[role] IN IF d.curve = <<>> THEN {} ELSE {d.on[i] : i \in DOMAIN d.on}

\* fault: a member of a pair resolves the other member, whichever it is.
NeedsOther(s, role) ==
    LET d == defs[role]
    IN  Grounds(s, role) \cup d.like \cup UNION {{p.a, p.b} \ {role} : p \in d.pair}

(* The roles resolveTone calls itself for: a 2021 pair takes the raw tones   *)
(* of both members, a 2025 pair waits for the resolved tone of the other.    *)
Needs(s, role) ==
    LET d == defs[role]
    IN  Grounds(s, role)
        \cup (IF d.pair = {} THEN d.like
              ELSE UNION {IF Spec2025(s)
                          THEN IF role = p.a THEN d.like \cup {p.b} ELSE defs[p.b].like \cup {p.a}
                          ELSE defs[p.a].like \cup defs[p.b].like : p \in d.pair})

(* A tone that is legible enough stays, unless less contrast is asked for.   *)
Legibly(s, tone, ground, ratio) ==
    IF RatioOfTones(ground, tone) >= ratio /\ s.contrast >= 0 THEN tone ELSE ForegroundTone(ground, ratio)

(* The 2021 pair: both members are made legible, pushed apart by delta, and  *)
(* moved out of the tones 50 to 60 on the side away from the surface.        *)
Pair2021(s, role, d, p, tones) ==
    LET aIsNearer == p.polarity = "nearer" \/ p.polarity = ByMode(s, "darker", "lighter")
        near == IF aIsNearer THEN p.a ELSE p.b
        far  == IF aIsNearer THEN p.b ELSE p.a
        dir  == ByMode(s, 1, -1)
        edge == ByMode(s, 300, 245)
        Awkward(t) == 250 <= t /\ t < 300
        Start(r) == Legibly(s, RawTone(s, r, tones), tones[d.on[1]], CurveAt(defs[r].curve, s.contrast))
        near0 == Start(near)
        far0  == Start(far)
        close == (far0 - near0) * dir < p.delta
        far1  == IF close THEN Clamp(0, 500, near0 + p.delta * dir) ELSE far0
        near1 == IF close /\ (far1 - near0) * dir < p.delta
                 THEN Clamp(0, 500, far1 - p.delta * dir) ELSE near0
        both  == Awkward(near1) \/ (Awkward(far1) /\ p.stayTogether)
        past  == edge + p.delta * dir
    IN  IF role = near THEN IF both THEN edge ELSE near1
        ELSE IF both THEN IF (far1 - past) * dir > 0 THEN far1 ELSE past
        ELSE IF Awkward(far1) THEN edge ELSE far1

(* The 2025 pair: the role keeps its distance from the resolved tone of the  *)
(* other member, and then its contrast.                                      *)
Pair2025(s, role, d, p, tones) ==
    LET lower == p.polarity = "darker" \/ p.polarity = ByMode(s, "relativeLighter", "relativeDarker")
        amA   == role = p.a
        ref   == tones[IF amA THEN p.b ELSE p.a]
        raw   == RawTone(s, IF amA THEN p.a ELSE p.b, tones)
        delta == IF lower = amA THEN -p.delta ELSE p.delta
        kept  ==
          CASE p.constraint = "exact" -> Clamp(0, 500, ref + delta)
            [] p.constraint = "farther" /\ delta > 0  -> Clamp(ref + delta, 500, raw)
            [] p.constraint = "farther" /\ delta <= 0 -> Clamp(0, ref + delta, raw)
    IN  IF d.curve = <<>> THEN kept ELSE Legibly(s, kept, tones[d.on[1]], CurveAt(d.curve, s.contrast))

(* Backgrounds stay out of the middle tones.                                 *)
Settle2025(role, d, t) ==
    IF ~d.isBackground \/ role[2] = "fixedDim" THEN t
    ELSE IF t >= 285 THEN Clamp(325, 500, t) ELSE Clamp(0, 245, t)

Settle2021(d, t, ground, ratio) ==
    IF ~d.isBackground \/ t \notin 250..299 THEN t
    ELSE IF RatioOfTones(245, ground) >= ratio THEN 245 ELSE 300

(* A text on two grounds that is not legible on both: the tone that is       *)
(* legible on the lighter or on the darker one, the light one preferred when *)
(* either ground is dark enough for it.                                      *)
OnBoth(t, ground, other, ratio) ==
    LET upper == IF ground > other THEN ground ELSE other
        lower == IF ground > other THEN other ELSE ground
        lights == {u \in upper..500 : RatioOfTones(upper, u) >= ratio /\ u + 2 <= 500}
        darks  == {u \in 0..lower : RatioOfTones(lower, u) >= ratio /\ u >= 2}
        light == IF lights = {} THEN 500 ELSE Min(lights) + 2
        dark  == IF darks = {} THEN 0 ELSE Max(darks) - 2
    IN  IF RatioOfTones(upper, t) >= ratio /\ RatioOfTones(lower, t) >= ratio THEN t
        ELSE IF TonePrefersLightForeground(ground) \/ TonePrefersLightForeground(other) THEN light
        ELSE IF lights # {} /\ darks = {} THEN light ELSE dark

\* fault: the ground's tone before its own contrast and pair.
GroundRaw(s, ground, tones) == RawTone(s, ground, tones)
GroundTone(s, ground, tones) == tones[ground]

Single(s, role, d, tones) ==
    LET raw    == RawTone(s, role, tones)
        ground == GroundTone(s, d.on[1], tones)
        ratio  == CurveAt(d.curve, s.contrast)
        one    == Legibly(s, raw, ground, ratio)
        calm   == IF Spec2025(s) THEN Settle2025(role, d, one) ELSE Settle2021(d, one, ground, ratio)
    IN  IF d.curve = <<>> THEN raw
        ELSE IF Len(d.on) = 1 THEN calm ELSE OnBoth(calm, ground, tones[d.on[2]], ratio)

ToneOf(s, role, tones) ==
    LET d == defs[role]
    IN  IF d.pair = {} THEN Single(s, role, d, tones)
        ELSE LET p == CHOOSE p \in d.pair : TRUE
             IN  IF Spec2025(s) THEN Settle2025(role, d, Pair2025(s, role, d, p, tones))
                 ELSE Pair2021(s, role, d, p, tones)

(****************************************************************************)
(* validatePalette: the surfaces are never pure black or white, and the     *)
(* five pairs the shell paints keep a gap of 40 tones.                      *)
(****************************************************************************)
PaintedSurfaces ==
    {Surface(k) : k \in {"surface", "surfaceDim", "surfaceBright", "containerLowest", "containerLow",
                         "container", "containerHigh", "containerHighest", "onSurface",
                         "surfaceVariant", "onSurfaceVariant", "surfaceTint"}}

FixSurfaceExtremes(role, t) ==
    IF role \notin PaintedSurfaces THEN t ELSE IF t = 0 THEN 25 ELSE IF t = 500 THEN 495 ELSE t

ContrastPairs ==
    {<<Surface("onSurface"), Surface("surface")>>, <<Surface("onSurfaceVariant"), Surface("surfaceVariant")>>,
     <<<<"primary", "on">>, <<"primary", "base">>>>, <<<<"error", "on">>, <<"error", "base">>>>,
     <<<<"primary", "onContainer">>, <<"primary", "container">>>>}

Accepted(tones) ==
    \A pair \in ContrastPairs :
        FixSurfaceExtremes(pair[1], tones[pair[1]]) - FixSurfaceExtremes(pair[2], tones[pair[2]])
            \notin -199..199

(****************************************************************************)
(* Building a palette.                                                      *)
(****************************************************************************)
Source(variant, hues, tones) ==
    [variant : {variant}, isDark : BOOLEAN, contrast : Contrasts, hue : hues, reach : Reaches,
     sourceTone : tones, disliked : BOOLEAN]

(* The hue matters under 2025 only, the source tone to the fidelity variants.*)
Schemes ==
    (UNION {{s \in Source(v, Hues, {50}) : ~s.disliked} : v \in Variants2025})
    \cup (UNION {{s \in Source(v, {0}, IF IsFidelity([variant |-> v]) THEN SourceTones ELSE {50}) :
                     s.disliked => IsFidelity(s)} : v \in Variants2021})

PaletteInit ==
    /\ scheme \in Initially("palette", Schemes)
    /\ defs = [r \in {q \in ToSet(Roles) : part = "palette"} |-> Definition(scheme, r)]
    /\ built = 0
    /\ stack = <<>>
    /\ toneCache = <<>>
    /\ verdict = "building"

(* resolveHct of the next role; a cached tone is returned at once.           *)
NextRole ==
    /\ stack = <<>> /\ built < Len(Roles)
    /\ built' = built + 1
    /\ stack' = IF Roles[built + 1] \in DOMAIN toneCache THEN <<>> ELSE <<Roles[built + 1]>>
    /\ UNCHANGED <<scheme, defs, toneCache, verdict>>

(* The innermost call asks for a tone that is not cached yet.                *)
Recurse ==
    /\ stack # <<>>
    /\ LET missing == Needs(scheme, Last(stack)) \ DOMAIN toneCache
       IN  /\ missing # {}
           /\ stack' = Append(stack, CHOOSE r \in missing : TRUE)
    /\ UNCHANGED <<scheme, defs, built, toneCache, verdict>>

(* The innermost call has what it needs, stores its tone and returns.        *)
Return ==
    /\ stack # <<>>
    /\ Needs(scheme, Last(stack)) \subseteq DOMAIN toneCache
    /\ toneCache' = [r \in DOMAIN toneCache \cup {Last(stack)} |->
                       IF r = Last(stack) THEN ToneOf(scheme, r, toneCache) ELSE toneCache[r]]
    /\ stack' = Front(stack)
    /\ UNCHANGED <<scheme, defs, built, verdict>>

Validate ==
    /\ verdict = "building" /\ stack = <<>> /\ built = Len(Roles)
    /\ verdict' = IF Accepted(toneCache) THEN "accepted" ELSE "rejected"
    /\ UNCHANGED <<scheme, defs, built, stack, toneCache>>

PaletteNext == NextRole \/ Recurse \/ Return \/ Validate

PaletteTypeOK ==
    /\ scheme \in Initially("palette", Schemes)
    /\ built \in 0..Len(Roles)
    /\ \A i \in DOMAIN stack : stack[i] \in ToSet(Roles)
    /\ DOMAIN toneCache \subseteq ToSet(Roles) /\ \A r \in DOMAIN toneCache : toneCache[r] \in Tones
    /\ verdict \in {"building", "accepted", "rejected"}

(* Types are correct and the recursion of resolveTone ends: no role's tone waits for itself,       *)
(* through whatever grounds, pairs and borrowed tones the two tables name.   *)
NoRoleWaitsForItself ==
    /\ PaletteTypeOK
    /\ \A i, j \in DOMAIN stack : stack[i] = stack[j] => i = j

(* Every scheme, mode and source colour gives a palette validatePalette      *)
(* accepts: a rejected one leaves the shell without its colours.             *)
PaletteAccepted == verdict # "rejected"

(* Whatever is written on a ground is as legible there as its curve asks, or *)
(* as legible as black or white would be, however the ground was moved by    *)
(* its own pair and contrast.                                                *)
TextLegible ==
    verdict = "building" \/
    \A r \in ToSet(Roles) :
        LET d == defs[r]
            ratio == CurveAt(d.curve, scheme.contrast)
        IN  d.isBackground \/ d.curve = <<>> \/
            \A g \in Grounds(scheme, r) :
                \/ RatioOfTones(toneCache[g], toneCache[r]) >= ratio
                \/ \A best \in {0, 500} : RatioOfTones(toneCache[g], best) <= RatioOfTones(toneCache[g], toneCache[r])
=============================================================================
