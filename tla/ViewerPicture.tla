---------------------------- MODULE ViewerPicture ----------------------------
(***************************************************************************)
(* What <fs-viewer> has on its canvas (viewer/src/element.ts): the         *)
(* settings a page changes in any order, the four caches of derived data   *)
(* with their keys and what drops them, the paint that is put off to the   *)
(* next animation frame, the viewport, and the toolbar's buttons.          *)
(*                                                                         *)
(* A key holds a result's job and a computed layer its data: two results   *)
(* of one job (two levels of detail) differ in their data alone, and any   *)
(* two data are taken to have the same extremes.                           *)
(***************************************************************************)
EXTENDS Naturals, FiniteSets

CONSTANTS
    Results,     \* what the page may show
    Viewports,   \* windows it may zoom to
    NoResult,
    NoView,      \* the whole domain
    MaxCalls     \* calls of the page (a bound)

ASSUME ViewerAssumption ==
    /\ Results \subseteq [job : Nat, data : Nat, bounds : Nat, grid : BOOLEAN,
                          fields : SUBSET {1, 2}, vectors : BOOLEAN]
    /\ NoResult \notin Results /\ NoView \notin Viewports /\ MaxCalls \in Nat


Attributes ==
    {"field", "colormap", "contours", "symmetric", "range", "vectors", "glyphs", "streamlines",
     "density", "mode", "toolbar"}

SettingsOf(a) ==
    CASE a \in {"field", "contours"} -> {0, 1, 2}
      [] a \in {"colormap", "glyphs", "density", "mode"} -> {1, 2}
      [] OTHER -> {0, 1}

Layers == {"raster", "contours", "glyphs", "curves"}

VARIABLES
    result, setting, seeds, geometry, viewport,
    cache,      \* of each layer, its key and what it was computed from
    pending,    \* #frame: a paint is scheduled
    painted,    \* what is on the canvas
    toolbar,    \* what the buttons say
    calls,      \* calls so far
    viewedOf,   \* history: the bounds the viewport was chosen on,
    unsynced    \* and whether curves were put up since the buttons were last set

pictureVars ==
    <<result, setting, seeds, geometry, viewport, cache, pending, painted, toolbar, calls,
      viewedOf, unsynced>>

Empty == [key |-> <<>>, of |-> <<>>]

\* #view
View == IF viewport # NoView THEN viewport
        ELSE IF result # NoResult THEN <<result.bounds>> ELSE <<>>

\* #computeRange, as a key sees it.
ColourRange == IF setting.range # 0 THEN <<setting.range>> ELSE <<0, setting.symmetric>>

\* The inputs of a layer but for the result.
Inputs(l) ==
    CASE l = "raster"   -> <<setting.field, setting.colormap, ColourRange>>
      [] l = "contours" -> <<setting.field, setting.contours, ColourRange>>
      [] l = "glyphs"   -> <<setting.vectors, setting.glyphs, View>>
      [] l = "curves"   -> <<setting.streamlines, setting.density, seeds>>

Key(l)   == <<result.job, Inputs(l)>>
Truth(l) == <<result.data, Inputs(l)>>

HasField == result # NoResult /\ setting.field \in result.fields

\* The layers a paint goes through.
Drawn ==
    (IF result.grid THEN {"raster"} ELSE {})
    \cup (IF setting.contours # 0 THEN {"contours"} ELSE {})
    \cup (IF setting.vectors # 0 THEN {"glyphs"} ELSE {})
    \cup (IF setting.streamlines # 0 THEN {"curves"} ELSE {})

\* A layer, from its cache if the key is the same, and computed if not.
Looked(l) == IF cache[l].key = Key(l) THEN cache[l] ELSE [key |-> Key(l), of |-> Truth(l)]

\* capabilities, as the buttons and the pressed one show it.
Capabilities ==
    [loaded |-> result # NoResult, field |-> HasField,
     curves |-> result # NoResult /\ result.vectors, fits |-> geometry, mode |-> setting.mode]

PictureInit ==
    /\ result = NoResult
    /\ setting = [field |-> 1, colormap |-> 1, contours |-> 1, symmetric |-> 0, range |-> 0,
                  vectors |-> 1, glyphs |-> 1, streamlines |-> 1, density |-> 1, mode |-> 1,
                  toolbar |-> 1]
    /\ seeds = 0 /\ geometry = FALSE /\ viewport = NoView
    /\ cache = [l \in Layers |-> Empty]
    /\ pending = TRUE
    /\ painted = [blank |-> TRUE]
    /\ toolbar = Capabilities
    /\ calls = 0 /\ viewedOf = 0 /\ unsynced = FALSE

PageCall == calls < MaxCalls /\ calls' = calls + 1

Drop(layers) == cache' = [l \in Layers |-> IF l \in layers THEN Empty ELSE cache[l]]

\* #syncToolbar, which does nothing without a toolbar.
SyncToolbar ==
    IF setting'.toolbar = 0 THEN UNCHANGED <<toolbar, unsynced>>
    ELSE toolbar' = Capabilities' /\ unsynced' = FALSE

-----------------------------------------------------------------------------
\* What attributeChangedCallback forgets for each attribute.
Dropped(a) ==
    CASE a = "field" -> {"raster", "contours"}
      [] a \in {"colormap", "symmetric", "range"} -> {"raster"}
      [] a = "contours" -> {"contours"}
      [] a \in {"vectors", "glyphs"} -> {"glyphs"}
      [] a \in {"streamlines", "density"} -> {"curves"}
      [] OTHER -> {}

SetAttribute(a) ==
    /\ PageCall
    /\ \E v \in SettingsOf(a) : setting' = [setting EXCEPT ![a] = v]
    /\ Drop(Dropped(a))
    /\ pending' = TRUE
    /\ UNCHANGED <<result, seeds, geometry, viewport, painted, viewedOf>>
    /\ SyncToolbar

\* The field stays if the new result has it; the viewport if the bounds are the same.
FieldFor(r) ==
    IF r = NoResult \/ setting.field \in r.fields THEN setting.field
    ELSE IF r.fields = {} THEN 0 ELSE CHOOSE f \in r.fields : \A g \in r.fields : f <= g

ViewportFor(r) ==
    IF r = NoResult \/ result = NoResult \/ r.bounds # result.bounds THEN NoView ELSE viewport

\* SetResult that trusts the keys to tell results apart.
SetResultKeepingCaches(r) ==
    /\ PageCall
    /\ result' = r
    /\ setting' = [setting EXCEPT !.field = FieldFor(r)]
    /\ viewport' = ViewportFor(r)
    /\ pending' = TRUE
    /\ UNCHANGED <<seeds, geometry, cache, painted, viewedOf>>
    /\ SyncToolbar

SetResult(r) ==
    /\ PageCall
    /\ result' = r
    /\ setting' = [setting EXCEPT !.field = FieldFor(r)]
    /\ viewport' = ViewportFor(r)
    /\ Drop(Layers)
    /\ pending' = TRUE
    /\ UNCHANGED <<seeds, geometry, painted, viewedOf>>
    /\ SyncToolbar

\* A result that is curves clears the view; the buttons are left as they were.
SetSeries ==
    /\ PageCall
    /\ result' = NoResult
    /\ setting' = [setting EXCEPT !.field = 0]
    /\ Drop(Layers)
    /\ pending' = TRUE /\ unsynced' = TRUE
    /\ UNCHANGED <<seeds, geometry, viewport, painted, toolbar, viewedOf>>

\* streamlineSeeds, addStreamlineSeed, clearStreamlineSeeds
SetSeeds ==
    /\ PageCall
    /\ \E s \in 0..2 : seeds' = s
    /\ Drop({"curves"})
    /\ pending' = TRUE
    /\ UNCHANGED <<result, setting, geometry, viewport, painted, toolbar, viewedOf, unsynced>>

SetGeometry ==
    /\ PageCall
    /\ geometry' \in BOOLEAN
    /\ pending' = TRUE
    /\ UNCHANGED <<result, setting, seeds, viewport, cache, painted, viewedOf>>
    /\ SyncToolbar

\* #applyViewport, for setViewport, fitDomain, fitGeometry, zoomBy, panBy, the
\* wheel and a pinch.
ApplyViewport(v) ==
    /\ PageCall
    /\ viewport' = v
    /\ viewedOf' = IF result = NoResult THEN 0 ELSE result.bounds
    /\ IF v = View THEN UNCHANGED <<cache, pending>>
       ELSE Drop({"glyphs"}) /\ pending' = TRUE
    /\ UNCHANGED <<result, setting, seeds, geometry, painted, toolbar, unsynced>>

\* resetView
ResetView ==
    /\ PageCall /\ result # NoResult
    /\ viewport' = NoView
    /\ Drop({"glyphs"})
    /\ pending' = TRUE
    /\ UNCHANGED <<result, setting, seeds, geometry, painted, toolbar, viewedOf, unsynced>>

\* integralCurves: what #curves returns, and keeps.
ReadCurves ==
    /\ PageCall /\ result # NoResult /\ setting.streamlines # 0
    /\ cache' = [cache EXCEPT !["curves"] = Looked("curves")]
    /\ UNCHANGED <<result, setting, seeds, geometry, viewport, pending, painted, toolbar,
                   viewedOf, unsynced>>

\* The animation frame comes.
Draw ==
    /\ pending
    /\ pending' = FALSE
    /\ IF ~HasField
       THEN painted' = [blank |-> TRUE] /\ UNCHANGED cache
       ELSE /\ cache' = [l \in Layers |-> IF l \in Drawn THEN Looked(l) ELSE cache[l]]
            /\ painted' = [blank |-> FALSE, view |-> View, outline |-> geometry,
                           layers |-> [l \in Drawn |-> cache'[l].of]]
    /\ UNCHANGED <<result, setting, seeds, geometry, viewport, toolbar, calls, viewedOf, unsynced>>

PictureNext ==
    \/ \E a \in Attributes : SetAttribute(a)
    \/ \E r \in Results \cup {NoResult} : SetResult(r)
    \/ SetSeries \/ SetSeeds \/ SetGeometry
    \/ \E v \in Viewports : ApplyViewport(v)
    \/ ResetView \/ ReadCurves \/ Draw

PictureSpec == PictureInit /\ [][PictureNext]_pictureVars

-----------------------------------------------------------------------------
(* Properties *)

\* The canvas as it would be painted from nothing.
UpToDate ==
    IF ~HasField THEN [blank |-> TRUE]
    ELSE [blank |-> FALSE, view |-> View, outline |-> geometry,
          layers |-> [l \in Drawn |-> Truth(l)]]

\* With no paint to come, the canvas shows the present result under the present
\* settings: no layer of another job's, level's, field's or view's is left.
CanvasIsCurrent == pending \/ painted = UpToDate

\* A viewport is kept only while the bounds are those it was chosen on.
ViewportBelongs == viewport # NoView /\ result # NoResult => viewedOf = result.bounds

\* The buttons say what can be done, except after curves were put up.
ButtonsAreCurrent == setting.toolbar = 0 \/ unsynced \/ toolbar = Capabilities

PictureIsCurrent == CanvasIsCurrent /\ ViewportBelongs /\ ButtonsAreCurrent
=============================================================================
