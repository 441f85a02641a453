------------------------------- MODULE Viewer -------------------------------
(***************************************************************************)
(* <fs-viewer> (viewer/src/element.ts): its picture and the gestures on    *)
(* it.  A gesture reaches the picture through a call of #applyViewport,    *)
(* which ViewerPicture makes at any time.                                  *)
(***************************************************************************)
EXTENDS ViewerPicture, ViewerGestures

ViewerSpec == PictureSpec /\ GesturesSpec

\* What the viewer shows and lets one do is what it was last given and told,
\* on the canvas as well as under the fingers.
ViewerIsSound == PictureIsCurrent /\ GestureIsSound
=============================================================================
