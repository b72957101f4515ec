---------------------------- MODULE RotatingBuffers ----------------------------
(***************************************************************************)
(* The two allocators of nkilib that rotate buffers, side by side: the     *)
(* sections of SbufManager's multi-buffered scopes, and the tiles of the   *)
(* ModularAllocator.  They share no state.                                 *)
(***************************************************************************)
EXTENDS SbufManager, Tiling

BuffersSpec == SbufSpec /\ TilingSpec

(* The buffers of different iterations are apart, those of the same ones     *)
(* the same, in either allocator: allocator.py, modular_allocator.py.        *)
BuffersKeepApart == SbufTypeOK /\ BuffersAlternate /\ BuffersRotate
================================================================================
