----------------------------- MODULE MCAsyncBus -----------------------------
(* Small instances of the asynchronous bus.                                *)
EXTENDS AsyncBus
=============================================================================
