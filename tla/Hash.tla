-------------------------------- MODULE Hash --------------------------------
(***************************************************************************)
(* src/hash.c.  Every algorithm is taken to be perfect, so that which one  *)
(* hash_function selects makes no difference: a digest, and the state of   *)
(* an unfinished one, is the data that went into it, in order.             *)
(***************************************************************************)
EXTENDS Sequences

hash_fn_buf_init == << >>
hash_fn_buf_update(ctx, buffer) == ctx \o buffer
hash_fn_get_partial(ctx) == ctx
=============================================================================
