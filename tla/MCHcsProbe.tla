----------------------------- MODULE MCHcsProbe -----------------------------
EXTENDS HcsProbe

\* with and without the GPU, rendered once, twice, and with a failure
MCScripts ==
  {<<"dxg", "userspace_ok", "ready">>, <<"render", "userspace_ok", "ready">>,
   <<"render", "render", "userspace_ok", "ready">>,
   <<"render", "render_failed", "userspace_ok", "ready">>}
=============================================================================
