------------------------------ MODULE MCDeploy ------------------------------
EXTENDS Deploy, TLC

CONSTANTS c1, c2

KilledOnly == {{"kill"}}
KilledOrDisturbed ==
  {{"kill", "disk"}, {"flap", "reboot", "disk"},
   {"kill", "stuck", "stuckNginx"}, {"flap", "reboot", "disk", "stuck", "stuckNginx"}}

=============================================================================
