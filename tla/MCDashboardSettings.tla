------------------------ MODULE MCDashboardSettings ------------------------
\* Model-checking instance of DashboardSettings; bounds are in the .cfg file.
EXTENDS DashboardSettings, TLC

\* Batches over several tables, which no form makes.
MCBatches ==
    {{"panel_show_icon", "role_id"}, {"vrchat_group_id", "role_id"},
     {"vrchat_group_invite_enabled", "verification_log_channel_id"}}

Symmetric == Permutations(Saves)
=============================================================================
