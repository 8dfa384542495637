------------------------------ MODULE BotScreensMC ------------------------------
(* Constant values for TLC. *)
EXTENDS BotScreens, TLC

CONSTANTS i1, i2, h1, h2

\* The parts of the bot visited in one behaviour: those that share a state of
\* the row or keys of its data, and a few that do not.
MCPlans == {{"onboarding", "purchase"}, {"onboarding", "support"}, {"purchase", "wallet"},
            {"subscription", "referral", "profile"}, {"support", "subscription"},
            {"control"}, {"orders", "tickets", "brand", "search"},
            {"panel_users"}, {"panel_admins"}, {"cards", "search"}, {"crypto"},
            {"gateways", "broadcast"}}

Symmetry == Permutations({i1, i2}) \cup Permutations({h1, h2})
===============================================================================
