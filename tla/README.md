# TLA+ models of Kotatogram's menu widget, window helper and JSON settings manager

This directory holds TLA+ models of parts of the Kotatogram sources under `src/`. TLC model-checks them.

Each module is translated from the C++. `PROJECT.json` maps every definition to the source lines it models.

## The system's parts

| Part | Source | Module | Status |
|------|--------|--------|--------|
| Popup menu widget `Ui::Menu::Menu`: layout, selection, press, ripples, toggles | `src/ui/widgets/menu.cpp` | `Menu`, `MCMenu`, `MenuSelection` (abstract) | partly |
| Item text parsing (`ParseMenuItem`, tab split) | `src/ui/widgets/menu.cpp` | `MenuText`, `MCMenuText` | modelled |
| JSON settings manager `Kotato::JsonSettings` (`Start`, `Write`, `Finish`) | `src/Telegram/SourceFiles/core/kotato_settings.cpp` | `KotatoSettings` | modelled |
| Native event filter (HWND to helper registry) | `src/ui/platform/win/ui_window_win.cpp` | `WindowRegistry`, `MCWindow` | modelled |
| Windows window helper (WM_SIZE, margins, system menu, shadow) | `src/ui/platform/win/ui_window_win.cpp` | `WindowHelper`, `MCWindow` | partly |
| Settings section `Settings::Kotato` | `src/Telegram/SourceFiles/settings/settings_kotato.cpp` | none | not modelled |
| `Core::Application` | `src/Telegram/SourceFiles/core/application.h` | none | not modelled |

How the parts interact:

- The menu is driven by three actors that the Qt event loop interleaves:
  - the user's pointer (move, press, release, enter, leave);
  - the keyboard (Up, Down, Right, Enter);
  - the owner, which appends, clears or changes actions, forces a width, sets the show source and shows submenus.
- Paint events and ripple-animation timers complete the interaction asynchronously.
- The settings manager is driven by the application:
  - `Start()` at launch;
  - `Write()` after each font setting change;
  - `Finish()` at exit.
- Its own single-shot `_jsonWriteTimer` delays writes.
- The process may exit after `Finish()` and start again, or be killed at any point, including inside a file write.
- Every native message of a borderless window passes through one process-wide `NativeFilter`. It looks up the window's `WindowHelper` by HWND. The helper's handlers can call Win32 functions that send further messages to the same handler before they return. Qt learns the window's state later, from a notification queue, and then emits `windowStateChanged`, whose slot refreshes the system menu.

## Module `Menu` (menu.cpp)

**State.** The state mirrors the widget's members:

- `actions` and `data` are `_actions` and `_actionsData`. An action is a record with:
  - `separator`;
  - the measured `textWidth` of its text;
  - `shortcut`;
  - `submenu`;
  - `checkable`;
  - `enabled`.

  Its `ActionData` keeps:
  - `hasSubmenu`;
  - the toggle's style (`none`, `normal` or `over`);
  - `textWidth`, the room `processAction` leaves for the text once the menu width is clamped, which is the width the text is elided to;
  - the ripple: whether the object exists, whether a ripple is still held, and whether any is hiding. `RippleAnimation::add` (lib_ui, outside `src/`) stops the last ripple before it adds one, so an item holds at most one unstopped ripple.
- `selected`, `pressed`, `mouseSelection`, `childShown`, `forceWidth`, `width` and `height` are the members and geometry of the same names.
- `cursor` is the last pointer position, as a y coordinate, or -1 outside.
- `triggered` records the last `_triggeredCallback` call and its source.

**Actions.** Every handler is one action, with the helpers it calls folded in:

- the owner's calls:
  - `AddAction` (with `processAction` and `updateSelected`);
  - `ClearActions`;
  - `FinishAnimating`;
  - `ActionChanged` (the `changed` signal);
  - `SetShowSource`;
  - `SetForceWidth`;
  - `SetChildShown`;
- the pointer: `MouseMove`, `MousePress`, `MouseRelease`, `MouseEnter`, `MouseLeave`;
- the keyboard: `KeyPress`;
- the asynchronous steps: `RippleHidden` (a ripple finished hiding) and `Paint` (the `paintEvent` that destroys empty ripples).

**Pure operators.** Three operators translate the code's loops:

- `HitScan`: the `updateSelected` scan;
- `NavTarget`: the wrap-around loop of `handleKeyPress`;
- `ProcessWidth`: the width arithmetic of `processAction`, with `std::clamp`.

The invariants compare each one with a set-based reference definition. `ProcessData` applies the rest of `processAction` to the item's `ActionData`: the toggle view and `textWidth`. `std::clamp` with lo > hi is undefined; `StdClamp` computes it as libstdc++ does. This case arises only in `addAction` while a forced width above `widthMax` is set.

**Abstraction.** Texts are reduced to their measured widths, and the style metrics are small integer constants.

## Module `MenuSelection` (abstract) and the refinement

`MenuSelection` states what spec section 4.1 promises about selection, press and trigger, without geometry, styles or animations. Its state is:

- the item count;
- the selected index;
- the pressed index;
- the index triggered in the last step.

Its steps are `Append`, `Clear`, `Change`, `Select`, `Press`, `Release` and `Activate`:

- `Press` presses the current selection or refuses.
- `Release` clears the press and triggers only when the pressed item is the selected one.
- `Activate`, the keyboard path, presses and releases in one step.

`MCMenu` instantiates it with `count <- Len(actions)`, `sel <- selected`, `pr <- pressed` and `trig <- triggered.idx`. The run `menu_interaction` checks `Selection!Spec` as a `PROPERTY` of `Menu`, next to the interaction invariants.

## Module `WindowHelper` (ui_window_win.cpp)

**State:**

- the OS placement (normal, maximized or minimized) and visibility;
- Qt's `windowState()`, and the queue of platform state notifications Qt has not delivered yet;
- the `MFS_DISABLED` bit of each system-menu item;
- whether `_marginsDelta` is non-null;
- the shadow's visibility;
- a ghost counter of `SetWindowPos` shrinks since `_marginsDelta` was last computed.

**Handlers.** As in `Menu`, handlers are operators from a state record to the set of possible outcomes. This lets the synchronous re-entry compose as in the code: `updateMargins` calls `SetWindowPos`, which delivers `WM_WINDOWPOSCHANGED` and a nested `WM_SIZE`, which calls `updateMargins` again. That is why `UpdateMargins` and `WmSize` are `RECURSIVE`. `MaxDepth` bounds the nesting so that a missing guard terminates in the model.

**Actions:**

- `OsChangePlacement`: the user or the shell changes the placement;
- `Command`: `WM_COMMAND` with SC_MINIMIZE, SC_MAXIMIZE or SC_RESTORE;
- `Close`: SC_CLOSE;
- `Show`;
- `MouseMenu`: `WM_NCRBUTTONUP` leading to `SC_MOUSEMENU`;
- `QtDeliver`.

**Modelled from Qt's documented behaviour.** Three pieces of Qt, which is not in `src/`, are modelled from its behaviour (`spec_modelled` in the map):

- the order in which Windows sends the placement messages;
- `QWindow::setWindowStates`: the platform changes first, then Qt stores the state and emits if it changed;
- Qt's delayed delivery of the new state.

`updateSystemMenu` may stop at any item when `MenuCanFail` is set, as its loop breaks at a failing `GetMenuItemInfo` or `SetMenuItemInfo`. The ghost `menuComplete` records whether the last update reached the last item.

## Module `WindowRegistry` (ui_window_win.cpp)

**State:**

- `_windowByHandle`, as a partial function;
- the live helpers;
- each helper's cached `_handle`;
- the existing native windows.

**Actions:**

- `Create`: the constructor takes a fresh HWND and registers it. `flat_map::emplace` never replaces an entry.
- `Destroy`: the destructor unregisters, then the window frees its HWND.

HWND values and helper addresses come from small sets, so both are reused.

## Module `MCWindow` (composition)

`MCWindow` instantiates `WindowHelper` and `WindowRegistry` side by side. It interleaves the steps of one window's helper with the construction and destruction of the process's other helpers. A step of one leaves the other's variables unchanged: the filter's routing and the helper's handlers share no state besides the helper's own registered HWND. The run `window` checks the invariants of both modules together.

## Module `MenuText` (menu.cpp)

`MenuText` has no state. Its operators are:

- `ParseFrom`: the `RECURSIVE` loop of `ParseMenuItem`, one character at a time. The `afterAmpersand` flag and the result (text and underline offsets) are its parameters.
- `ActionText` and `ActionShortcut`: the `split('\t')` of `processAction`. The label is the part before the first tab and the shortcut the part up to a second tab. Anything after a second tab is dropped.
- `ProcessText`: the text branch of `processAction`, with the empty-text case.

A string is a sequence of one-character strings.

The reference definitions say the same thing over positions instead of a scan:

- an ampersand starts an accelerator when the run of ampersands before it has even length;
- the text keeps every other position;
- an underline sits at the count of kept positions before the character that follows an accelerator;
- the split is the unique decomposition `label \o <<Tab>> \o shortcut \o tail`.

`MCMenuText` builds every text of up to `MaxLen` characters, one character per step, and checks `ProcessTextCorrect` in each state.

## Module `KotatoSettings` (kotato_settings.cpp)

**State:**

- whether `Data` exists;
- whether the write timer is active, and the ticks since it was started (`Window` ticks stand for `kWriteJsonTimeout`);
- the in-memory settings, as a version number, and the next version a change produces;
- the default file: absent, corrupt, `written` by `writeDefaultFile`, or `valid`, meaning a file with a numeric version that only a hand edit produces;
- the custom file (absent, corrupt or valid) and the version it holds;
- the version of a `Write()` not yet written out;
- whether the last write failed to open the file;
- whether `Finish()` has run;
- the number of process lifetimes so far.

There are two ghost variables:

- `idle`: the ticks since the last `Write()`;
- `durable`: the version of the last complete custom file.

**Actions:**

- `Start`, with `Fill`. `Fill` covers `DefaultFileIsValid`, `writeDefaultFile`, `readCustomFile` and `WriteDefaultCustomFile`.
- `Write`;
- `Tick`;
- `WriteTimeout`;
- `Finish`;
- `ChangeSettings`;
- `Restart`, after `Finish`;
- `Crash`.

`Crash` kills the process at one of these points:

- between events;
- inside `writeCurrentSettings`, after its truncating `open(WriteOnly)`;
- inside `fill()`, after the truncating open of either default file.

A crash leaves the file it was writing corrupt.

Every file open nondeterministically succeeds or fails when `OpenCanFail` holds.

`DefaultFileIsValid` is modelled as the code behaves. A file that does not open is invalid. `writeDefaultFile` stores the version as a string, and `toInt()` reads a string as 0. So a file the code wrote is never valid, and it is rewritten at every start. The file's header says its content is unused, so no property is spent on this.

## Runs

| Run | Expect | Checks |
|-----|--------|--------|
| `menu_layout` | pass | The hit-test scan, keyboard navigation and the incrementally maintained width and height equal their reference definitions. An item's text is elided only when the item needs more than `widthMax`. This holds after any sequence of appends, clears, `actionChanged` with action variants, and forced widths of 12 and 14 (above `widthMax`). |
| `menu_interaction` | pass | Indices stay valid. A mouse-driven selection is never a separator. No toggle keeps its hover style once its item is neither selected nor pressed. `Menu` implements `MenuSelection`: every handler, with the helpers it calls, is a step of the abstract machine. This holds over all interleavings of pointer, keyboard and owner calls, with `actionChanged` variants and a forced width. |
| `menu_ripple_live` | pass | Under fairness, every ripple that has been stopped is eventually destroyed by a paint. |
| `menu_text` | pass | `ParseMenuItem` and the tab split agree with the position-based reference definitions on every item text of up to five characters. |
| `settings` | pass | This holds across a restart and crashes: whenever no write is scheduled, every `Write()` of the process has been written out, unless an open failed. Every write is eventually written out, fails, or dies with the process. |
| `window` | pass | The nested `WM_SIZE` from `SetWindowPos` never shrinks a restored window a second time (`_updatingMargins`). With `updateSystemMenu` allowed to break off at any item: once Qt has delivered its notifications and the last update went through every item, the system menu disables exactly the command of the current placement. So one complete update repairs every earlier partial one. The shadow of a visible window is shown exactly in the normal placement. Every existing window's messages reach its own live helper, and no other. |
| `menu_disabled_trigger` | violation | An item disabled while held pressed is triggered by a release outside the rows while a submenu is shown. |
| `menu_separator` | violation | A menu opened by keyboard selects a leading separator, and Enter triggers it. |
| `menu_ripple_stuck` | violation | A mouse press released by Enter leaves its ripple held with nothing pressed, until the next mouse press on that item. |
| `menu_toggle_stale` | violation | `actionChanged` disables a selected checkable item and leaves its toggle in hover style (`ToggleStyleConsistent`: a toggle is `over` exactly when its item is selected or pressed and enabled). |
| `settings_debounce` | violation | A `Write()` just before the timeout does not postpone the write. The file is written a fixed time after the first `Write()` of a burst, not after a quiet period, as the spec's "5 seconds of inactivity" says. |
| `settings_crash` | violation | A process killed inside `writeCurrentSettings` leaves the custom file truncated. The next start silently keeps the default fonts, so the saved fonts are lost, not only the pending change. |

The six violations are recorded as findings in `PROJECT.json`, each with its source line.

One more disagreement was seen while modelling. It has no run of its own, to keep the number of runs small: `setForceWidth(0)` after a forced width resizes the menu to width 0, which breaks `GeometryMatchesActions` if 0 is added to the layout run's forced widths. The layout run therefore forces only 12 and 14, and no run covers this hazard.

## Bounds

- **Menus.** The menu runs use up to 3 actions. The layout run uses an action pool with a separator, a submenu item, a checkable item and a wide disabled item with a shortcut, plus variants for `actionChanged`. With these:
  - items can be separators at either end;
  - disabled items can sit between enabled ones, so the navigation loop has to skip them;
  - a width can be clamped by `widthMax`;
  - with the forced widths 12 and 14, the wide item's need (13) lies above one and below the other. So `addAction`'s `std::clamp` with lo > hi returns hi in one case and lo in the other.
- **Pointer positions.** These are one point per row and an outside point, so each hit-test branch is reached. The layout invariant quantifies over every y coordinate itself.
- **Interaction and refinement.** The interaction run uses 2 actions with all variants and a forced width, which gives 742k states in about two minutes. Pressing, moving the pointer to the other item and releasing is the case the abstract `Release` constrains. Two actions are enough for a separator beside a selectable item, and for a checkable item next to another one.
- **Window helper.** `MaxQueue = 3` lets Qt lag three placement changes behind, so every order of the three states can be pending, including the stale-state case of the `WM_SIZE` restore test. `MaxDepth = 2` is one level more than the guarded code reaches, so a missing guard shows as a second shrink.
- **Registry.** The `window` run uses three helpers and three HWND values, so a destroyed window's HWND can be reused.
- **Settings.** The passing run has these bounds:
  - `MaxChanges = 3` gives three settings changes, enough for several writes to be pending, superseded and flushed.
  - `MaxRuns = 1` gives two lifetimes, so a crash or exit is followed by a start that reads what the first lifetime left.
  - `Window = 2` ticks lets a second `Write()` land while the timer runs.
- **Item texts.** Texts have up to five characters over `&`, two letters and a tab. That gives ampersand runs of every length up to five, accelerators at the start, the end and before a tab, and zero, one or two tabs (1,365 texts).

## Fairness

`FairSpec` assumes weak fairness of `RippleHidden(i)` and `Paint(i)`. Qt's animation timer runs a hiding ripple to its end, and the widget repaints itself while an animation is running. In the settings model, `Tick` and `WriteTimeout` are weakly fair: time passes, and the process's event loop delivers the `QTimer` timeout. Crashes and restarts carry no fairness. User and owner actions carry no fairness.

## Not modelled

- Pixel-level painting, fonts and icons.
- The `activated` and `triggered` delegates beyond recording the trigger.
- JSON content beyond a version number.
- `settings_kotato.cpp`, which creates only an empty layout.
- `application.h`, which has only declarations.
- These window messages: `WM_NCHITTEST`, `WM_NCCALCSIZE`, `WM_NCPAINT`, `WM_NCACTIVATE`, `WM_ACTIVATE` and `WM_MOVE`. They compute a return value or geometry from Win32 rectangles, or only repaint. No state of the helper changes except the shadow's position.
- `setTitle`, `setSizeMin` and the body geometry, which are widget plumbing.
- Liveness of the window helper. The only progress it depends on is Qt's delivery of its own queued notifications; once they are delivered, `SystemMenuRepaired` already states the outcome. No plausible change to this code breaks eventual delivery without first breaking that invariant, so a liveness property would say nothing about the code.
- What a partially failed menu update looks like before it is repaired. After a complete update for maximized, one for minimized that stops before SC_MAXIMIZE and one for normal that stops after SC_RESTORE, all three of Restore, Minimize and Maximize are disabled; SC_MOUSEMENU refreshes the menu before it is shown, so such a menu is shown only if that refresh fails too.

## Possible extensions

- `std::clamp` with lo > hi as a choice between the libstdc++ result and that of a standard library that tests `hi < v` first. `TextElidedOnlyPastMax` holds for both, because either result is at least `widthMax` or the need itself.
